----------------------------- MODULE GateProofs -------------------------------
(***************************************************************************)
(* Theorems of what a request passes and of the account it comes from, for  *)
(* any deliveries, keys, calls, tokens and secrets, and under every         *)
(* combination of faults.                                                   *)
(***************************************************************************)
EXTENDS Gate, Accounts, TLAPS

-----------------------------------------------------------------------------
(* Idempotency                                                              *)

(* No delivery has begun.                                                   *)
LEMMA InitInv == Init => IInv
BY DEF Init, IInv, TypeOK, HolderKeepsLock, StoredInv, ReplayIsFaithful, Running, Statuses

(* What is replayed stays as it was while the answer of at most one        *)
(* delivery, r, changes, from none to one that is not a replay.            *)
LEMMA ReplayFrame ==
  ASSUME TypeOK, TypeOK', ReplayIsFaithful, NEW r \in Reqs,
         \A p \in Reqs \ {r} : status'[p] = status[p],
         status'[r] = status[r] \/ (status[r] = "none" /\ status'[r] # "replayed"),
         UNCHANGED replayOf, effects \subseteq effects'
  PROVE  ReplayIsFaithful'
<1> SUFFICES ASSUME NEW p \in Reqs, status'[p] = "replayed"
             PROVE  LET o == replayOf'[p]
                    IN  /\ o \in Reqs \ {p} /\ Same(o, p) /\ BodyOf[o] = BodyOf[p]
                        /\ status'[o] \in {"2xx", "4xx"}
                        /\ status'[o] = "2xx" => o \in effects'
  BY DEF ReplayIsFaithful
<1>1. status[p] = "replayed"
  OBVIOUS
<1>2. /\ replayOf[p] \in Reqs \ {p} /\ Same(replayOf[p], p) /\ BodyOf[replayOf[p]] = BodyOf[p]
      /\ status[replayOf[p]] \in {"2xx", "4xx"}
      /\ status[replayOf[p]] = "2xx" => replayOf[p] \in effects
  BY <1>1 DEF ReplayIsFaithful
<1>3. status'[replayOf[p]] = status[replayOf[p]]
  BY <1>2
<1> QED
  BY <1>2, <1>3

(* Likewise for what is stored, when no response is added.                 *)
LEMMA StoredFrame ==
  ASSUME TypeOK, TypeOK', StoredInv, NEW r \in Reqs,
         \A p \in Reqs \ {r} : status'[p] = status[p] /\ pc'[p] = pc[p],
         status'[r] = status[r] \/ status[r] = "none",
         pc'[r] = "store" => Kept(r)',
         pc'[r] \in {"idle", "acquire", "handle"} => status'[r] = "none",
         effects \subseteq effects',
         \A k \in Resources : response'[k] \in {response[k], NoResponse}
  PROVE  StoredInv'
<1>1. \A p \in Reqs : Kept(p) => Kept(p)'
  BY DEF Kept
<1> QED
  BY <1>1 DEF StoredInv

(* A replay of an entry that is stored: it returns what a handler that      *)
(* ended with a response answered.                                          *)
LEMMA HitStep ==
  ASSUME IInv, NEW r \in Reqs, Hit(r)
  PROVE  IInv'
<1> USE IdempotencyAssumption DEF IdempotencyAssumption
<1> DEFINE q == response[ResOf[r]]
<1>1. TypeOK /\ StoredInv /\ pc[r] = "idle" /\ status[r] = "none" /\ ResOf[r] \in Resources
  BY DEF IInv, StoredInv, Hit
<1>2. q \in Reqs /\ ResOf[q] = ResOf[r] /\ Kept(q) /\ q # r
  BY <1>1 DEF StoredInv, Hit, Kept
<1>3. UNCHANGED <<response, lock, effects, lapsed>> /\ pc' = [pc EXCEPT ![r] = "done"]
  BY DEF Hit, redis, Answer
<1>4. \/ /\ status' = [status EXCEPT ![r] = "replayed"]
         /\ replayOf' = [replayOf EXCEPT ![r] = q] /\ BodyOf[q] = BodyOf[r]
      \/ status' = [status EXCEPT ![r] = "reused"] /\ replayOf' = replayOf
  BY DEF Hit, Answer
<1>5. TypeOK'
  BY <1>1, <1>2, <1>3, <1>4 DEF TypeOK, Statuses
<1>6. HolderKeepsLock'
  BY <1>1, <1>3 DEF IInv, HolderKeepsLock, Running, TypeOK
<1>7. StoredInv'
  BY <1>1, <1>3, <1>4, <1>5, StoredFrame DEF TypeOK
<1>8. ReplayIsFaithful'
  <2> SUFFICES ASSUME NEW p \in Reqs, status'[p] = "replayed"
               PROVE  LET o == replayOf'[p]
                      IN  /\ o \in Reqs \ {p} /\ Same(o, p) /\ BodyOf[o] = BodyOf[p]
                          /\ status'[o] \in {"2xx", "4xx"}
                          /\ status'[o] = "2xx" => o \in effects'
    BY DEF ReplayIsFaithful
  <2>1. CASE p = r
    <3>1. replayOf'[p] = q /\ BodyOf[q] = BodyOf[r]
      BY <1>1, <1>4, <2>1 DEF TypeOK
    <3>2. status'[q] = status[q]
      BY <1>1, <1>2, <1>4 DEF TypeOK
    <3> QED
      BY <1>2, <1>3, <2>1, <3>1, <3>2 DEF Same, Kept
  <2>2. CASE p # r
    <3>1. status[p] = "replayed" /\ replayOf'[p] = replayOf[p]
      BY <1>1, <1>4, <2>2 DEF TypeOK
    <3>2. /\ replayOf[p] \in Reqs \ {p} /\ Same(replayOf[p], p)
          /\ BodyOf[replayOf[p]] = BodyOf[p]
          /\ status[replayOf[p]] \in {"2xx", "4xx"}
          /\ status[replayOf[p]] = "2xx" => replayOf[p] \in effects
      BY <3>1 DEF IInv, ReplayIsFaithful
    <3>3. status'[replayOf[p]] = status[replayOf[p]]
      BY <1>1, <1>4, <3>2 DEF TypeOK
    <3> QED
      BY <1>3, <3>1, <3>2, <3>3
  <2> QED
    BY <2>1, <2>2
<1> QED
  BY <1>5, <1>6, <1>7, <1>8 DEF IInv

(* The handler's outcome, whichever it is.                                 *)
LEMMA HandleFacts ==
  ASSUME TypeOK, NEW r \in Reqs, Handle(r)
  PROVE  /\ pc[r] = "handle" /\ UNCHANGED <<response, lock, replayOf, lapsed>>
         /\ effects' \in {effects, effects \cup {r}}
         /\ \E s \in {"2xx", "4xx", "5xx"} :
              /\ status' = [status EXCEPT ![r] = s]
              /\ s = "2xx" => r \in effects'
              /\ pc' = [pc EXCEPT ![r] = "unlock"]
                 \/ (pc' = [pc EXCEPT ![r] = "store"] /\ s # "5xx")
<1>1. PICK o \in Outcomes :
        /\ effects' = IF o.effect THEN effects \cup {r} ELSE effects
        /\ status' = [status EXCEPT ![r] = o.answer]
        /\ pc' = [pc EXCEPT ![r] = IF o.stored THEN "store" ELSE "unlock"]
  BY DEF Handle
<1>2. /\ o.answer \in {"2xx", "4xx", "5xx"}
      /\ o.answer = "2xx" => o.effect
      /\ o.answer = "5xx" => ~o.stored
  BY DEF Outcomes
<1> QED
  BY <1>1, <1>2 DEF Handle, redis

(* The handler ends, with a response or without one.                        *)
LEMMA ServeStep ==
  ASSUME IInv, NEW r \in Reqs,
         \/ Miss(r) \/ Acquire(r) \/ RedisDown(r) \/ Handle(r) \/ StoreFails(r)
         \/ Unlock(r) \/ UnlockFails(r) \/ Crash(r)
  PROVE  IInv'
<1> USE IdempotencyAssumption DEF IdempotencyAssumption
<1>1. TypeOK /\ StoredInv /\ HolderKeepsLock /\ ReplayIsFaithful /\ ResOf[r] \in Resources
  BY DEF IInv
<1>2. UNCHANGED <<response, replayOf, lapsed>> /\ effects' \in {effects, effects \cup {r}}
  BY HandleFacts DEF Miss, Acquire, RedisDown, StoreFails, Unlock, UnlockFails, Crash, redis, IInv
<1>3. TypeOK'
  <2>1. CASE Miss(r) \/ Acquire(r) \/ RedisDown(r)
    BY <1>1, <1>2, <2>1 DEF TypeOK, Statuses, Miss, Acquire, RedisDown, Answer, Goto, redis
  <2>2. CASE Handle(r)
    BY <1>1, <1>2, <2>2, HandleFacts DEF TypeOK, Statuses
  <2>3. CASE StoreFails(r) \/ Unlock(r) \/ UnlockFails(r) \/ Crash(r)
    BY <1>1, <1>2, <2>3 DEF TypeOK, StoreFails, Unlock, UnlockFails, Crash, Goto, redis
  <2> QED
    BY <2>1, <2>2, <2>3
<1>4. HolderKeepsLock'
  <2>1. CASE Miss(r) \/ RedisDown(r) \/ Handle(r) \/ StoreFails(r) \/ UnlockFails(r) \/ Crash(r)
    BY <1>1, <1>2, <2>1
       DEF HolderKeepsLock, Running, Miss, RedisDown, Handle, StoreFails, UnlockFails, Crash,
           Goto, Answer, redis, TypeOK
  <2>2. CASE Acquire(r)
    BY <1>1, <1>2, <2>2 DEF HolderKeepsLock, Running, Acquire, Goto, Answer, TypeOK
  <2>3. CASE Unlock(r)
    BY <1>1, <1>2, <2>3 DEF HolderKeepsLock, Running, Unlock, Goto, TypeOK
  <2> QED
    BY <2>1, <2>2, <2>3
<1>5. \A p \in Reqs \ {r} : status'[p] = status[p] /\ pc'[p] = pc[p]
  BY <1>1, HandleFacts DEF TypeOK, Miss, Acquire, RedisDown, StoreFails, Unlock, UnlockFails, Crash,
              Goto, Answer
<1>6. status'[r] = status[r] \/ (status[r] = "none" /\ status'[r] # "replayed")
  <2>1. CASE Handle(r)
    BY <1>1, <2>1, HandleFacts DEF TypeOK, StoredInv
  <2>2. CASE ~Handle(r)
    BY <1>1, <2>2 DEF TypeOK, StoredInv, Miss, Acquire, RedisDown, StoreFails, Unlock,
                      UnlockFails, Crash, Goto, Answer
  <2> QED
    BY <2>1, <2>2
<1>7. (pc'[r] = "store" => Kept(r)')
      /\ (pc'[r] \in {"idle", "acquire", "handle"} => status'[r] = "none")
  <2>1. CASE Handle(r)
    <3>1. PICK s \in {"2xx", "4xx", "5xx"} :
            /\ status' = [status EXCEPT ![r] = s]
            /\ s = "2xx" => r \in effects'
            /\ pc' = [pc EXCEPT ![r] = "unlock"]
               \/ (pc' = [pc EXCEPT ![r] = "store"] /\ s # "5xx")
      BY <1>1, <2>1, HandleFacts
    <3>2. status'[r] = s /\ (pc'[r] = "unlock" \/ (pc'[r] = "store" /\ s # "5xx"))
      BY <1>1, <3>1 DEF TypeOK
    <3> QED
      BY <3>1, <3>2 DEF Kept
  <2>2. CASE ~Handle(r)
    BY <1>1, <2>2 DEF TypeOK, StoredInv, Miss, Acquire, RedisDown, StoreFails, Unlock,
                      UnlockFails, Crash, Goto, Answer
  <2> QED
    BY <2>1, <2>2
<1>8. StoredInv'
  BY <1>1, <1>2, <1>3, <1>5, <1>6, <1>7, StoredFrame
<1>9. ReplayIsFaithful'
  BY <1>1, <1>2, <1>3, <1>5, <1>6, ReplayFrame
<1> QED
  BY <1>3, <1>4, <1>8, <1>9 DEF IInv

(* The entry written is the response of a handler that ended.               *)
LEMMA StoreStep ==
  ASSUME IInv, NEW r \in Reqs, Store(r)
  PROVE  IInv'
<1> USE IdempotencyAssumption DEF IdempotencyAssumption
<1>1. TypeOK /\ StoredInv /\ HolderKeepsLock /\ ReplayIsFaithful /\ ResOf[r] \in Resources
  BY DEF IInv
<1>2. Kept(r) /\ UNCHANGED <<status, lock, replayOf, effects, lapsed>>
      /\ pc' = [pc EXCEPT ![r] = "unlock"] /\ response' = [response EXCEPT ![ResOf[r]] = r]
  BY <1>1 DEF StoredInv, Store, Goto
<1>3. TypeOK'
  BY <1>1, <1>2 DEF TypeOK
<1>4. HolderKeepsLock'
  BY <1>1, <1>2 DEF HolderKeepsLock, Running, TypeOK, Store
<1>5. StoredInv'
  BY <1>1, <1>2 DEF StoredInv, Kept, TypeOK
<1>6. ReplayIsFaithful'
  BY <1>1, <1>2, <1>3, ReplayFrame
<1> QED
  BY <1>3, <1>4, <1>5, <1>6 DEF IInv

(* Entries and locks that expire only go.                                   *)
LEMMA ExpiryStep ==
  ASSUME IInv, NEW k \in Resources, LockExpires(k) \/ ResponseLost(k)
  PROVE  IInv'
<1> USE IdempotencyAssumption DEF IdempotencyAssumption
<1>1. TypeOK /\ StoredInv /\ HolderKeepsLock /\ ReplayIsFaithful
  BY DEF IInv
<1>2. UNCHANGED <<pc, status, replayOf, effects>>
  BY DEF LockExpires, ResponseLost
<1>3. TypeOK'
  BY <1>1, <1>2 DEF TypeOK, LockExpires, ResponseLost
<1>4. HolderKeepsLock'
  BY <1>1, <1>2 DEF HolderKeepsLock, Running, TypeOK, LockExpires, ResponseLost
<1>5. StoredInv'
  BY <1>1, <1>2 DEF StoredInv, Kept, TypeOK, LockExpires, ResponseLost
<1>6. ReplayIsFaithful'
  BY <1>1, <1>2 DEF ReplayIsFaithful
<1> QED
  BY <1>3, <1>4, <1>5, <1>6 DEF IInv

(* Every step of the middleware keeps the invariant.                        *)
LEMMA NextInv == IInv /\ [Next]_vars => IInv'
<1> SUFFICES ASSUME IInv, [Next]_vars PROVE IInv'
  OBVIOUS
<1>1. CASE UNCHANGED vars
  BY <1>1 DEF vars, redis, IInv, TypeOK, HolderKeepsLock, Running, StoredInv, Kept,
              ReplayIsFaithful
<1> QED
  BY <1>1, HitStep, ServeStep, StoreStep, ExpiryStep DEF Next, Serve, Finished

(* It holds in every behaviour, under any faults.                           *)
LEMMA Inductive == Spec => []IInv
BY InitInv, NextInv, PTL DEF Spec

(* The compare-and-delete script never takes the lock of another delivery, *)
(* in whatever order locks lapse and handlers end.                         *)
THEOREM LockIsOwned == Spec => []HolderKeepsLock
<1>1. IInv => HolderKeepsLock
  BY DEF IInv
<1> QED
  BY <1>1, Inductive, PTL

(* Two handlers of one key run at once only after a lock reached its TTL.  *)
THEOREM HandlersExclude == Spec => []OneHandlerAtATime
<1>1. IInv => OneHandlerAtATime
  BY DEF IInv, HolderKeepsLock, OneHandlerAtATime, Same
<1> QED
  BY <1>1, Inductive, PTL

(* A replay never shows the answer of another body or of a failed run.     *)
THEOREM ReplaysAreFaithful == Spec => []ReplayIsFaithful
<1>1. IInv => ReplayIsFaithful
  BY DEF IInv
<1> QED
  BY <1>1, Inductive, PTL

-----------------------------------------------------------------------------
(* Idempotency, one delivery of a key at a time                             *)

(* With no faults a resource has one delivery under way, whose handler     *)
(* runs while no response is stored; an effect is stored as soon as it is  *)
(* answered and keeps every later delivery out.                            *)
SerialTypes ==
  /\ pc \in [Reqs -> {"idle", "acquire", "handle", "store", "unlock", "done", "dead"}]
  /\ response \in [Resources -> Reqs \cup {NoResponse}] /\ effects \subseteq Reqs
OneUnderWay == \A r, q \in Reqs : Same(r, q) /\ UnderWay(r) /\ UnderWay(q) => r = q
RunsUnanswered == \A r \in Reqs : pc[r] \in {"acquire", "handle"} => response[ResOf[r]] = NoResponse
EffectsAreKept == \A r \in effects : pc[r] = "store" \/ response[ResOf[r]] # NoResponse
OneEffect == \A r, q \in effects : Same(r, q) => r = q

SerialInv == SerialTypes /\ OneUnderWay /\ RunsUnanswered /\ EffectsAreKept /\ OneEffect

SerialActions(r) ==
  \/ Serial!Hit(r) \/ Serial!Miss(r) \/ Serial!Serve(r) \/ Serial!RedisDown(r)
  \/ Serial!StoreFails(r) \/ Serial!UnlockFails(r) \/ Serial!Crash(r)

(* One delivery of a key under way, one call to Redis or to the handler.    *)
LEMMA SerialDeliveryStep ==
  ASSUME SerialInv, NEW r \in Reqs, SerialActions(r)
  PROVE  SerialInv'
<1> USE IdempotencyAssumption DEF IdempotencyAssumption
<1>1. SerialTypes /\ OneUnderWay /\ RunsUnanswered /\ EffectsAreKept /\ OneEffect /\ ResOf[r] \in Resources
  BY DEF SerialInv
<1>2. ~Serial!RedisDown(r) /\ ~Serial!StoreFails(r) /\ ~Serial!UnlockFails(r) /\ ~Serial!Crash(r)
  BY DEF Serial!RedisDown, Serial!StoreFails, Serial!UnlockFails, Serial!Crash
<1>3. CASE Serial!Hit(r)
  <2>1. /\ pc[r] = "idle" /\ pc' = [pc EXCEPT ![r] = "done"] /\ response' = response /\ effects' = effects
    BY <1>3 DEF Serial!Hit, Serial!Answer, Serial!redis, redis
  <2> QED
    BY <1>1, <2>1 DEF SerialInv, SerialTypes, OneUnderWay, RunsUnanswered, EffectsAreKept, OneEffect, UnderWay, Same
<1>4. CASE Serial!Miss(r)
  <2>1. /\ pc[r] = "idle" /\ pc' = [pc EXCEPT ![r] = "acquire"] /\ response' = response /\ effects' = effects
        /\ response[ResOf[r]] = NoResponse /\ \A q \in Reqs \ {r} : Same(r, q) => ~UnderWay(q)
    BY <1>4 DEF Serial!Miss, Serial!Goto, Serial!redis, redis, Serial!MaySend, Serial!Same, Serial!UnderWay, Same, UnderWay
  <2> QED
    BY <1>1, <2>1 DEF SerialInv, SerialTypes, OneUnderWay, RunsUnanswered, EffectsAreKept, OneEffect, UnderWay, Same
<1>5. CASE Serial!Acquire(r)
  <2>1. /\ pc[r] = "acquire" /\ response' = response /\ effects' = effects
        /\ (pc' = [pc EXCEPT ![r] = "handle"] \/ pc' = [pc EXCEPT ![r] = "done"])
    BY <1>5 DEF Serial!Acquire, Serial!Goto, Serial!Answer
  <2> QED
    BY <1>1, <2>1 DEF SerialInv, SerialTypes, OneUnderWay, RunsUnanswered, EffectsAreKept, OneEffect, UnderWay, Same
<1>6. CASE Serial!Handle(r)
  <2>1. PICK o \in Serial!Outcomes :
          /\ effects' = IF o.effect THEN effects \cup {r} ELSE effects
          /\ pc' = [pc EXCEPT ![r] = IF o.stored THEN "store" ELSE "unlock"]
    BY <1>6 DEF Serial!Handle
  <2>2. o.effect => o.stored
    BY DEF Serial!Outcomes
  <2>3. pc[r] = "handle" /\ response' = response /\ response[ResOf[r]] = NoResponse
    BY <1>1, <1>6 DEF Serial!Handle, Serial!redis, RunsUnanswered
  <2>4. \/ effects' = effects /\ (pc' = [pc EXCEPT ![r] = "store"] \/ pc' = [pc EXCEPT ![r] = "unlock"])
        \/ effects' = effects \cup {r} /\ pc' = [pc EXCEPT ![r] = "store"]
    BY <2>1, <2>2
  <2>5. \A q \in effects : ~Same(r, q)
    BY <1>1, <2>3 DEF SerialTypes, OneUnderWay, EffectsAreKept, UnderWay, Same
  <2>6. SerialTypes' /\ OneUnderWay' /\ RunsUnanswered'
    BY <1>1, <2>3, <2>4 DEF SerialTypes, OneUnderWay, RunsUnanswered, UnderWay, Same
  <2>7. EffectsAreKept' /\ OneEffect'
    BY <1>1, <2>3, <2>4, <2>5 DEF SerialTypes, EffectsAreKept, OneEffect, UnderWay, Same
  <2> QED
    BY <2>6, <2>7 DEF SerialInv
<1>7. CASE Serial!Store(r)
  <2>1. /\ pc[r] = "store" /\ pc' = [pc EXCEPT ![r] = "unlock"] /\ effects' = effects
        /\ response' = [response EXCEPT ![ResOf[r]] = r]
    BY <1>7 DEF Serial!Store, Serial!Goto
  <2>2. SerialTypes' /\ OneUnderWay' /\ OneEffect'
    BY <1>1, <2>1 DEF SerialTypes, OneUnderWay, OneEffect, UnderWay, Same
  <2>3. RunsUnanswered'
    <3> SUFFICES ASSUME NEW q \in Reqs, pc'[q] \in {"acquire", "handle"}
                 PROVE  response'[ResOf[q]] = NoResponse
      BY DEF RunsUnanswered
    <3>1. q # r /\ pc[q] \in {"acquire", "handle"}
      BY <1>1, <2>1 DEF SerialTypes
    <3>2. ResOf[q] # ResOf[r] /\ ResOf[q] \in Resources
      BY <1>1, <2>1, <3>1 DEF OneUnderWay, Same, UnderWay
    <3> QED
      BY <1>1, <2>1, <3>1, <3>2 DEF SerialTypes, RunsUnanswered
  <2>4. EffectsAreKept'
    BY <1>1, <2>1 DEF SerialTypes, EffectsAreKept
  <2> QED
    BY <2>2, <2>3, <2>4 DEF SerialInv
<1>8. CASE Serial!Unlock(r)
  <2>1. pc[r] = "unlock" /\ pc' = [pc EXCEPT ![r] = "done"] /\ response' = response /\ effects' = effects
    BY <1>8 DEF Serial!Unlock, Serial!Goto
  <2> QED
    BY <1>1, <2>1 DEF SerialInv, SerialTypes, OneUnderWay, RunsUnanswered, EffectsAreKept, OneEffect, UnderWay, Same
<1> QED
  BY <1>2, <1>3, <1>4, <1>5, <1>6, <1>7, <1>8 DEF SerialActions, Serial!Serve

(* Every step without faults keeps it.                                      *)
LEMMA SerialStep == SerialInv /\ [Serial!Next]_vars => SerialInv'
<1> SUFFICES ASSUME SerialInv, [Serial!Next]_vars PROVE SerialInv'
  OBVIOUS
<1>1. CASE UNCHANGED <<pc, response, effects>>
  BY <1>1 DEF SerialInv, SerialTypes, OneUnderWay, RunsUnanswered, EffectsAreKept, OneEffect, UnderWay, Same
<1>2. CASE \E r \in Reqs : SerialActions(r)
  BY <1>2, SerialDeliveryStep
<1>3. CASE \E k \in Resources : Serial!LockExpires(k) \/ Serial!ResponseLost(k)
  BY <1>1, <1>3 DEF Serial!LockExpires, Serial!ResponseLost
<1>4. CASE Serial!Finished \/ UNCHANGED vars
  BY <1>1, <1>4 DEF Serial!Finished, Serial!vars, Serial!redis, vars, redis
<1> QED
  BY <1>2, <1>3, <1>4 DEF Serial!Next, SerialActions

(* Nothing is delivered.                                                    *)
LEMMA SerialInitially == Init => SerialInv
BY DEF Init, SerialInv, SerialTypes, OneUnderWay, RunsUnanswered, EffectsAreKept, OneEffect, UnderWay

-----------------------------------------------------------------------------
(* Sessions                                                                 *)

EntryPoints == {"idle", "insert", "device", "find", "devices", "sessions", "open", "load", "grant"} \cup Ends
Op(c) == Entry[c].op
With(c) == Entry[c].with

SessionsTypeOK ==
  /\ known \subseteq Names /\ rows \in Seq([user: Names, from: Places, by: Entries])
  /\ aged \in Nat /\ point \in [Entries -> EntryPoints] /\ risk \in [Entries -> {0, 30}]
  /\ before \in [Entries -> Nat] /\ \A c \in Entries : before[c] <= Len(rows)
  /\ renewable \subseteq Entries

(* Which calls come to which point, and whose account is there by then.    *)
PointsAreSound ==
  \A c \in Entries :
    /\ point[c] \in {"insert", "device"} => Op(c) = "register"
    /\ point[c] \in {"find", "devices", "sessions", "open"} => Op(c) = "login"
    /\ point[c] = "load" => Op(c) \in {"me", "refresh"}
    /\ point[c] \in {"device", "devices", "sessions", "open", "load", "grant", "done"} => Name(c) \in known
    /\ point[c] \in {"grant", "done"} /\ Op(c) = "login" => \E i \in 1..Len(rows) : rows[i].by = c
    /\ point[c] # "risky"

(* A refresh token is of a call that has ended, and goes with the exchange.*)
Exchanging(c) == Op(c) = "refresh" /\ point[c] \in {"load", "grant", "done"}
TokensAreSound ==
  /\ \A t \in tokens : t.by \in Entries /\ Name(t.by) \in known
  /\ \A c \in renewable : point[c] = "done"
  /\ \A c \in Entries : Exchanging(c) => point[With(c)] = "done" /\ With(c) \notin renewable
  /\ \A c, d \in Entries : Exchanging(c) /\ Exchanging(d) /\ With(c) = With(d) => c = d

(* The session i is the last before j of the caller c, who comes from      *)
(* elsewhere within the hour and could see it.                             *)
Travels(c, i, j) ==
  /\ rows[i].user = Name(c) /\ Address[rows[i].from] # Address[From(c)] /\ aged < i /\ i <= before[c] /\ c \notin blind
  /\ \A k \in 1..Len(rows) : i < k /\ k < j => rows[k].user # Name(c)
Noted(c) == <<"IMPOSSIBLE_TRAVEL", c>> \in alerts

RowsAreSound ==
  /\ \A j \in 1..Len(rows) :
       LET c == rows[j].by
       IN  /\ point[c] \in {"grant", "done", "refused"} /\ rows[j].user = Name(c) /\ rows[j].from = From(c)
           /\ before[c] < j
           /\ \A i \in 1..Len(rows) : i < j /\ Travels(c, i, j) => Noted(c)
  /\ \A c \in Entries : point[c] = "open" =>
       \A i \in 1..Len(rows) : Travels(c, i, Len(rows) + 1) => Noted(c)

SessionsInv == SessionsTypeOK /\ PointsAreSound /\ TokensAreSound /\ RowsAreSound

(* An element of a sequence over S is in S.                                 *)
LEMMA SeqElements ==
  ASSUME NEW S, NEW s \in Seq(S)
  PROVE  Len(s) \in Nat /\ \A j \in 1..Len(s) : s[j] \in S
OBVIOUS

(* What a call is, of whom and from where.                                  *)
LEMMA EntryTypes ==
  ASSUME NEW c \in Entries
  PROVE  /\ Op(c) \in EntryOps /\ Name(c) \in Names /\ From(c) \in Places /\ With(c) \in Entries
         /\ Op(c) \in {"me", "refresh"} => Name(c) = Name(With(c))
         /\ EntryOps = {"register", "login", "me", "refresh"}
BY SessionsAssumption DEF SessionsAssumption, Op, Name, From, With, EntryOps

(* Nobody is known and nothing under way.                                   *)
LEMMA SessionsInitially == SessionsInit => SessionsInv
<1> SUFFICES ASSUME SessionsInit PROVE SessionsInv
  OBVIOUS
<1> USE SessionsAssumption DEF SessionsAssumption, SessionsInit
<1>1. SessionsTypeOK
  <2>1. rows = <<>> /\ Len(rows) = 0 /\ rows \in Seq([user: Names, from: Places, by: Entries])
    OBVIOUS
  <2> QED
    BY <2>1 DEF SessionsTypeOK, EntryPoints
<1>2. PointsAreSound
  BY DEF PointsAreSound
<1>3. TokensAreSound
  BY DEF TokensAreSound, Exchanging
<1>4. RowsAreSound
  BY DEF RowsAreSound
<1> QED
  BY <1>1, <1>2, <1>3, <1>4 DEF SessionsInv

(* Only the call that steps goes anywhere.                                  *)
LEMMA PointMoves ==
  ASSUME SessionsTypeOK, NEW c \in Entries, NEW l \in EntryPoints, Steps(c, l)
  PROVE  /\ point' \in [Entries -> EntryPoints] /\ point'[c] = l
         /\ \A d \in Entries \ {c} : point'[d] = point[d]
BY DEF SessionsTypeOK, Steps

(* Points a call with a row stands at; points of an exchange under way.     *)
Opened == {"grant", "done", "refused"}
Borne == {"load", "grant", "done"}

(* What is noted stays so, while no row is written.                        *)
LEMMA RowsFrame ==
  ASSUME SessionsInv, rows' = rows, aged' \in Nat, aged <= aged',
         blind \subseteq blind', alerts \subseteq alerts',
         \A d \in Entries : point[d] # "idle" => before'[d] = before[d],
         \A d \in Entries : point[d] \in Opened => point'[d] \in Opened,
         \A d \in Entries : point'[d] = "open" =>
           point[d] = "open" \/ \A i \in 1..Len(rows) : Travels(d, i, Len(rows) + 1)' => Noted(d)'
  PROVE  RowsAreSound'
<1>1. /\ Len(rows) \in Nat /\ Len(rows) + 1 \in Nat /\ aged \in Nat
      /\ before \in [Entries -> Nat]
      /\ \A j \in 1..Len(rows) : rows[j] \in [user: Names, from: Places, by: Entries]
  <2> DEFINE R == [user: Names, from: Places, by: Entries]
  <2>1. rows \in Seq(R) /\ aged \in Nat /\ before \in [Entries -> Nat]
    BY DEF SessionsInv, SessionsTypeOK
  <2> HIDE DEF R
  <2>2. Len(rows) \in Nat /\ \A j \in 1..Len(rows) : rows[j] \in R
    BY <2>1, SeqElements
  <2> QED
    BY <2>1, <2>2 DEF R
<1>2. \A j \in 1..Len(rows) : rows[j].by \in Entries
  BY <1>1
<1>3. ASSUME NEW d \in Entries, point[d] # "idle", NEW i \in 1..Len(rows), NEW j \in Nat, Travels(d, i, j)'
      PROVE  Travels(d, i, j)
  BY <1>1, <1>3 DEF Travels
<1>4. \A d \in Entries : Noted(d) => Noted(d)'
  BY DEF Noted
<1>5. ASSUME NEW j \in 1..Len(rows), NEW c \in Entries, c = rows[j].by
      PROVE  /\ point'[c] \in Opened /\ rows[j].user = Name(c) /\ rows[j].from = From(c)
             /\ before'[c] < j
             /\ \A i \in 1..Len(rows) : i < j /\ Travels(c, i, j)' => Noted(c)'
  <2>1. /\ point[c] \in Opened /\ rows[j].user = Name(c) /\ rows[j].from = From(c) /\ before[c] < j
        /\ \A i \in 1..Len(rows) : i < j /\ Travels(c, i, j) => Noted(c)
    BY <1>5 DEF SessionsInv, RowsAreSound, Opened
  <2>2. point[c] # "idle" /\ point'[c] \in Opened /\ before'[c] < j
    BY <2>1 DEF Opened
  <2>3. ASSUME NEW i \in 1..Len(rows), i < j, Travels(c, i, j)'
        PROVE  Noted(c)'
    <3>1. j \in Nat
      BY <1>1
    <3> QED
      BY <1>3, <1>4, <2>1, <2>2, <2>3, <3>1
  <2> QED
    BY <2>1, <2>2, <2>3
<1>6. ASSUME NEW d \in Entries, point'[d] = "open", NEW i \in 1..Len(rows), Travels(d, i, Len(rows) + 1)'
      PROVE  Noted(d)'
  <2>1. CASE point[d] = "open"
    <3>1. Travels(d, i, Len(rows) + 1)
      BY <1>1, <1>3, <1>6, <2>1
    <3> QED
      BY <1>4, <2>1, <3>1 DEF SessionsInv, RowsAreSound
  <2>2. CASE point[d] # "open"
    BY <1>6, <2>2
  <2> QED
    BY <2>1, <2>2
<1> QED
  BY <1>2, <1>5, <1>6 DEF RowsAreSound, Opened

(* Tokens stay sound while no refresh token comes or goes.                 *)
LEMMA TokensFrame ==
  ASSUME SessionsInv, renewable' = renewable, known \subseteq known',
         \A t \in tokens' : t \in tokens \/ (t.by \in Entries /\ Name(t.by) \in known),
         \A d \in Entries : point[d] = "done" => point'[d] = "done",
         \A d \in Entries : Exchanging(d)' => Exchanging(d)
  PROVE  TokensAreSound'
<1>1. /\ \A t \in tokens : t.by \in Entries /\ Name(t.by) \in known
      /\ \A c \in renewable : c \in Entries /\ point[c] = "done"
      /\ \A c \in Entries : Exchanging(c) => point[With(c)] = "done" /\ With(c) \notin renewable
      /\ \A c, d \in Entries : Exchanging(c) /\ Exchanging(d) /\ With(c) = With(d) => c = d
  BY DEF SessionsInv, TokensAreSound, SessionsTypeOK
<1>2. \A t \in tokens' : t.by \in Entries /\ Name(t.by) \in known'
  BY <1>1
<1>3. \A c \in renewable' : point'[c] = "done"
  BY <1>1
<1>4. \A c \in Entries : Exchanging(c)' => point'[With(c)] = "done" /\ With(c) \notin renewable'
  BY <1>1, EntryTypes
<1>5. \A c, d \in Entries : Exchanging(c)' /\ Exchanging(d)' /\ With(c) = With(d) => c = d
  BY <1>1
<1> QED
  BY <1>2, <1>3, <1>4, <1>5 DEF TokensAreSound

(* Where a call comes to, it may be, while accounts and rows stay.         *)
MayCome(c, l) ==
  /\ l \in {"insert", "device"} => Op(c) = "register"
  /\ l \in {"find", "devices", "sessions", "open"} => Op(c) = "login"
  /\ l = "load" => Op(c) \in {"me", "refresh"}
  /\ l \in {"device", "devices", "sessions", "open", "load", "grant", "done"} => Name(c) \in known'
  /\ l \in {"grant", "done"} /\ Op(c) = "login" => \E i \in 1..Len(rows') : rows'[i].by = c
  /\ l # "risky"

(* A step that takes no row and no name away, and lets a call come only     *)
(* where it may.                                                            *)
LEMMA PointsFrame ==
  ASSUME SessionsInv, known \subseteq known',
         \A d \in Entries : (\E i \in 1..Len(rows) : rows[i].by = d) => \E i \in 1..Len(rows') : rows'[i].by = d,
         \A d \in Entries : point'[d] = point[d] \/ MayCome(d, point'[d])
  PROVE  PointsAreSound'
<1> SUFFICES ASSUME NEW d \in Entries PROVE MayCome(d, point'[d])
  BY DEF PointsAreSound, MayCome
<1>1. CASE point'[d] = point[d]
  BY <1>1 DEF SessionsInv, PointsAreSound, MayCome
<1> QED
  BY <1>1

(* A call moves on, neither writes a row nor touches a refresh token, and  *)
(* comes to no session it has not read.                                    *)
Passes(c, l) ==
  /\ Steps(c, l) /\ l \in EntryPoints /\ l # "open" /\ (point[c] \in Opened => point[c] = "grant" /\ l = "refused")
  /\ MayCome(c, l) /\ rows' = rows /\ aged' = aged /\ renewable' = renewable
  /\ tokens' = tokens /\ known \subseteq known' /\ known' \subseteq Names /\ blind' = blind
  /\ alerts \subseteq alerts' /\ risk' \in [Entries -> {0, 30}]
  /\ Op(c) = "refresh" => l = "refused" \/ (point[c] = "load" /\ l \in Borne)
  /\ \A d \in Entries : point[d] # "idle" => before'[d] = before[d]
  /\ before' \in [Entries -> Nat] /\ \A d \in Entries : before'[d] <= Len(rows)

(* A call that passes on so keeps the invariant.                            *)
LEMMA PassesStep ==
  ASSUME SessionsInv, NEW c \in Entries, NEW l, Passes(c, l)
  PROVE  SessionsInv'
<1>1. SessionsTypeOK /\ l \in EntryPoints
  BY DEF SessionsInv, Passes
<1>2. point' \in [Entries -> EntryPoints] /\ point'[c] = l /\ \A d \in Entries \ {c} : point'[d] = point[d]
  BY <1>1, PointMoves DEF Passes
<1>3. SessionsTypeOK'
  BY <1>1, <1>2 DEF SessionsTypeOK, Passes
<1>4. PointsAreSound'
  BY <1>2, PointsFrame DEF Passes
<1>5. TokensAreSound'
  <2>1. \A d \in Entries : point[d] = "done" => point'[d] = "done"
    BY <1>2 DEF Passes, Opened
  <2>2. \A d \in Entries : Exchanging(d)' => Exchanging(d)
    BY <1>2 DEF Passes, Exchanging, Borne
  <2> QED
    BY <2>1, <2>2, TokensFrame DEF Passes
<1>6. RowsAreSound'
  <2>1. /\ rows' = rows /\ aged' \in Nat /\ aged <= aged' /\ blind \subseteq blind' /\ alerts \subseteq alerts'
    BY <1>1 DEF Passes, SessionsTypeOK
  <2>2. \A d \in Entries : point[d] \in Opened => point'[d] \in Opened
    BY <1>2 DEF Passes, Opened
  <2>3. \A d \in Entries : point'[d] = "open" => point[d] = "open"
    BY <1>2 DEF Passes
  <2>4. \A d \in Entries : point[d] # "idle" => before'[d] = before[d]
    BY DEF Passes
  <2> QED
    BY <2>1, <2>2, <2>3, <2>4, RowsFrame
<1> QED
  BY <1>3, <1>4, <1>5, <1>6 DEF SessionsInv

(* The statements that neither write a session nor touch a refresh token.   *)
LEMMA CommonStep ==
  ASSUME SessionsInv, NEW c \in Entries,
         \/ NoStore(c) \/ Register(c) \/ CreateUser(c) \/ RegisterDevice(c) \/ Login(c)
         \/ GetUserByIdentifier(c) \/ AssessDevice(c) \/ LoadRefreshed(c) \/ ShowMe(c) \/ ExportData(c)
  PROVE  SessionsInv'
<1>1. SessionsTypeOK /\ PointsAreSound /\ TokensAreSound
  BY DEF SessionsInv
<1>2. EntryPoints = {"idle", "insert", "device", "find", "devices", "sessions", "open", "load", "grant",
                     "refused", "risky", "done"}
  BY DEF EntryPoints, Ends
<1>3. /\ Op(c) \in EntryOps /\ Name(c) \in Names /\ From(c) \in Places /\ With(c) \in Entries
      /\ Op(c) \in {"me", "refresh"} => Name(c) = Name(With(c))
      /\ Entry[c].op = Op(c) /\ Entry[c].with = With(c) /\ Entry[c].name = Name(c)
  BY EntryTypes DEF Op, With, Name
<1>4. /\ point \in [Entries -> EntryPoints] /\ risk \in [Entries -> {0, 30}] /\ before \in [Entries -> Nat]
      /\ known \subseteq Names /\ Len(rows) \in Nat /\ \A d \in Entries : before[d] <= Len(rows)
  BY <1>1 DEF SessionsTypeOK
<1>5. MayCome(c, "refused")
  BY DEF MayCome
<1> SUFFICES \E l : Passes(c, l)
  BY PassesStep
<1>6. CASE NoStore(c)
  <2>1. Passes(c, "refused")
    BY <1>2, <1>3, <1>4, <1>5, <1>6 DEF NoStore, Passes, Opened
  <2> QED
    BY <2>1
<1>7. CASE Register(c)
  <2>1. MayCome(c, "insert") /\ point[c] = "idle"
    BY <1>3, <1>7 DEF Register, Enters, MayCome
  <2>2. Passes(c, "refused") \/ Passes(c, "insert")
    BY <1>2, <1>3, <1>4, <1>5, <1>7, <2>1 DEF Register, Enters, Passes, Opened
  <2> QED
    BY <2>2
<1>8. CASE CreateUser(c)
  <2>1. point[c] = "insert" /\ Op(c) = "register"
    BY <1>1, <1>8 DEF CreateUser, PointsAreSound
  <2>2. known \subseteq known' /\ known' \subseteq Names
    BY <1>3, <1>4, <1>8 DEF CreateUser, InsertUser
  <2>3. Steps(c, "refused") \/ (Steps(c, "device") /\ MayCome(c, "device"))
    BY <1>8, <2>1 DEF CreateUser, InsertUser, MayCome
  <2>4. Passes(c, "refused") \/ Passes(c, "device")
    BY <1>2, <1>3, <1>4, <1>5, <1>8, <2>1, <2>2, <2>3 DEF CreateUser, Passes, Opened
  <2> QED
    BY <2>4
<1>9. CASE RegisterDevice(c)
  <2>1. point[c] = "device" /\ Op(c) = "register" /\ MayCome(c, "grant")
    BY <1>1, <1>9 DEF RegisterDevice, PointsAreSound, MayCome
  <2>2. Passes(c, "grant")
    BY <1>2, <1>3, <1>4, <1>9, <2>1 DEF RegisterDevice, Passes, Opened
  <2> QED
    BY <2>2
<1>10. CASE Login(c)
  <2>1. point[c] = "idle" /\ Op(c) = "login" /\ MayCome(c, "find")
    BY <1>3, <1>10 DEF Login, Enters, MayCome
  <2>2. /\ before' \in [Entries -> Nat] /\ before'[c] = Len(rows)
        /\ \A d \in Entries \ {c} : before'[d] = before[d]
    BY <1>4, <1>10 DEF Login
  <2>3. Passes(c, "refused") \/ Passes(c, "find")
    BY <1>2, <1>3, <1>4, <1>5, <1>10, <2>1, <2>2 DEF Login, Passes, Opened
  <2> QED
    BY <2>3
<1>11. CASE GetUserByIdentifier(c)
  <2>1. point[c] = "find" /\ Op(c) = "login" /\ (Name(c) \in known => MayCome(c, "devices"))
    BY <1>1, <1>11 DEF GetUserByIdentifier, PointsAreSound, MayCome
  <2>2. Passes(c, "refused") \/ Passes(c, "devices")
    BY <1>2, <1>3, <1>4, <1>5, <1>11, <2>1 DEF GetUserByIdentifier, Passes, Opened
  <2> QED
    BY <2>2
<1>12. CASE AssessDevice(c)
  <2>1. point[c] = "devices" /\ Op(c) = "login" /\ MayCome(c, "sessions")
    BY <1>1, <1>12 DEF AssessDevice, PointsAreSound, MayCome
  <2>2. risk' \in [Entries -> {0, 30}] /\ alerts \subseteq alerts'
    BY <1>4, <1>12 DEF AssessDevice, RecordAudit
  <2>3. Passes(c, "sessions")
    BY <1>2, <1>3, <1>4, <1>12, <2>1, <2>2 DEF AssessDevice, Passes, Opened
  <2> QED
    BY <2>3
<1>13. CASE LoadRefreshed(c)
  <2>1. point[c] = "load" /\ Op(c) = "refresh" /\ MayCome(c, "grant")
    BY <1>1, <1>3, <1>13 DEF LoadRefreshed, PointsAreSound, MayCome
  <2>2. Passes(c, "grant")
    BY <1>2, <1>3, <1>4, <1>13, <2>1 DEF LoadRefreshed, Passes, Opened, Borne
  <2> QED
    BY <2>2
<1>14. CASE ShowMe(c)
  <2>1. point[c] = "idle" /\ Op(c) = "me"
    BY <1>3, <1>14 DEF ShowMe, Enters
  <2>2. AuthMiddleware(c) => Name(c) \in known
    BY <1>1, <1>3, <2>1 DEF AuthMiddleware, TokensAreSound
  <2>3. AuthMiddleware(c) => MayCome(c, "load")
    BY <1>14, <2>1, <2>2 DEF ShowMe, MayCome
  <2>4. Passes(c, "refused") \/ Passes(c, "load")
    BY <1>2, <1>3, <1>4, <1>5, <1>14, <2>1, <2>3 DEF ShowMe, Passes, Opened
  <2> QED
    BY <2>4
<1>15. CASE ExportData(c)
  <2>1. point[c] = "load" /\ Op(c) = "me" /\ MayCome(c, "done")
    BY <1>1, <1>3, <1>15 DEF ExportData, PointsAreSound, MayCome
  <2>2. Passes(c, "done")
    BY <1>2, <1>3, <1>4, <1>15, <2>1 DEF ExportData, Passes, Opened
  <2> QED
    BY <2>2
<1> QED
  BY <1>6, <1>7, <1>8, <1>9, <1>10, <1>11, <1>12, <1>13, <1>14, <1>15

(* No two signs exceed the bound, so the login goes on; and a travel it    *)
(* could read is noted.                                                    *)
LEMMA AssessRiskStep ==
  ASSUME SessionsInv, NEW c \in Entries, AssessRisk(c)
  PROVE  SessionsInv'
<1>1. SessionsTypeOK /\ PointsAreSound /\ TokensAreSound
  BY DEF SessionsInv
<1>2. /\ point \in [Entries -> EntryPoints] /\ risk \in [Entries -> {0, 30}] /\ before \in [Entries -> Nat]
      /\ known \subseteq Names /\ Len(rows) \in Nat /\ aged \in Nat
      /\ "open" \in EntryPoints /\ risk[c] \in {0, 30}
  BY <1>1 DEF SessionsTypeOK, EntryPoints
<1>3. point[c] = "sessions" /\ Op(c) = "login" /\ Name(c) \in known
  BY <1>1 DEF AssessRisk, PointsAreSound
<1>4. Steps(c, "open") /\ risk' = [risk EXCEPT ![c] = 0]
  BY <1>2 DEF AssessRisk, JudgeRisk, HighRisk
<1>5. point' \in [Entries -> EntryPoints] /\ point'[c] = "open" /\ \A d \in Entries \ {c} : point'[d] = point[d]
  BY <1>1, <1>2, <1>4, PointMoves
<1>6. /\ known' = known /\ rows' = rows /\ aged' = aged /\ tokens' = tokens /\ renewable' = renewable
      /\ before' = before /\ alerts \subseteq alerts' /\ blind \subseteq blind'
  BY DEF AssessRisk, RecordAudit
<1>7. SessionsTypeOK'
  BY <1>1, <1>2, <1>4, <1>5, <1>6 DEF SessionsTypeOK
<1>8. PointsAreSound'
  <2>1. MayCome(c, "open")
    BY <1>3, <1>6 DEF MayCome
  <2> QED
    BY <1>5, <1>6, <2>1, PointsFrame
<1>9. TokensAreSound'
  <2>1. \A d \in Entries : Exchanging(d)' => Exchanging(d)
    BY <1>3, <1>5 DEF Exchanging
  <2> QED
    BY <1>1, <1>3, <1>5, <1>6, <2>1, TokensFrame
<1>10. ASSUME NEW i \in 1..Len(rows), Travels(c, i, Len(rows) + 1)'
       PROVE  Noted(c)'
  <2>1. /\ rows[i].user = Name(c) /\ Address[rows[i].from] # Address[From(c)] /\ aged < i /\ i <= before[c] /\ c \notin blind'
        /\ \A k \in 1..Len(rows) : i < k => rows[k].user # Name(c)
    BY <1>2, <1>6, <1>10 DEF Travels
  <2> DEFINE mine == GetUserSessions(Name(c))
  <2>2. DOMAIN rows = 1..Len(rows)
    BY <1>1 DEF SessionsTypeOK
  <2>3. i \in mine /\ \A k \in mine : k \in 1..Len(rows) /\ k <= i
    BY <1>2, <2>1, <2>2 DEF GetUserSessions
  <2>4. LastSession(mine) = i
    <3>1. \A l \in mine : (\A k \in mine : k <= l) => l = i
      BY <1>2, <2>3
    <3> HIDE DEF mine
    <3> QED
      BY <2>3, <3>1 DEF LastSession
  <2>5. Travelled(c)
    BY <1>2, <2>1, <2>3, <2>4 DEF Travelled
  <2> QED
    BY <2>1, <2>5 DEF AssessRisk, RecordAudit, Noted
<1>11. RowsAreSound'
  <2>1. \A d \in Entries : point[d] \in Opened => point'[d] \in Opened
    BY <1>3, <1>5 DEF Opened
  <2>2. \A d \in Entries : point'[d] = "open" =>
          point[d] = "open" \/ \A i \in 1..Len(rows) : Travels(d, i, Len(rows) + 1)' => Noted(d)'
    BY <1>5, <1>10
  <2> QED
    BY <1>2, <1>6, <2>1, <2>2, RowsFrame
<1> QED
  BY <1>7, <1>8, <1>9, <1>11 DEF SessionsInv

(* A session is written, and what was noted of the rows before it stays     *)
(* right.                                                                   *)
LEMMA CreateSessionStep ==
  ASSUME SessionsInv, NEW c \in Entries, CreateSession(c)
  PROVE  SessionsInv'
<1> DEFINE R == [user: Names, from: Places, by: Entries]
           new == [user |-> Name(c), from |-> From(c), by |-> c]
<1>1. SessionsTypeOK /\ PointsAreSound /\ TokensAreSound
  BY DEF SessionsInv
<1>2. /\ point \in [Entries -> EntryPoints] /\ before \in [Entries -> Nat]
      /\ aged \in Nat /\ "grant" \in EntryPoints /\ rows \in Seq(R) /\ \A d \in Entries : before[d] <= Len(rows)
  BY <1>1 DEF SessionsTypeOK, EntryPoints
<1>3. point[c] = "open" /\ Op(c) = "login" /\ Name(c) \in known
  BY <1>1 DEF CreateSession, PointsAreSound
<1>4. point' \in [Entries -> EntryPoints] /\ point'[c] = "grant" /\ \A d \in Entries \ {c} : point'[d] = point[d]
  BY <1>1, <1>2, PointMoves DEF CreateSession
<1>5. /\ known' = known /\ aged' = aged /\ tokens' = tokens /\ renewable' = renewable
      /\ before' = before /\ alerts' = alerts /\ blind' = blind /\ risk' = risk
  BY DEF CreateSession
<1>6. new \in R /\ new.user = Name(c) /\ new.from = From(c) /\ new.by = c
  BY EntryTypes
<1>7. rows' = Append(rows, new)
  BY DEF CreateSession, InsertSession
<1> HIDE DEF new, R
<1>8. /\ Len(rows) \in Nat /\ Len(rows') = Len(rows) + 1 /\ rows' \in Seq(R)
      /\ rows'[Len(rows) + 1] = new /\ \A i \in 1..Len(rows) : rows'[i] = rows[i]
      /\ 1..Len(rows') = 1..Len(rows) \cup {Len(rows) + 1}
  BY <1>2, <1>6, <1>7
<1>9. SessionsTypeOK'
  <2>1. \A d \in Entries : before'[d] <= Len(rows')
    BY <1>2, <1>5, <1>8
  <2> QED
    BY <1>1, <1>4, <1>5, <1>8, <2>1 DEF SessionsTypeOK, R
<1>10. PointsAreSound'
  <2>1. Len(rows) + 1 \in 1..Len(rows') /\ rows'[Len(rows) + 1].by = c
    BY <1>6, <1>8
  <2>2. MayCome(c, "grant")
    BY <1>3, <1>5, <2>1 DEF MayCome
  <2>3. ASSUME NEW d \in Entries, NEW i \in 1..Len(rows), rows[i].by = d
        PROVE  \E j \in 1..Len(rows') : rows'[j].by = d
    BY <1>8, <2>3
  <2> QED
    BY <1>4, <1>5, <2>2, <2>3, PointsFrame
<1>11. TokensAreSound'
  <2>1. \A d \in Entries : Exchanging(d)' => Exchanging(d)
    BY <1>3, <1>4 DEF Exchanging
  <2> QED
    BY <1>1, <1>3, <1>4, <1>5, <2>1, TokensFrame DEF TokensAreSound
<1>12. \A j \in 1..Len(rows) : rows[j].by \in Entries
  <2>1. \A j \in 1..Len(rows) : rows[j] \in R
    BY <1>2, SeqElements
  <2> QED
    BY <2>1 DEF R
<1>13. ASSUME NEW d \in Entries, NEW i \in 1..Len(rows), NEW j \in 1..(Len(rows) + 1), Travels(d, i, j)'
       PROVE  Travels(d, i, j)
  BY <1>5, <1>8, <1>13 DEF Travels
<1>14. \A d \in Entries : Noted(d) => Noted(d)'
  BY <1>5 DEF Noted
<1>15. ASSUME NEW j \in 1..Len(rows), NEW d \in Entries, d = rows[j].by
       PROVE  /\ point'[d] \in Opened /\ rows[j].user = Name(d) /\ rows[j].from = From(d) /\ before'[d] < j
              /\ \A i \in 1..Len(rows') : i < j /\ Travels(d, i, j)' => Noted(d)'
  <2>1. /\ point[d] \in Opened /\ rows[j].user = Name(d) /\ rows[j].from = From(d) /\ before[d] < j
        /\ \A i \in 1..Len(rows) : i < j /\ Travels(d, i, j) => Noted(d)
    BY <1>15 DEF SessionsInv, RowsAreSound, Opened
  <2>2. point'[d] \in Opened
    BY <1>4, <2>1 DEF Opened
  <2>3. ASSUME NEW i \in 1..Len(rows'), i < j, Travels(d, i, j)'
        PROVE  Noted(d)'
    <3>1. i \in 1..Len(rows) /\ j \in 1..(Len(rows) + 1)
      BY <1>8, <2>3
    <3> QED
      BY <1>13, <1>14, <2>1, <2>3, <3>1
  <2> QED
    BY <1>5, <2>1, <2>2, <2>3
<1>16. ASSUME NEW j, j = Len(rows) + 1, NEW i \in 1..Len(rows'), i < j, Travels(c, i, j)'
       PROVE  Noted(c)'
  <2>1. i \in 1..Len(rows) /\ Len(rows) + 1 \in 1..(Len(rows) + 1)
    BY <1>8, <1>16
  <2>2. Travels(c, i, Len(rows) + 1)
    <3>1. /\ rows[i].user = Name(c) /\ Address[rows[i].from] # Address[From(c)] /\ aged < i /\ i <= before[c] /\ c \notin blind
      BY <1>5, <1>8, <1>16, <2>1 DEF Travels
    <3>2. ASSUME NEW k \in 1..Len(rows), i < k, k < Len(rows) + 1
          PROVE  rows[k].user # Name(c)
      <4>1. k \in 1..Len(rows') /\ k < Len(rows')
        BY <1>8, <3>2
      <4> QED
        BY <1>8, <1>16, <3>2, <4>1 DEF Travels
    <3> QED
      BY <3>1, <3>2 DEF Travels
  <2> QED
    BY <1>3, <1>14, <2>1, <2>2 DEF SessionsInv, RowsAreSound
<1>17. ASSUME NEW d \in Entries, point'[d] = "open", NEW i \in 1..Len(rows'), Travels(d, i, Len(rows) + 1)'
       PROVE  Noted(d)'
  <2>1. d # c /\ point[d] = "open"
    BY <1>4, <1>17
  <2>2. i \in 1..Len(rows) /\ i <= before[d]
    BY <1>2, <1>5, <1>8, <1>17 DEF Travels
  <2>3. Travels(d, i, Len(rows) + 1)
    <3>1. rows[i].user = Name(d) /\ Address[rows[i].from] # Address[From(d)] /\ aged < i /\ d \notin blind
      BY <1>5, <1>8, <1>17, <2>2 DEF Travels
    <3>2. ASSUME NEW k \in 1..Len(rows), i < k, k < Len(rows) + 1
          PROVE  rows[k].user # Name(d)
      <4>1. k \in 1..Len(rows') /\ k < Len(rows') + 1
        BY <1>8, <3>2
      <4> QED
        BY <1>8, <1>17, <3>2, <4>1 DEF Travels
    <3> QED
      BY <2>2, <3>1, <3>2 DEF Travels
  <2> QED
    BY <1>14, <2>1, <2>2, <2>3 DEF SessionsInv, RowsAreSound
<1>18. RowsAreSound'
  <2>1. ASSUME NEW j \in 1..Len(rows'), NEW d, d = rows'[j].by
        PROVE  /\ d \in Entries /\ point'[d] \in Opened
               /\ rows'[j].user = Name(d) /\ rows'[j].from = From(d) /\ before'[d] < j
               /\ \A i \in 1..Len(rows') : i < j /\ Travels(d, i, j)' => Noted(d)'
    <3>1. CASE j \in 1..Len(rows)
      <4>1. d = rows[j].by /\ d \in Entries /\ rows'[j] = rows[j]
        BY <1>8, <1>12, <2>1, <3>1
      <4> QED
        BY <1>15, <3>1, <4>1
    <3>2. CASE j = Len(rows) + 1
      <4>1. d = c /\ point'[c] \in Opened /\ before'[c] < j
        BY <1>2, <1>4, <1>5, <1>6, <1>8, <2>1, <3>2 DEF Opened
      <4> QED
        BY <1>6, <1>8, <1>16, <3>2, <4>1
    <3> QED
      BY <1>8, <3>1, <3>2
  <2> QED
    BY <1>17, <2>1 DEF RowsAreSound, Opened
<1> QED
  BY <1>9, <1>10, <1>11, <1>18 DEF SessionsInv

(* An access token is granted to a call that has its row.                   *)
LEMMA GrantTokensStep ==
  ASSUME SessionsInv, NEW c \in Entries, GrantTokens(c)
  PROVE  SessionsInv'
<1>1. SessionsTypeOK /\ PointsAreSound /\ TokensAreSound
  BY DEF SessionsInv
<1>2. /\ point \in [Entries -> EntryPoints] /\ aged \in Nat /\ "done" \in EntryPoints
      /\ renewable \subseteq Entries
  BY <1>1 DEF SessionsTypeOK, EntryPoints, Ends
<1>3. /\ point[c] = "grant" /\ Name(c) \in known
      /\ (Op(c) = "login" => \E i \in 1..Len(rows) : rows[i].by = c)
  BY <1>1 DEF GrantTokens, PointsAreSound
<1>4. point' \in [Entries -> EntryPoints] /\ point'[c] = "done" /\ \A d \in Entries \ {c} : point'[d] = point[d]
  BY <1>1, <1>2, PointMoves DEF GrantTokens
<1>5. /\ known' = known /\ aged' = aged /\ renewable' = renewable \cup {c} /\ rows' = rows
      /\ before' = before /\ alerts' = alerts /\ blind' = blind /\ risk' = risk
  BY DEF GrantTokens
<1>6. SessionsTypeOK'
  BY <1>1, <1>4, <1>5 DEF SessionsTypeOK
<1>7. PointsAreSound'
  <2>1. MayCome(c, "done")
    BY <1>3, <1>5 DEF MayCome
  <2> QED
    BY <1>4, <1>5, <2>1, PointsFrame
<1>8. TokensAreSound'
  <2>1. \A d \in Entries : Exchanging(d)' <=> Exchanging(d)
    BY <1>3, <1>4 DEF Exchanging
  <2>2. \A t \in tokens' : t.by \in Entries /\ Name(t.by) \in known'
    <3>1. \A t \in tokens' : t \in tokens \/ t.by = c
      BY DEF GrantTokens, GenerateToken
    <3> QED
      BY <1>1, <1>3, <1>5, <3>1 DEF TokensAreSound
  <2>3. \A d \in renewable' : point'[d] = "done"
    BY <1>1, <1>2, <1>4, <1>5 DEF TokensAreSound
  <2>4. \A d \in Entries : Exchanging(d) => With(d) # c /\ With(d) \in Entries
    BY <1>1, <1>3, EntryTypes DEF TokensAreSound
  <2>5. \A d \in Entries : Exchanging(d)' => point'[With(d)] = "done" /\ With(d) \notin renewable'
    BY <1>1, <1>4, <1>5, <2>1, <2>4 DEF TokensAreSound
  <2>6. \A d, e \in Entries : Exchanging(d)' /\ Exchanging(e)' /\ With(d) = With(e) => d = e
    BY <1>1, <2>1 DEF TokensAreSound
  <2> QED
    BY <2>2, <2>3, <2>5, <2>6 DEF TokensAreSound
<1>9. RowsAreSound'
  <2>1. \A d \in Entries : point[d] \in Opened => point'[d] \in Opened
    BY <1>4 DEF Opened
  <2>2. \A d \in Entries : point'[d] = "open" => point[d] = "open"
    BY <1>4
  <2> QED
    BY <1>2, <1>5, <2>1, <2>2, RowsFrame
<1> QED
  BY <1>6, <1>7, <1>8, <1>9 DEF SessionsInv

(* A refresh token is taken by one call alone: its script deletes what it   *)
(* finds.                                                                   *)
LEMMA RefreshTokenStep ==
  ASSUME SessionsInv, NEW c \in Entries, RefreshToken(c)
  PROVE  SessionsInv'
<1> DEFINE spent == renewable \cap {Entry[c].with}
           l == IF spent = {} THEN "refused" ELSE "load"
<1>1. SessionsTypeOK /\ PointsAreSound /\ TokensAreSound
  BY DEF SessionsInv
<1>2. /\ point \in [Entries -> EntryPoints] /\ aged \in Nat /\ "load" \in EntryPoints /\ "refused" \in EntryPoints
      /\ renewable \subseteq Entries
  BY <1>1 DEF SessionsTypeOK, EntryPoints, Ends
<1>3. /\ point[c] = "idle" /\ Op(c) = "refresh" /\ Entry[c].with = With(c) /\ With(c) \in Entries
      /\ Name(c) = Name(With(c))
  BY EntryTypes DEF RefreshToken, Enters, Op, With
<1>4. point' \in [Entries -> EntryPoints] /\ point'[c] = l /\ \A d \in Entries \ {c} : point'[d] = point[d]
  BY <1>1, <1>2, PointMoves DEF RefreshToken
<1>5. /\ known' = known /\ aged' = aged /\ renewable' = renewable \ spent /\ rows' = rows /\ tokens' = tokens
      /\ before' = before /\ alerts' = alerts /\ blind' = blind /\ risk' = risk
  BY DEF RefreshToken
<1>6. l = "load" => With(c) \in renewable /\ point[With(c)] = "done" /\ Name(c) \in known
  BY <1>1, <1>3 DEF TokensAreSound, PointsAreSound
<1>7. SessionsTypeOK'
  BY <1>1, <1>4, <1>5 DEF SessionsTypeOK
<1>8. PointsAreSound'
  <2>1. MayCome(c, l)
    BY <1>3, <1>5, <1>6 DEF MayCome
  <2> QED
    BY <1>4, <1>5, <2>1, PointsFrame
<1>9. TokensAreSound'
  <2>1. \A d \in Entries : Exchanging(d)' => Exchanging(d) \/ (d = c /\ l = "load")
    BY <1>4 DEF Exchanging
  <2>2. \A t \in tokens' : t.by \in Entries /\ Name(t.by) \in known'
    BY <1>1, <1>5 DEF TokensAreSound
  <2>3. \A d \in renewable' : point'[d] = "done"
    BY <1>1, <1>2, <1>3, <1>4, <1>5 DEF TokensAreSound
  <2>4. \A d \in Entries : Exchanging(d) => With(d) # c /\ With(d) \in Entries
    BY <1>1, <1>3, EntryTypes DEF TokensAreSound
  <2>5. ASSUME NEW d \in Entries, Exchanging(d)'
        PROVE  point'[With(d)] = "done" /\ With(d) \notin renewable'
    <3>1. CASE Exchanging(d)
      BY <1>1, <1>4, <1>5, <2>4, <3>1 DEF TokensAreSound
    <3>2. CASE d = c /\ l = "load"
      BY <1>3, <1>4, <1>5, <1>6, <3>2
    <3> QED
      BY <2>1, <2>5, <3>1, <3>2
  <2>6. \A d \in Entries : Exchanging(d) /\ l = "load" => With(d) # With(c)
    BY <1>1, <1>6 DEF TokensAreSound
  <2>7. \A d, e \in Entries : Exchanging(d)' /\ Exchanging(e)' /\ With(d) = With(e) => d = e
    BY <1>1, <2>1, <2>6 DEF TokensAreSound
  <2> QED
    BY <2>2, <2>3, <2>5, <2>7 DEF TokensAreSound
<1>10. RowsAreSound'
  <2>1. \A d \in Entries : point[d] \in Opened => point'[d] \in Opened
    BY <1>3, <1>4 DEF Opened
  <2>2. \A d \in Entries : point'[d] = "open" => point[d] = "open"
    BY <1>4
  <2> QED
    BY <1>2, <1>5, <2>1, <2>2, RowsFrame
<1> QED
  BY <1>7, <1>8, <1>9, <1>10 DEF SessionsInv

(* Time and a restart end tokens and calls, and note nothing less.         *)
LEMMA WorldStep ==
  ASSUME SessionsInv, QuarterPasses \/ RestartProcess
  PROVE  SessionsInv'
<1>1. SessionsTypeOK /\ PointsAreSound
  BY DEF SessionsInv
<1>2. /\ point \in [Entries -> EntryPoints] /\ aged \in Nat /\ Len(rows) \in Nat
      /\ {"refused", "idle"} \cup Ends \subseteq EntryPoints /\ Ends = {"refused", "risky", "done"}
  BY <1>1 DEF SessionsTypeOK, EntryPoints, Ends
<1>3. /\ known' = known /\ rows' = rows /\ renewable' = renewable /\ before' = before
      /\ alerts' = alerts /\ blind' = blind /\ tokens' \subseteq tokens
      /\ aged' \in Nat /\ aged <= aged' /\ (risk' = risk \/ risk' = [c \in Entries |-> 0])
  BY <1>2 DEF QuarterPasses, RestartProcess
<1>4. /\ point' \in [Entries -> EntryPoints]
      /\ \A d \in Entries : point'[d] = point[d] \/ (point[d] # "done" /\ point'[d] = "refused")
  BY <1>2 DEF QuarterPasses, RestartProcess
<1>5. SessionsTypeOK'
  BY <1>1, <1>3, <1>4 DEF SessionsTypeOK
<1>6. PointsAreSound'
  <2>1. \A d \in Entries : MayCome(d, "refused")
    BY DEF MayCome
  <2> QED
    BY <1>3, <1>4, <2>1, PointsFrame
<1>7. TokensAreSound'
  <2>1. \A d \in Entries : Exchanging(d)' => Exchanging(d)
    BY <1>4 DEF Exchanging
  <2> QED
    BY <1>3, <1>4, <2>1, TokensFrame
<1>8. RowsAreSound'
  <2>1. \A d \in Entries : point[d] \in Opened => point'[d] \in Opened
    BY <1>4 DEF Opened
  <2>2. \A d \in Entries : point'[d] = "open" => point[d] = "open"
    BY <1>4
  <2> QED
    BY <1>3, <2>1, <2>2, RowsFrame
<1> QED
  BY <1>5, <1>6, <1>7, <1>8 DEF SessionsInv

(* Every step of the sessions keeps the invariant.                          *)
LEMMA SessionsStep == SessionsInv /\ [SessionsNext]_sessionsVars => SessionsInv'
<1> SUFFICES ASSUME SessionsInv, [SessionsNext]_sessionsVars PROVE SessionsInv'
  OBVIOUS
<1>1. CASE UNCHANGED sessionsVars
  BY <1>1 DEF sessionsVars, SessionsInv, SessionsTypeOK, PointsAreSound, TokensAreSound, Exchanging,
     RowsAreSound, Travels, Noted
<1>2. CASE SessionsNext
  BY <1>2, CommonStep, AssessRiskStep, CreateSessionStep, GrantTokensStep, RefreshTokenStep, WorldStep
     DEF SessionsNext
<1> QED
  BY <1>1, <1>2

(* The parts of SessionsHold follow.                                        *)
LEMMA SessionsSuffice == SessionsInv => SessionsHold
<1> SUFFICES ASSUME SessionsInv PROVE SessionsHold
  OBVIOUS
<1>1. RightIsAdmitted
  BY DEF SessionsInv, PointsAreSound, RightIsAdmitted
<1>2. DOMAIN rows = 1..Len(rows) /\ Len(rows) \in Nat /\ before \in [Entries -> Nat]
  BY DEF SessionsInv, SessionsTypeOK
<1>3. \A j \in 1..Len(rows) : rows[j].by \in Entries
  <2> DEFINE R == [user: Names, from: Places, by: Entries]
  <2>1. rows \in Seq(R)
    BY DEF SessionsInv, SessionsTypeOK
  <2> HIDE DEF R
  <2>2. \A j \in 1..Len(rows) : rows[j] \in R
    BY <2>1, SeqElements
  <2> QED
    BY <2>2 DEF R
<1>4. TravelIsSeen
  <2> SUFFICES ASSUME NEW i \in 1..Len(rows), NEW j \in 1..Len(rows), NEW c \in Entries, c = rows[j].by,
                      rows[i].user = rows[j].user, Address[rows[i].from] # Address[rows[j].from],
                      aged < i, i <= before[c], c \notin blind,
                      ~\E k \in 1..Len(rows) : i < k /\ k < j /\ rows[k].user = rows[j].user
               PROVE  <<"IMPOSSIBLE_TRAVEL", c>> \in alerts
    BY <1>2, <1>3 DEF TravelIsSeen
  <2>1. /\ rows[j].user = Name(c) /\ rows[j].from = From(c) /\ before[c] < j /\ before[c] \in Nat
        /\ \A m \in 1..Len(rows) : m < j /\ Travels(c, m, j) => Noted(c)
    BY <1>2 DEF SessionsInv, RowsAreSound
  <2>2. i < j
    BY <1>2, <2>1
  <2>3. Travels(c, i, j)
    BY <2>1 DEF Travels
  <2> QED
    BY <2>1, <2>2, <2>3 DEF Noted
<1>5. GrantsRestOnRows
  <2>1. PointsAreSound /\ TokensAreSound
    BY DEF SessionsInv
  <2>2. \A c \in Entries : point[c] = "done" /\ Entry[c].op = "login" => \E i \in DOMAIN rows : rows[i].by = c
    BY <1>2, <2>1 DEF PointsAreSound, Op
  <2>3. \A c \in Entries : point[c] = "done" => Name(c) \in known
    BY <2>1 DEF PointsAreSound
  <2>4. \A c, d \in Entries :
          (c # d /\ Entry[c].with = Entry[d].with /\ Entry[c].op = "refresh" /\ Entry[d].op = "refresh"
           /\ point[c] = "done") => point[d] # "done"
    BY <2>1 DEF TokensAreSound, Exchanging, Op, With
  <2>5. \A c, d \in Renewed : Entry[c].with = Entry[d].with => c = d
    BY <2>4 DEF Renewed, Answered
  <2> QED
    BY <2>2, <2>3, <2>5 DEF GrantsRestOnRows, Answered
<1> QED
  BY <1>1, <1>4, <1>5 DEF SessionsHold

-----------------------------------------------------------------------------
(* Gate                                                                     *)

(* With one delivery of a key at a time, Redis up and handlers that say    *)
(* what they did, the middleware lets a key take effect once and for one   *)
(* body, of any keys, bodies and number of retries.                        *)
THEOREM SerialIsOnceAlways == GateSpec => []SerialIsOnce
<1> DEFINE SInv == mode = "serial" => SerialInv
<1>1. GateInit => SInv
  BY SerialInitially DEF GateInit
<1>2. SInv /\ [GateNext]_<<vars, sessionsVars, mode>> => SInv'
  <2> SUFFICES ASSUME SInv, [GateNext]_<<vars, sessionsVars, mode>>, mode' = "serial" PROVE SerialInv'
    OBVIOUS
  <2>1. mode = "serial" /\ [Serial!Next]_vars
    BY DEF GateNext, Faulty, Faultless, Identified
  <2> QED
    BY <2>1, SerialStep
<1>3. SInv => SerialIsOnce
  BY DEF SerialInv, OneEffect, SerialIsOnce, AtMostOneEffect, OneBodyPerKey
<1> HIDE DEF SInv
<1> QED
  BY <1>1, <1>2, <1>3, PTL DEF GateSpec

(* An access token, a session row and the note of a risky login rest on    *)
(* what registration, login and refresh have written and read before,      *)
(* whatever other calls of the same name, expiries and restarts come       *)
(* between: CreateSession, AssessRisk, RefreshToken.                       *)
THEOREM SessionsHoldAlways == GateSpec => []SessionsHold
<1>1. GateInit => SessionsInv
  BY SessionsInitially DEF GateInit
<1>2. SessionsInv /\ [GateNext]_<<vars, sessionsVars, mode>> => SessionsInv'
  <2> SUFFICES ASSUME SessionsInv, [GateNext]_<<vars, sessionsVars, mode>> PROVE SessionsInv'
    OBVIOUS
  <2>1. [SessionsNext]_sessionsVars
    BY DEF GateNext, Faulty, Faultless, Identified
  <2> QED
    BY <2>1, SessionsStep
<1>3. SessionsInv => SessionsHold
  BY SessionsSuffice
<1> HIDE DEF SessionsInv
<1> QED
  BY <1>1, <1>2, <1>3, PTL DEF GateSpec

-----------------------------------------------------------------------------
(* Accounts                                                                 *)

(* Wherever a count is found that comes to the threshold, in the row, in   *)
(* the cache or in what a request has loaded, the row once had it.         *)
CountsAreReal ==
  /\ row.attempts >= Threshold => reached
  /\ cache # None /\ cache.attempts >= Threshold => reached

(* A token that was exchanged for another one had been issued.             *)
HeirsAreIssued == \A t \in Tokens : parent[t] # None => refresh[t] # "unissued"

(* A challenge is gone before a login is answered for it.                  *)
AnsweredAreGone == \A h \in answered : challenge[h] = "gone"

(* What a request goes by: its count was reached, of its secret there was  *)
(* a valid code, and its challenge was not answered before.                *)
SlotIsSound(s) ==
  /\ s.view.attempts >= Threshold \/ s.pc = "lock" => reached
  /\ s.pc = "enable" => s.view.secret \in proved
  /\ s.late = FALSE
  /\ s.op = "verify" => s.item \in Challenges
  /\ s.op = "verify" /\ s.pc = "grant" => challenge[s.item] = "gone"

SlotsAreSound == \A c \in Calls : SlotIsSound(slot[c])

StoresAreSound ==
  /\ LockIsEarned /\ CountsAreReal /\ EnabledIsProved
  /\ RotatedOnce /\ HeirsAreIssued /\ AnsweredAreGone

AccountInv == AccountsTypeOK /\ StoresAreSound /\ SlotsAreSound

(* A call that has not begun has loaded nothing.                            *)
LEMMA IdleIsASlot ==
  /\ Idle \in Slots /\ NoView \in Views /\ Idle.view = NoView /\ NoView.attempts = 0
  /\ ~(NoView.attempts >= Threshold)
  /\ Idle.op = "none" /\ Idle.pc = "idle" /\ Idle.late = FALSE
BY AccountsAssumption DEF AccountsAssumption, Idle, NoView, Slots, Views, Points

(* A step of call c, and what it makes of the call's slot.                 *)
Moves(c) == slot' \in [Calls -> Slots] /\ \A d \in Calls \ {c} : slot'[d] = slot[d]
Becomes(c, s) == Moves(c) /\ s \in Slots /\ slot'[c] = s

(* A call goes from one point to another.                                   *)
LEMMA SlotTo ==
  ASSUME slot \in [Calls -> Slots], NEW c \in Calls, NEW p \in Points, To(c, p)
  PROVE  Becomes(c, [slot[c] EXCEPT !.pc = p])
<1>1. [slot[c] EXCEPT !.pc = p] \in Slots
  BY DEF Slots, Points
<1>2. slot' = [slot EXCEPT ![c] = [slot[c] EXCEPT !.pc = p]]
  BY DEF To
<1> QED
  BY <1>1, <1>2 DEF Becomes, Moves

(* A call has loaded the row, or its copy.                                  *)
LEMMA SlotLoaded ==
  ASSUME slot \in [Calls -> Slots], NEW c \in Calls, NEW p \in Points, NEW v \in Views, 
         slot' = [slot EXCEPT ![c].pc = p, ![c].view = v]
  PROVE  Becomes(c, [slot[c] EXCEPT !.pc = p, !.view = v])
<1>1. [slot[c] EXCEPT !.pc = p, !.view = v] \in Slots
  BY DEF Slots, Points
<1>2. slot' = [slot EXCEPT ![c] = [slot[c] EXCEPT !.pc = p, !.view = v]]
  OBVIOUS
<1> QED
  BY <1>1, <1>2 DEF Becomes, Moves

(* A call ends.                                                             *)
LEMMA SlotEnds ==
  ASSUME slot \in [Calls -> Slots], NEW c \in Calls, End(c)
  PROVE  Moves(c) /\ SlotIsSound(slot[c])'
<1>1. Becomes(c, Idle)
  BY IdleIsASlot DEF Becomes, Moves, End
<1>2. Idle.view.attempts = 0 /\ Idle.pc = "idle" /\ Idle.op = "none" /\ Idle.late = FALSE
  BY IdleIsASlot
<1> QED
  BY <1>1, <1>2, AccountsAssumption DEF AccountsAssumption, SlotIsSound, Becomes

(* A call begins with what it has loaded, or with nothing.                  *)
LEMMA SlotBegins ==
  ASSUME slot \in [Calls -> Slots], NEW c \in Calls, NEW p \in Points, NEW v \in Views,
         NEW o \in {"login", "setup", "confirm", "me"}, Begin(c, o, p, v)
  PROVE  /\ Moves(c)
         /\ (v.attempts >= Threshold => reached') /\ p \notin {"lock", "enable"} => SlotIsSound(slot[c])'
<1>1. [Idle EXCEPT !.op = o, !.pc = p, !.view = v] \in Slots
  BY IdleIsASlot DEF Slots, Points
<1>2. Becomes(c, [Idle EXCEPT !.op = o, !.pc = p, !.view = v])
  BY <1>1 DEF Becomes, Moves, Begin
<1>3. slot'[c].op = o /\ slot'[c].pc = p /\ slot'[c].view = v /\ slot'[c].late = FALSE
  BY <1>2, IdleIsASlot DEF Becomes, Moves, Slots
<1> QED
  BY <1>2, <1>3 DEF SlotIsSound, Becomes

(* The other calls go by what was so before, and is still so.               *)
LEMMA SlotsFrame ==
  ASSUME AccountsTypeOK, SlotsAreSound, NEW c \in Calls,
         Moves(c), SlotIsSound(slot[c])',
         reached => reached', proved \subseteq proved',
         \A h \in Challenges : challenge[h] = "gone" => challenge'[h] = "gone"
  PROVE  SlotsAreSound'
<1> SUFFICES ASSUME NEW d \in Calls, d # c PROVE SlotIsSound(slot[d])'
  BY DEF SlotsAreSound
<1>1. SlotIsSound(slot[d]) /\ slot'[d] = slot[d]
  BY DEF SlotsAreSound, Moves
<1> QED
  BY <1>1 DEF SlotIsSound

(* A step that changes no store.                                            *)
LEMMA QuietStep ==
  ASSUME AccountInv, NEW c \in Calls, Moves(c), SlotIsSound(slot[c])',
         UNCHANGED <<row, cache, shown, refresh, challenge, history>>
  PROVE  AccountInv'
<1>1. AccountsTypeOK'
  BY DEF AccountInv, AccountsTypeOK, Moves, history
<1>2. StoresAreSound'
  BY DEF AccountInv, StoresAreSound, LockIsEarned, CountsAreReal, EnabledIsProved,
         RotatedOnce, HeirsAreIssued, AnsweredAreGone, history
<1>3. SlotsAreSound'
  BY SlotsFrame DEF AccountInv, history
<1> QED
  BY <1>1, <1>2, <1>3 DEF AccountInv

(* Every step of a call keeps the invariant.                                *)
LEMMA AccountStep ==
  ASSUME AccountInv, NEW c \in Calls, ServeAccount(c)
  PROVE  AccountInv'
<1> USE AccountsAssumption DEF AccountsAssumption
<1>t. /\ AccountsTypeOK /\ StoresAreSound /\ SlotsAreSound /\ slot \in [Calls -> Slots]
      /\ SlotIsSound(slot[c]) /\ slot[c] \in Slots /\ slot[c].view \in Views
  BY DEF AccountInv, AccountsTypeOK, SlotsAreSound, Slots
<1>v. ViewOf(row) \in Views /\ (ViewOf(row).attempts >= Threshold => reached)
  BY <1>t DEF AccountsTypeOK, StoresAreSound, CountsAreReal, ViewOf, Views, Rows
<1>1. CASE CacheHit(c)
  <2>1. cache \in Views /\ (cache.attempts >= Threshold => reached)
    BY <1>t, <1>1 DEF CacheHit, AccountsTypeOK, StoresAreSound, CountsAreReal
  <2>2. CASE slot[c].op \in {"me", "refresh"}
    BY <1>1, <1>t, <2>2, SlotEnds, QuietStep DEF CacheHit, Loaded
  <2>3. CASE slot[c].op \notin {"me", "refresh"}
    <3> DEFINE v == IF slot[c].op = "setup" THEN NoView ELSE cache
    <3>1. v \in Views /\ (v.attempts >= Threshold => reached)
      BY <2>1, IdleIsASlot
    <3>2. slot' = [slot EXCEPT ![c].pc = "loaded", ![c].view = v]
      BY <1>1, <2>3 DEF CacheHit, Loaded
    <3>3. Becomes(c, [slot[c] EXCEPT !.pc = "loaded", !.view = v])
      BY <3>1, <3>2, <1>t, SlotLoaded DEF Points
    <3>4. SlotIsSound(slot[c])'
      BY <3>1, <3>3, <1>t, <1>1 DEF Becomes, Moves, SlotIsSound, CacheHit, history, Slots
    <3> QED
      BY <3>3, <3>4, <1>1, QuietStep DEF CacheHit, Becomes
  <2> QED
    BY <2>2, <2>3
<1>2. CASE CacheMiss(c)
  <2>1. Becomes(c, [slot[c] EXCEPT !.pc = "fill", !.view = ViewOf(row)])
    BY <1>t, <1>v, <1>2, SlotLoaded DEF CacheMiss, Points
  <2>2. SlotIsSound(slot[c])'
    BY <2>1, <1>t, <1>v, <1>2 DEF Becomes, Moves, SlotIsSound, CacheMiss, history, Slots
  <2> QED
    BY <2>1, <2>2, <1>2, QuietStep DEF CacheMiss, Becomes
<1>4. CASE LoginRight(c)
  <2>1. SlotIsSound(slot[c])' /\ Moves(c)
    BY <1>t, <1>v, <1>4, SlotBegins DEF LoginRight, Points, history
  <2> QED
    BY <2>1, <1>4, QuietStep DEF LoginRight
<1>5. CASE LoginWrong(c)
  <2>1. SlotIsSound(slot[c])' /\ Moves(c)
    BY <1>t, <1>5, IdleIsASlot, SlotBegins DEF LoginWrong, Points, history
  <2> QED
    BY <2>1, <1>5, QuietStep DEF LoginWrong
<1>7. CASE Judge(c)
  <2>1. SlotIsSound(slot[c])' /\ Moves(c)
    <3>1. CASE slot[c].view.attempts >= Threshold
      <4>1. Becomes(c, [slot[c] EXCEPT !.pc = "lock"])
        BY <1>t, <1>7, <3>1, SlotTo DEF Judge, Points
      <4> QED
        BY <4>1, <1>t, <1>7, <3>1 DEF Becomes, Moves, SlotIsSound, Judge, history, Slots
    <3> QED
      BY <3>1, <1>t, <1>7, SlotEnds DEF Judge
  <2> QED
    BY <2>1, <1>7, QuietStep DEF Judge
<1>11. CASE Setup(c)
  <2>1. SlotIsSound(slot[c])' /\ Moves(c)
    BY <1>t, <1>11, IdleIsASlot, SlotBegins DEF Setup, Points, history
  <2> QED
    BY <2>1, <1>11, QuietStep DEF Setup
<1>14. CASE Confirm(c)
  <2>1. SlotIsSound(slot[c])' /\ Moves(c)
    BY <1>t, <1>14, IdleIsASlot, SlotBegins DEF Confirm, Points, history
  <2> QED
    BY <2>1, <1>14, QuietStep DEF Confirm
<1>20. CASE Me(c)
  <2>1. SlotIsSound(slot[c])' /\ Moves(c)
    BY <1>t, <1>20, IdleIsASlot, SlotBegins DEF Me, Points, history
  <2> QED
    BY <2>1, <1>20, QuietStep DEF Me
<1>21. CASE Fail(c)
  BY <1>t, <1>21, SlotEnds, QuietStep DEF Fail
<1>13. CASE Open(c)
  <2>1. PICK h \in Challenges :
          /\ challenge[h] = "live"
          /\ slot' = [slot EXCEPT ![c] = [Idle EXCEPT !.op = "verify", !.pc = "look", !.item = h,
                                                      !.late = h \in answered]]
    BY <1>13 DEF Open
  <2>2. (h \in answered) = FALSE
    BY <2>1, <1>t DEF StoresAreSound, AnsweredAreGone
  <2> DEFINE s == [Idle EXCEPT !.op = "verify", !.pc = "look", !.item = h, !.late = FALSE]
  <2>a. slot' = [slot EXCEPT ![c] = s]
    BY <2>1, <2>2, Zenon
  <2>3. s \in Slots /\ s.late = FALSE /\ s.view.attempts = 0
    BY <2>2, IdleIsASlot DEF Slots, Points
  <2>4. Becomes(c, s)
    BY <1>t, <2>a, <2>3 DEF Becomes, Moves
  <2>5. SlotIsSound(slot[c])'
    BY <2>3, <2>4, IdleIsASlot DEF Becomes, Moves, SlotIsSound, Slots
  <2> QED
    BY <2>4, <2>5, <1>13, QuietStep DEF Open, Becomes
<1>3. CASE Fill(c)
  <2>1. slot[c].view \in Views /\ (slot[c].view.attempts >= Threshold => reached)
    BY <1>t DEF SlotIsSound
  <2>2. /\ Stored(slot[c].view) \in Views
        /\ Stored(slot[c].view).attempts = slot[c].view.attempts
    BY <2>1, <1>t DEF Stored, Views
  <2>3. Moves(c) /\ SlotIsSound(slot[c])'
    <3>1. CASE slot[c].op \in {"me", "refresh"}
      BY <1>3, <1>t, <3>1, SlotEnds DEF Fill, Loaded
    <3>2. CASE slot[c].op \notin {"me", "refresh"}
      <4> DEFINE v == IF slot[c].op = "setup" THEN NoView ELSE slot[c].view
      <4>1. v \in Views /\ (v.attempts >= Threshold => reached)
        BY <2>1, IdleIsASlot
      <4>2. slot' = [slot EXCEPT ![c].pc = "loaded", ![c].view = v]
        BY <1>3, <3>2 DEF Fill, Loaded
      <4>3. Becomes(c, [slot[c] EXCEPT !.pc = "loaded", !.view = v])
        BY <4>1, <4>2, <1>t, SlotLoaded DEF Points
      <4> QED
        BY <4>1, <4>3, <1>t, <1>3 DEF Becomes, SlotIsSound, Fill, history, Slots
    <3> QED
      BY <3>1, <3>2
  <2>4. cache' \in Views \cup {None} /\ (cache' # None /\ cache'.attempts >= Threshold => reached)
    BY <2>1, <2>2, <1>t, <1>3 DEF Fill, AccountsTypeOK, StoresAreSound, CountsAreReal
  <2>5. AccountsTypeOK'
    BY <2>3, <2>4, <1>t, <1>3 DEF Fill, AccountsTypeOK, Moves, history
  <2>6. StoresAreSound'
    BY <2>4, <1>t, <1>3 DEF Fill, StoresAreSound, LockIsEarned, CountsAreReal, EnabledIsProved,
         RotatedOnce, HeirsAreIssued, AnsweredAreGone, history
  <2>7. SlotsAreSound'
    BY <2>3, <1>t, <1>3, SlotsFrame DEF Fill, history
  <2> QED
    BY <2>5, <2>6, <2>7 DEF AccountInv
<1>6. CASE Count(c)
  <2>1. Becomes(c, [slot[c] EXCEPT !.pc = "look"])
    BY <1>t, <1>6, SlotTo DEF Count, Points
  <2>2. /\ row' \in Rows /\ reached' \in BOOLEAN /\ (reached => reached')
        /\ row'.attempts >= Threshold => reached'
        /\ row'.locked = row.locked /\ row'.enabled = row.enabled /\ row'.secret = row.secret
    <3>1. CASE UNCHANGED <<row, reached>>
      BY <3>1, <1>t DEF AccountsTypeOK, StoresAreSound, CountsAreReal
    <3>2. CASE IncrementFailedLogin /\ reached' = (reached \/ row.attempts + 1 >= Threshold)
      <4>1. row \in Rows /\ row.attempts < MaxAttempts /\ row' = [row EXCEPT !.attempts = row.attempts + 1]
        BY <3>2, <1>t DEF AccountsTypeOK, IncrementFailedLogin
      <4>2. row' \in Rows /\ row'.attempts = row.attempts + 1 /\ row'.locked = row.locked
            /\ row'.enabled = row.enabled /\ row'.secret = row.secret
        BY <4>1 DEF Rows
      <4>3. reached' \in BOOLEAN /\ (reached => reached') /\ (row.attempts + 1 >= Threshold => reached')
        BY <3>2
      <4> QED
        BY <4>2, <4>3
    <3> QED
      BY <3>1, <3>2, <1>6 DEF Count
  <2>3. SlotIsSound(slot[c])'
    BY <2>1, <2>2, <1>t, <1>6 DEF Becomes, SlotIsSound, Count, Slots
  <2>4. AccountsTypeOK'
    BY <2>1, <2>2, <1>t, <1>6 DEF Count, AccountsTypeOK, Becomes, Moves
  <2>5. StoresAreSound'
    BY <2>2, <1>t, <1>6 DEF Count, StoresAreSound, LockIsEarned, CountsAreReal, EnabledIsProved,
         RotatedOnce, HeirsAreIssued, AnsweredAreGone
  <2>6. SlotsAreSound'
    BY <2>1, <2>2, <2>3, <1>t, <1>6, SlotsFrame DEF Becomes, Count
  <2> QED
    BY <2>4, <2>5, <2>6 DEF AccountInv
<1>8. CASE LockAccount(c)
  <2>1. reached /\ Moves(c) /\ SlotIsSound(slot[c])'
    BY <1>t, <1>8, SlotEnds DEF LockAccount, SlotIsSound, At
  <2>2. /\ row' \in Rows /\ row'.attempts = row.attempts
        /\ row'.enabled = row.enabled /\ row'.secret = row.secret
    BY <1>t, <1>8 DEF LockAccount, SetLockedUntil, AccountsTypeOK, Rows
  <2>3. AccountsTypeOK'
    BY <2>1, <2>2, <1>t, <1>8 DEF LockAccount, AccountsTypeOK, Moves, history
  <2>4. StoresAreSound'
    BY <2>1, <2>2, <1>t, <1>8 DEF LockAccount, StoresAreSound, LockIsEarned, CountsAreReal, EnabledIsProved,
         RotatedOnce, HeirsAreIssued, AnsweredAreGone, history
  <2>5. SlotsAreSound'
    BY <2>1, <1>t, <1>8, SlotsFrame DEF LockAccount, history
  <2> QED
    BY <2>3, <2>4, <2>5 DEF AccountInv
<1>9. CASE Reset(c)
  <2>1. Becomes(c, [slot[c] EXCEPT !.pc = "admit"])
    BY <1>t, <1>9, SlotTo DEF Reset, Points
  <2>2. /\ row' \in Rows /\ (row'.attempts >= Threshold => reached) /\ (row'.locked => row.locked)
        /\ row'.enabled = row.enabled /\ row'.secret = row.secret
    <3>1. CASE ResetFailedLogin
      <4>1. row \in Rows /\ row' = [row EXCEPT !.attempts = 0, !.locked = FALSE]
        BY <3>1, <1>t DEF ResetFailedLogin, AccountsTypeOK
      <4>2. row' \in Rows /\ row'.attempts = 0 /\ row'.locked = FALSE
            /\ row'.enabled = row.enabled /\ row'.secret = row.secret
        <5>1. 0 \in 0..MaxAttempts
          OBVIOUS
        <5>2. row' \in Rows
          BY <4>1, <5>1 DEF Rows
        <5> QED
          BY <4>1, <5>2 DEF Rows
      <4> QED
        BY <4>2
    <3> QED
      BY <3>1, <1>t, <1>9 DEF Reset, AccountsTypeOK, StoresAreSound, CountsAreReal
  <2>3. SlotIsSound(slot[c])'
    BY <2>1, <1>t, <1>9 DEF Becomes, SlotIsSound, Reset, Slots, history
  <2>4. AccountsTypeOK'
    BY <2>1, <2>2, <1>t, <1>9 DEF Reset, AccountsTypeOK, Becomes, Moves, history
  <2>5. StoresAreSound'
    BY <2>2, <1>t, <1>9 DEF Reset, StoresAreSound, LockIsEarned, CountsAreReal, EnabledIsProved,
         RotatedOnce, HeirsAreIssued, AnsweredAreGone, history
  <2>6. SlotsAreSound'
    BY <2>1, <2>3, <1>t, <1>9, SlotsFrame DEF Becomes, Reset, history
  <2> QED
    BY <2>4, <2>5, <2>6 DEF AccountInv
<1>10. CASE Admit(c)
  <2>1. Moves(c) /\ SlotIsSound(slot[c])'
    BY <1>t, <1>10, SlotEnds DEF Admit
  <2>2. cache' \in {None, cache}
    BY <1>10 DEF Admit, UpdateUser
  <2>3. /\ refresh' \in [Tokens -> {"unissued", "live", "spent"}]
        /\ \A t \in Tokens : refresh[t] \in {refresh'[t], "unissued"} /\ (refresh'[t] = "unissued" => refresh[t] = "unissued")
        /\ challenge' \in [Challenges -> {"unissued", "live", "gone"}]
        /\ \A h \in Challenges : challenge[h] = "gone" => challenge'[h] = "gone"
    BY <1>t, <1>10 DEF Admit, AccountsTypeOK, StoreChallenge, StoreRefreshToken
  <2>4. AccountsTypeOK'
    BY <2>1, <2>2, <2>3, <1>t, <1>10 DEF Admit, AccountsTypeOK, Moves, history
  <2>5. StoresAreSound'
    BY <2>2, <2>3, <1>t, <1>10 DEF Admit, StoresAreSound, LockIsEarned, CountsAreReal, EnabledIsProved,
         RotatedOnce, HeirsAreIssued, AnsweredAreGone, history, AccountsTypeOK
  <2>6. SlotsAreSound'
    BY <2>1, <2>3, <1>t, <1>10, SlotsFrame DEF Admit, history
  <2> QED
    BY <2>4, <2>5, <2>6 DEF AccountInv
<1>12. CASE Replace(c)
  <2>1. Moves(c) /\ SlotIsSound(slot[c])'
    BY <1>t, <1>12, SlotEnds DEF Replace
  <2>2. /\ row' \in Rows /\ ~row'.enabled /\ row'.locked = row.locked /\ row'.attempts = row.attempts
        /\ shown' \subseteq Secrets
    BY <1>t, <1>12 DEF Replace, UpdateMFA, AccountsTypeOK, Rows
  <2>4. AccountsTypeOK'
    BY <2>1, <2>2, <1>t, <1>12 DEF Replace, AccountsTypeOK, Moves, history
  <2>5. StoresAreSound'
    BY <2>2, <1>t, <1>12 DEF Replace, StoresAreSound, LockIsEarned, CountsAreReal, EnabledIsProved,
         RotatedOnce, HeirsAreIssued, AnsweredAreGone, history
  <2>6. SlotsAreSound'
    BY <2>1, <1>t, <1>12, SlotsFrame DEF Replace, history
  <2> QED
    BY <2>4, <2>5, <2>6 DEF AccountInv
<1>15. CASE Check(c)
  <2>1. Moves(c) /\ SlotIsSound(slot[c])' /\ proved \subseteq proved'
        /\ proved' \subseteq Secrets \cup {None}
    <3>1. CASE End(c) /\ UNCHANGED proved
      BY <3>1, <1>t, SlotEnds DEF AccountsTypeOK
    <3>2. CASE slot[c].view.secret \in shown \cup {None} /\ proved' = proved \cup {slot[c].view.secret}
      <4>1. proved \subseteq proved' /\ proved' \subseteq Secrets \cup {None}
        BY <3>2, <1>t DEF AccountsTypeOK
      <4>2. CASE End(c)
        BY <4>1, <4>2, <1>t, SlotEnds
      <4>3. CASE \E p \in {"enable", "spend"} : To(c, p)
        <5>1. PICK p \in {"enable", "spend"} : To(c, p)
          BY <4>3
        <5>2. Becomes(c, [slot[c] EXCEPT !.pc = p])
          BY <5>1, <1>t, SlotTo DEF Points
        <5> QED
          BY <5>2, <4>1, <3>2, <1>t, <1>15 DEF Becomes, SlotIsSound, Check, Slots
      <4> QED
        BY <4>2, <4>3, <3>2, <1>15 DEF Check
    <3> QED
      BY <3>1, <3>2, <1>15 DEF Check
  <2>2. AccountsTypeOK'
    BY <2>1, <1>t, <1>15 DEF Check, AccountsTypeOK, Moves
  <2>3. StoresAreSound'
    BY <2>1, <1>t, <1>15 DEF Check, StoresAreSound, LockIsEarned, CountsAreReal, EnabledIsProved,
         RotatedOnce, HeirsAreIssued, AnsweredAreGone
  <2>4. SlotsAreSound'
    BY <2>1, <1>t, <1>15, SlotsFrame DEF Check
  <2> QED
    BY <2>2, <2>3, <2>4 DEF AccountInv
<1>16. CASE Enable(c)
  <2>1. slot[c].view.secret \in proved
    BY <1>16, <1>t DEF Enable, SlotIsSound
  <2>2. Moves(c) /\ SlotIsSound(slot[c])'
    <3>1. CASE End(c)
      BY <3>1, <1>t, SlotEnds
    <3>2. CASE To(c, "spend")
      <4>1. Becomes(c, [slot[c] EXCEPT !.pc = "spend"])
        BY <3>2, <1>t, SlotTo DEF Points
      <4> QED
        BY <4>1, <1>t, <1>16 DEF Becomes, SlotIsSound, Enable, Slots, history
    <3> QED
      BY <3>1, <3>2, <1>16 DEF Enable
  <2>3. /\ row' \in Rows /\ row'.secret = slot[c].view.secret /\ row'.locked = row.locked
        /\ row'.attempts = row.attempts
    BY <2>1, <1>t, <1>16 DEF Enable, UpdateMFA, AccountsTypeOK, Rows
  <2>4. AccountsTypeOK'
    BY <2>2, <2>3, <1>t, <1>16 DEF Enable, AccountsTypeOK, Moves, history
  <2>5. StoresAreSound'
    BY <2>1, <2>3, <1>t, <1>16 DEF Enable, StoresAreSound, LockIsEarned, CountsAreReal, EnabledIsProved,
         RotatedOnce, HeirsAreIssued, AnsweredAreGone, history
  <2>6. SlotsAreSound'
    BY <2>2, <1>t, <1>16, SlotsFrame DEF Enable, history
  <2> QED
    BY <2>4, <2>5, <2>6 DEF AccountInv
<1>17. CASE Spend(c)
  <2>1. slot[c].item \in Challenges /\ slot[c].op = "verify"
    BY <1>17, <1>t DEF Spend, SlotIsSound, At
  <2>2. /\ challenge' \in [Challenges -> {"unissued", "live", "gone"}]
        /\ challenge'[slot[c].item] = "gone"
        /\ \A h \in Challenges : challenge[h] = "gone" => challenge'[h] = "gone"
    BY <2>1, <1>t, <1>17 DEF Spend, AccountsTypeOK
  <2>3. Becomes(c, [slot[c] EXCEPT !.pc = "grant"])
    BY <1>17, <1>t, SlotTo DEF Spend, Points
  <2>4. SlotIsSound(slot[c])'
    BY <2>1, <2>2, <2>3, <1>t, <1>17 DEF Becomes, SlotIsSound, Spend, Slots, history
  <2>5. AccountsTypeOK'
    BY <2>2, <2>3, <1>t, <1>17 DEF Spend, AccountsTypeOK, Becomes, Moves, history
  <2>6. StoresAreSound'
    BY <2>2, <1>t, <1>17 DEF Spend, StoresAreSound, LockIsEarned, CountsAreReal, EnabledIsProved,
         RotatedOnce, HeirsAreIssued, AnsweredAreGone, history, AccountsTypeOK
  <2>7. SlotsAreSound'
    BY <2>2, <2>3, <2>4, <1>t, <1>17, SlotsFrame DEF Becomes, Spend, history
  <2> QED
    BY <2>5, <2>6, <2>7 DEF AccountInv
<1>18. CASE Grant(c)
  <2>1. slot[c].item \in Challenges /\ challenge[slot[c].item] = "gone"
    BY <1>18, <1>t DEF Grant, SlotIsSound, At
  <2>2. /\ refresh' \in [Tokens -> {"unissued", "live", "spent"}]
        /\ \A t \in Tokens : refresh[t] \in {refresh'[t], "unissued"} /\ (refresh'[t] = "unissued" => refresh[t] = "unissued")
    BY <1>t, <1>18 DEF Grant, AccountsTypeOK, StoreRefreshToken
  <2>3. /\ [Idle EXCEPT !.op = "me", !.pc = "look"] \in Slots
        /\ slot' = [slot EXCEPT ![c] = [Idle EXCEPT !.op = "me", !.pc = "look"]]
    BY <1>18, IdleIsASlot DEF Grant, Slots, Points
  <2>4. Moves(c) /\ SlotIsSound(slot[c])'
    BY <2>3, <1>t, IdleIsASlot DEF Moves, Slots, SlotIsSound
  <2>5. AccountsTypeOK'
    BY <2>1, <2>2, <2>4, <1>t, <1>18 DEF Grant, AccountsTypeOK, Moves
  <2>6. StoresAreSound'
    BY <2>1, <2>2, <1>t, <1>18 DEF Grant, StoresAreSound, LockIsEarned, CountsAreReal, EnabledIsProved,
         RotatedOnce, HeirsAreIssued, AnsweredAreGone, AccountsTypeOK
  <2>7. SlotsAreSound'
    BY <2>4, <1>t, <1>18, SlotsFrame DEF Grant
  <2> QED
    BY <2>5, <2>6, <2>7 DEF AccountInv
<1>19. CASE Refresh(c)
  <2>1. PICK t, n \in Tokens : RotateRefreshToken(t, n)
    BY <1>19 DEF Refresh
  <2>2. /\ refresh' \in [Tokens -> {"unissued", "live", "spent"}]
        /\ parent' \in [Tokens -> Tokens \cup {None}]
    BY <2>1, <1>t DEF RotateRefreshToken, AccountsTypeOK
  <2>3. RotatedOnce' /\ HeirsAreIssued'
    <3>1. /\ parent[n] = None /\ parent'[n] = t /\ n # t /\ t # None
          /\ \A u \in Tokens \ {n} : parent'[u] = parent[u]
          /\ refresh'[t] = "spent" /\ refresh'[n] = "live" /\ refresh[t] = "live"
          /\ \A u \in Tokens \ {t, n} : refresh'[u] = refresh[u]
      BY <2>1, <1>t DEF RotateRefreshToken, AccountsTypeOK, StoresAreSound, HeirsAreIssued
    <3>2. \A u \in Tokens : parent[u] # None => parent[u] \in Tokens \ {t, n}
      BY <2>1, <3>1, <1>t DEF RotateRefreshToken, AccountsTypeOK, StoresAreSound, RotatedOnce
    <3>3. RotatedOnce
      BY <1>t DEF StoresAreSound
    <3>4. ASSUME NEW u \in Tokens, parent'[u] # None
          PROVE  refresh'[parent'[u]] = "spent" /\ \A w \in Tokens : parent'[w] = parent'[u] => w = u
      BY <3>1, <3>2, <3>3, <3>4 DEF RotatedOnce
    <3>5. HeirsAreIssued'
      BY <3>1, <1>t DEF StoresAreSound, HeirsAreIssued
    <3> QED
      BY <3>4, <3>5 DEF RotatedOnce
  <2>4. /\ [Idle EXCEPT !.op = "refresh", !.pc = "look"] \in Slots
        /\ slot' = [slot EXCEPT ![c] = [Idle EXCEPT !.op = "refresh", !.pc = "look"]]
    BY <1>19, IdleIsASlot DEF Refresh, Slots, Points
  <2>5. Moves(c) /\ SlotIsSound(slot[c])'
    BY <2>4, <1>t, IdleIsASlot DEF Moves, Slots, SlotIsSound
  <2>6. AccountsTypeOK'
    BY <2>2, <2>5, <1>t, <1>19 DEF Refresh, AccountsTypeOK, Moves
  <2>7. StoresAreSound'
    BY <2>3, <1>t, <1>19 DEF Refresh, StoresAreSound, LockIsEarned, CountsAreReal, EnabledIsProved,
         AnsweredAreGone
  <2>8. SlotsAreSound'
    BY <2>5, <1>t, <1>19, SlotsFrame DEF Refresh
  <2> QED
    BY <2>6, <2>7, <2>8 DEF AccountInv
<1> QED
  BY <1>1, <1>2, <1>3, <1>4, <1>5, <1>6, <1>7, <1>8, <1>9, <1>10, <1>11, <1>12, <1>13, <1>14,
     <1>15, <1>16, <1>17, <1>18, <1>19, <1>20, <1>21 DEF ServeAccount

(* So do the copy that expires and the time that passes.                    *)
LEMMA ElseStep ==
  ASSUME AccountInv, DropCopy \/ TimePasses \/ UNCHANGED accountsVars
  PROVE  AccountInv'
<1> USE AccountsAssumption DEF AccountsAssumption
<1>1. /\ AccountsTypeOK /\ StoresAreSound /\ SlotsAreSound
  BY DEF AccountInv
<1>2. /\ UNCHANGED <<shown, refresh, slot, history>> /\ cache' \in {None, cache}
  BY DEF DropCopy, TimePasses, accountsVars, history
<1>3. /\ row' \in Rows /\ row'.attempts = row.attempts /\ row'.enabled = row.enabled /\ row'.secret = row.secret
      /\ row'.locked => row.locked
  BY <1>1 DEF AccountsTypeOK, DropCopy, TimePasses, accountsVars, Rows
<1>4. /\ challenge' \in [Challenges -> {"unissued", "live", "gone"}]
      /\ \A h \in Challenges : challenge[h] = "gone" => challenge'[h] = "gone"
  BY <1>1 DEF AccountsTypeOK, DropCopy, TimePasses, accountsVars
<1>5. AccountsTypeOK'
  BY <1>1, <1>2, <1>3, <1>4 DEF AccountsTypeOK, history
<1>6. StoresAreSound'
  BY <1>1, <1>2, <1>3, <1>4 DEF StoresAreSound, LockIsEarned, CountsAreReal, EnabledIsProved,
     RotatedOnce, HeirsAreIssued, AnsweredAreGone, history, AccountsTypeOK
<1>7. SlotsAreSound'
  BY <1>1, <1>2, <1>4 DEF SlotsAreSound, SlotIsSound, history
<1> QED
  BY <1>5, <1>6, <1>7 DEF AccountInv

(* A row without failures and without a second factor.                      *)
LEMMA AccountInitially == AccountsInit => AccountInv
<1> SUFFICES ASSUME AccountsInit PROVE AccountInv
  OBVIOUS
<1> USE AccountsAssumption DEF AccountsAssumption, AccountsInit
<1>1. AccountsTypeOK
  <2>1. row \in Rows
    BY DEF Rows
  <2>2. refresh \in [Tokens -> {"unissued", "live", "spent"}]
    OBVIOUS
  <2>3. slot \in [Calls -> Slots]
    BY IdleIsASlot
  <2> QED
    BY <2>1, <2>2, <2>3 DEF AccountsTypeOK
<1>2. StoresAreSound
  BY DEF StoresAreSound, LockIsEarned, CountsAreReal, EnabledIsProved, RotatedOnce, HeirsAreIssued, AnsweredAreGone
<1>3. SlotsAreSound
  BY IdleIsASlot DEF SlotsAreSound, SlotIsSound
<1> QED
  BY <1>1, <1>2, <1>3 DEF AccountInv

(* The invariant holds in every behaviour.                                  *)
LEMMA AccountInvariant == AccountsSpec => []AccountInv
<1>1. AccountInv /\ [AccountsNext]_accountsVars => AccountInv'
  BY AccountStep, ElseStep DEF AccountsNext
<1> QED
  BY <1>1, AccountInitially, PTL DEF AccountsSpec

(* However the calls of an account interleave between any two accesses, a  *)
(* lock rests on a count that once came to the threshold, a second factor  *)
(* that is on has what a code was checked against (the empty secret, if    *)
(* that was loaded), a challenge is answered and a refresh token exchanged *)
(* once: IncrementFailedLogin, LockAccount, VerifyMFA, and the scripts     *)
(* that consume what they find.                                            *)
THEOREM AccountHoldsAlways == AccountsSpec => []AccountHolds
<1>1. AccountInv => AccountHolds
  BY DEF AccountInv, StoresAreSound, SlotsAreSound, SlotIsSound, AccountHolds, StaleIsHarmless, SessionsAreSingle,
     NoLateGrant
<1> QED
  BY <1>1, AccountInvariant, PTL
=============================================================================
