--------------------------------- MODULE Gate ---------------------------------
(***************************************************************************)
(* What a request passes behind the limiters: who it comes from (Sessions) *)
(* and whether it has come before (Idempotency).  They share no state, so  *)
(* a behaviour follows one of them.  One that follows the deliveries has   *)
(* all the faults, or none.                                                *)
(***************************************************************************)
EXTENDS Idempotency, Sessions

VARIABLE mode   \* what is followed: deliveries with faults or without, or sessions
Serial == INSTANCE Idempotency WITH Faults <- {}

GateInit ==
  /\ Init /\ SessionsInit /\ mode \in {"faults", "serial", "sessions"}
  /\ audited => mode = "sessions"

Faulty == mode = "faults" /\ Next /\ UNCHANGED <<sessionsVars, mode>>
Faultless == mode = "serial" /\ Serial!Next /\ UNCHANGED <<sessionsVars, mode>>
Identified == mode = "sessions" /\ SessionsNext /\ UNCHANGED <<vars, mode>>

GateNext == Faulty \/ Faultless \/ Identified

GateSpec ==
  /\ GateInit /\ [][GateNext]_<<vars, sessionsVars, mode>>
  /\ \A r \in Reqs : WF_vars(Serve(r) /\ UNCHANGED <<sessionsVars, mode>>)
  /\ \A k \in Resources : WF_vars(LockExpires(k) /\ UNCHANGED <<sessionsVars, mode>>)

(* Deliveries that overlap, and nothing else going wrong.                  *)
OverlapSpec == GateInit /\ mode = "faults" /\ ~audited /\ [][Faulty]_<<vars, sessionsVars, mode>>

-----------------------------------------------------------------------------
(* For a client that sends again only once the delivery before has ended,  *)
(* with Redis up and handlers that answer what they did, a key takes       *)
(* effect once, and for one body.                                          *)
SerialIsOnce == mode = "serial" => AtMostOneEffect /\ OneBodyPerKey
===============================================================================
