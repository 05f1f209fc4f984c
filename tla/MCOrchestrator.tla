--------------------------- MODULE MCOrchestrator ---------------------------
(***************************************************************************)
(* Two pools, the realtime one with two goroutines, and four tasks, one of *)
(* them a dispatcher's.  A queue of one makes Submit meet a full queue.    *)
(***************************************************************************)
EXTENDS Orchestrator, TLC

CONSTANTS realtime, background, w1, w2, w3, t1, t2, t3, t4

MCStopOrder == <<realtime, background>>
MCWorksFor == (w1 :> realtime) @@ (w2 :> realtime) @@ (w3 :> background)
MCPoolOf == [t \in {t1, t2} |-> realtime] @@ [t \in {t3, t4} |-> background]
=============================================================================
