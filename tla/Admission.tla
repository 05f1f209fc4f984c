------------------------------ MODULE Admission ------------------------------
(***************************************************************************)
(* What stands in front of every handler (BuildApp of core/wiring): the    *)
(* flood detector, the sliding windows in Redis, and the access token with *)
(* the blacklist that a logout writes.  The requests come from one address *)
(* with one token and a body.  Time is counted in ticks, up to a bound.    *)
(***************************************************************************)
EXTENDS Integers, FiniteSets

CONSTANTS
  Visits,
  OfAuth,            \* those to /auth, which pass a second limiter
  Bearing, Leaving,  \* those that need the access token, and the logouts among them
  Window, GlobalMax, AuthMax,  \* a minute; 60 and 5 in it
  FloodSpan, FloodMax,         \* ten seconds; 50 in them
  TokenEnds,         \* when the token expires
  LastTick           \* bound on the time

ASSUME AdmissionAssumption ==
  /\ Leaving \subseteq OfAuth \cap Bearing /\ OfAuth \cup Bearing \subseteq Visits
  /\ {Window, GlobalMax, AuthMax, FloodSpan, TokenEnds} \subseteq Nat \ {0}
  /\ FloodMax \in Nat /\ LastTick \in Nat

VARIABLES
  now,
  seen,      \* requestCounts of the detector: requests and the times it keeps
  window,    \* of each limiter, the sorted set in Redis: requests and their stamps
  expiry,    \* of each, when Redis drops the whole set
  listed,    \* until when bl:<token id> is there
  visit,     \* where each request is
  stamp,     \* the time that it has read from the clock, as long as it needs it
  (* History *)
  passed,    \* of each limiter, the requests it let through, and their stamps
  latest,    \* of each limiter, the latest stamp of a script
  strained,  \* limiters of which a script ran out of order, or long after its stamp
  after      \* the requests that began once a logout was answered

admissionVars == <<now, seen, window, expiry, listed, visit, stamp, passed, latest, strained, after>>
past == <<passed, latest, strained, after>>

Limiters == {"global", "auth"}
GlobalLimit == GlobalMax
AuthLimit == AuthMax
LimitOf(l) == IF l = "global" THEN GlobalLimit ELSE AuthLimit
Counts(l) == IF l = "global" THEN "globalCount" ELSE "authCount"

AdmissionInit ==
  /\ now = 0 /\ seen = {} /\ listed = 0
  /\ window = [l \in Limiters |-> {}] /\ expiry = [l \in Limiters |-> 0]
  /\ visit = [v \in Visits |-> "none"] /\ stamp = [v \in Visits |-> 0]
  /\ passed = [l \in Limiters |-> {}] /\ latest = [l \in Limiters |-> 0] /\ strained = {} /\ after = {}

VisitGoto(v, l) == visit' = [visit EXCEPT ![v] = l]
ReadClock(v) == stamp' = [stamp EXCEPT ![v] = now]
Forget(v) == stamp' = [stamp EXCEPT ![v] = 0]
LoggedOut == \E d \in Leaving : visit[d] = "left"

-----------------------------------------------------------------------------
(* The detector, in memory: it keeps and counts the last ten seconds, and  *)
(* refuses what looks bad as well as what is too much.                     *)
Recent == {x \in seen : now - x[2] < FloodSpan}
AnalyzePayload(v) ==
  \/ /\ Cardinality(Recent) <= FloodMax
     /\ VisitGoto(v, "global") /\ seen' = Recent \cup {<<v, now>>}
  \/ VisitGoto(v, "refused") /\ UNCHANGED seen

(* It is asked before anybody knows who the user is, so the requests of    *)
(* all are counted together.                                               *)
AnomalyDetectorMiddleware(v) ==
  /\ visit[v] = "none"
  /\ AnalyzePayload(v)
  /\ after' = IF LoggedOut THEN after \cup {v} ELSE after
  /\ UNCHANGED <<now, window, expiry, listed, stamp, passed, latest, strained>>

-----------------------------------------------------------------------------
(* RateLimit: the clock is read, and then the script is sent               *)

TakeTime(v) ==
  /\ visit[v] \in Limiters
  /\ ReadClock(v) /\ VisitGoto(v, Counts(visit[v]))
  /\ UNCHANGED <<now, seen, window, expiry, listed, past>>

(* Mutant: a request is forgotten a tick too soon.                         *)
KeptTooShort(l, t) == {x \in window[l] : now < expiry[l] /\ x[2] > t - Window + 1}

(* ZREMRANGEBYSCORE key 0 t-window, of a set that may have expired.        *)
Kept(l, t) == {x \in window[l] : now < expiry[l] /\ x[2] > t - Window}

AfterLimiter(v, l) ==
  IF l = "global" /\ v \in OfAuth THEN "auth" ELSE IF v \in Bearing THEN "token" ELSE "served"

(* The set outlives its window by a second.                                *)
Slack == 1
Strains(l, t) == t < latest[l] \/ now > t + Slack

SlidingWindow(v, l) ==
  LET t == stamp[v]
      kept == Kept(l, t)
  IN  /\ visit[v] = Counts(l)
      /\ IF Cardinality(kept) < LimitOf(l)
         THEN /\ window' = [window EXCEPT ![l] = kept \cup {<<v, t>>}]
              /\ expiry' = [expiry EXCEPT ![l] = now + Window + Slack]
              /\ passed' = [passed EXCEPT ![l] = @ \cup {<<v, t>>}]
              /\ VisitGoto(v, AfterLimiter(v, l))
         ELSE /\ window' = [window EXCEPT ![l] = kept] /\ VisitGoto(v, "refused")
              /\ UNCHANGED <<expiry, passed>>
      /\ latest' = [latest EXCEPT ![l] = IF t > @ THEN t ELSE @]
      /\ strained' = IF Strains(l, t) THEN strained \cup {l} ELSE strained
      /\ Forget(v) /\ UNCHANGED <<now, seen, listed, after>>

-----------------------------------------------------------------------------
(* The access token                                                        *)

ValidateToken(v) ==
  /\ visit[v] = "token"
  /\ VisitGoto(v, IF now < TokenEnds THEN "blacklist" ELSE "refused")
  /\ UNCHANGED <<now, seen, window, expiry, listed, stamp, past>>

CheckTokenBlacklist(v) ==
  /\ visit[v] = "blacklist"
  /\ VisitGoto(v, IF now < listed THEN "refused" ELSE IF v \in Leaving THEN "logout" ELSE "served")
  /\ UNCHANGED <<now, seen, window, expiry, listed, stamp, past>>

(* Logout: what is left of the token's time, by the clock of the process.  *)
Logout(v) ==
  /\ visit[v] = "logout" /\ IF now < TokenEnds THEN ReadClock(v) ELSE UNCHANGED stamp
  /\ VisitGoto(v, IF now < TokenEnds THEN "list" ELSE "left")
  /\ UNCHANGED <<now, seen, window, expiry, listed, past>>

(* Mutant: the entry stays for a tick.                                     *)
ForATick(v) == 1

Remaining(v) == TokenEnds - stamp[v]

BlacklistToken(v) ==
  /\ visit[v] = "list" /\ VisitGoto(v, "left")
  /\ listed' = now + Remaining(v)
  /\ Forget(v) /\ UNCHANGED <<now, seen, window, expiry, past>>

(* Redis does not answer: every check refuses then.                        *)
Unavailable(v) ==
  /\ visit[v] \in {"globalCount", "authCount", "blacklist", "list"} /\ VisitGoto(v, "refused")
  /\ Forget(v) /\ UNCHANGED <<now, seen, window, expiry, listed, past>>

Tick ==
  /\ now < LastTick /\ now' = now + 1
  /\ UNCHANGED <<seen, window, expiry, listed, visit, stamp, past>>

AdmissionNext ==
  \/ \E v \in Visits :
       \/ AnomalyDetectorMiddleware(v) \/ TakeTime(v) \/ \E l \in Limiters : SlidingWindow(v, l)
       \/ ValidateToken(v) \/ CheckTokenBlacklist(v) \/ Logout(v) \/ BlacklistToken(v)
       \/ Unavailable(v)
  \/ Tick

-----------------------------------------------------------------------------
(* Correctness                                                             *)

(* Wherever a window is laid, no more requests than the limit have passed  *)
(* in it, as long as the scripts run soon and in the order of the clock.   *)
(* (A later one prunes what a late script, with its early stamp, has yet   *)
(* to count.)                                                              *)
LimitHolds ==
  \A l \in Limiters \ strained : \A t \in 0..LastTick :
    Cardinality({x \in passed[l] : t - Window < x[2] /\ x[2] <= t}) <= LimitOf(l)

(* Once a logout was answered, the token opens nothing to a request that   *)
(* begins later.  (One that finds the token valid just before it expires   *)
(* may be served when both the token and its entry are gone.)              *)
LoggedOutStaysOut ==
  [][\A v \in after \cap Bearing :
       visit[v] = "blacklist" /\ visit'[v] \in {"served", "logout"} => now >= TokenEnds]_admissionVars
=============================================================================
