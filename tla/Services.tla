------------------------------- MODULE Services -------------------------------
(***************************************************************************)
(* Components that share no state: a behaviour follows one of them while   *)
(* the others stay as they were at first (of the two starts of a component *)
(* that is not followed, one), so that what holds here of all behaviours   *)
(* holds of each component alone.                                          *)
(***************************************************************************)
EXTENDS CircuitBreaker, Market, Community, Lifecycle, Developer, Admission, Personal

VARIABLE part   \* the component that is followed

servicesVars == <<breakerVars, marketVars, communityVars, lifecycleVars, devVars, admissionVars, personalVars, part>>

ServicesInit ==
  /\ BreakerInit /\ MarketInit /\ CommunityInit /\ LifecycleInit /\ DeveloperInit /\ AdmissionInit
  /\ PersonalInit
  /\ part \in {"breaker", "market", "community", "lifecycle", "developer", "admission", "personal"}
  /\ linked \/ part = "personal"

BreakerPart ==
  /\ part = "breaker" /\ BreakerNext
  /\ UNCHANGED <<marketVars, communityVars, lifecycleVars, devVars, admissionVars, personalVars, part>>
MarketPart ==
  /\ part = "market" /\ MarketNext
  /\ UNCHANGED <<breakerVars, communityVars, lifecycleVars, devVars, admissionVars, personalVars, part>>
CommunityPart ==
  /\ part = "community" /\ CommunityNext
  /\ UNCHANGED <<breakerVars, marketVars, lifecycleVars, devVars, admissionVars, personalVars, part>>
LifecyclePart ==
  /\ part = "lifecycle" /\ LifecycleNext
  /\ UNCHANGED <<breakerVars, marketVars, communityVars, devVars, admissionVars, personalVars, part>>
DeveloperPart ==
  /\ part = "developer" /\ DeveloperNext
  /\ UNCHANGED <<breakerVars, marketVars, communityVars, lifecycleVars, admissionVars, personalVars, part>>
AdmissionPart ==
  /\ part = "admission" /\ AdmissionNext
  /\ UNCHANGED <<breakerVars, marketVars, communityVars, lifecycleVars, devVars, personalVars, part>>
PersonalPart ==
  /\ part = "personal" /\ PersonalNext
  /\ UNCHANGED <<breakerVars, marketVars, communityVars, lifecycleVars, devVars, admissionVars, part>>

ServicesNext ==
  BreakerPart \/ MarketPart \/ CommunityPart \/ LifecyclePart \/ DeveloperPart \/ AdmissionPart
  \/ PersonalPart

(* The fairness of each component, while it is the one that is followed.   *)
ServicesFairness ==
  /\ \A c \in Callers : SF_breakerVars(part = "breaker" /\ Execute(c))
  /\ WF_breakerVars(part = "breaker" /\ Elapse)
  /\ \A b \in Purchases : WF_marketVars(part = "market" /\ Serve(b))
  /\ WF_lifecycleVars(part = "lifecycle" /\ Ending)
  /\ \A r \in Requests :
       /\ WF_lifecycleVars(part = "lifecycle" /\ Release(r))
       /\ WF_lifecycleVars(part = "lifecycle" /\ TaskEnds(r))

ServicesSpec == ServicesInit /\ [][ServicesNext]_servicesVars /\ ServicesFairness

-----------------------------------------------------------------------------
(* What each keeps, and for whom: the parts of a developer's apps stay     *)
(* with their owners (RowsAreOwned), and what a user was told is kept is   *)
(* kept, audited, shown whole, and shown to nobody else (PersonalIsKept).  *)
KeptAndOwned == RowsAreOwned /\ PersonalIsKept
=============================================================================
