----------------------------- MODULE Progression -----------------------------
(***************************************************************************)
(* backend/internal/modules/growth: the experience, streak and quests of   *)
(* one user.  Every call is a transaction at READ COMMITTED; the locks it  *)
(* takes, and the order in which it takes them, are those of its           *)
(* statements.  What it writes is under its locks, and is applied here     *)
(* when it commits.                                                        *)
(*                                                                         *)
(* Left out: level and reputation, functions of what is here; energy, which*)
(* is 100 at all times; and the rows of quests without progress.           *)
(***************************************************************************)
EXTENDS Integers, FiniteSets, FiniteSetsExt, Functions

CONSTANTS
  Events, KeyOf,   \* the calls of RecordEvent; source_id of each
  ActionOf,        \* ... and its action
  Claims, QuestOf, \* the calls of ClaimQuest
  Quests,          \* records: action, target, reward, cadence
  Achievements,    \* records: metric, an action or "streak", and threshold
  Awards,          \* what an event is worth with its multiplier and bonus
  MaxDay,          \* bound: the days of a week that pass; the first is Monday
  MaxShields,      \* bound: the uses of ClaimStreakShield
  Errors,          \* connections and requests may end in the middle of a call
  Free, Reader

Calls == Events \cup Claims
Days == 1..MaxDay
Monday == 1
Never == 0

ASSUME ProgressionAssumption ==
  /\ IsFiniteSet(Calls) /\ Events \cap Claims = {} /\ Free # Reader /\ {Free, Reader} \cap Calls = {}
  /\ IsFiniteSet(Quests) /\ QuestOf \in [Claims -> Quests]
  /\ \A q \in Quests : q.target \in Nat \ {0} /\ q.reward \in Nat /\ q.cadence \in {"daily", "weekly"}
  /\ Awards \subseteq Nat /\ MaxDay \in 1..7 /\ MaxShields \in Nat
  /\ Errors \in BOOLEAN

VARIABLES
  day,       \* today
  profile,   \* xp, streak, last (last_activity_date), shields, boosted
  recorded,  \* progression_events: records key, action, xp, on (the day)
  season,    \* progression_season_scores.xp
  progress,  \* progression_user_quests, by quest and period_start
  claimed,
  seasonLock, profileLock, questLock, \* the call that holds each row
  seen,      \* what each call read of the profile
  pc,        \* how far each call is
  began,     \* CURRENT_DATE of its transaction, Never outside one
  computed,  \* the day of its time.Now()
  rewards,   \* the quests' rewards paid so far
  look,      \* a GetProfile: what it has read, and (history) what was paid by then
  told       \* what ClaimStreakShield and ActivateBoost have answered

stored == <<profile, recorded, season, progress, claimed, rewards>>
locks == <<seasonLock, profileLock, questLock, seen>>
call == <<pc, began, computed>>
vars == <<day, stored, locks, call, look, told>>

(* The rows that a call may find: period_start IN (today, the Monday).     *)
Periods(d) == {d, Monday}
Period(q, d) == IF q.cadence = "daily" THEN d ELSE Monday

NewProfile == [xp |-> 0, streak |-> 0, last |-> Never, shields |-> 1, boosted |-> FALSE]

Unread == [xp |-> -1, paid |-> 0]

Init ==
  /\ day = 1 /\ look = Unread
  /\ profile = NewProfile /\ seen = [r \in Calls |-> NewProfile]
  /\ recorded = {} /\ season = 0 /\ rewards = [q \in Quests |-> [d \in Days |-> 0]]
  /\ progress = [q \in Quests |-> [d \in Days |-> 0]]
  /\ claimed = [q \in Quests |-> [d \in Days |-> FALSE]]
  /\ seasonLock = Free /\ profileLock = Free
  /\ questLock = [q \in Quests |-> [d \in Days |-> Free]]
  /\ pc = [r \in Calls |-> "idle"]
  /\ began = [r \in Calls |-> Never] /\ computed = [r \in Calls |-> Never]
  /\ told = [shields |-> 0, boost |-> FALSE]

Goto(r, l) == pc' = [pc EXCEPT ![r] = l]

(* COMMIT or ROLLBACK, and what the client is told.                        *)
End(r, l) ==
  /\ Goto(r, l)
  /\ began' = [began EXCEPT ![r] = Never] /\ computed' = [computed EXCEPT ![r] = Never]
  /\ seasonLock' = IF seasonLock = r THEN Free ELSE seasonLock
  /\ profileLock' = IF profileLock = r THEN Free ELSE profileLock
  /\ questLock' = [q \in Quests |-> [d \in Days |->
       IF questLock[q][d] = r THEN Free ELSE questLock[q][d]]]
  /\ seen' = [seen EXCEPT ![r] = NewProfile]

(* ROLLBACK, after any error.                                              *)
Rollback(r) ==
  /\ End(r, "failed")
  /\ UNCHANGED <<day, stored, look, told>>

-----------------------------------------------------------------------------
(* RecordEvent                                                             *)

Begin(e) ==
  /\ pc[e] \in {"idle", "failed"} /\ Goto(e, "season")
  /\ began' = [began EXCEPT ![e] = day]
  /\ UNCHANGED <<day, stored, locks, computed, look, told>>

(* The upsert of ensureSeason keeps the row until the end.                 *)
LockSeason(e) ==
  /\ pc[e] = "season" /\ seasonLock = Free
  /\ seasonLock' = e /\ Goto(e, "insert")
  /\ UNCHANGED <<day, stored, profileLock, questLock, seen, began, computed, look, told>>

(* ON CONFLICT (user_id, action, source_id) DO NOTHING                     *)
Known(e) == \E r \in recorded : r.key = KeyOf[e] /\ r.action = ActionOf[e]

Insert(e) ==
  /\ pc[e] = "insert" /\ ~Known(e) /\ Goto(e, "profile")
  /\ UNCHANGED <<day, stored, locks, began, computed, look, told>>

(* Mutant: a return that leaves the transaction open.                      *)
ReturnOpen(e) ==
  /\ pc[e] = "insert" /\ Known(e) /\ Goto(e, "done")
  /\ UNCHANGED <<day, stored, locks, began, computed, look, told>>

InsertNothing(e) ==
  /\ pc[e] = "insert" /\ Known(e) /\ End(e, "done")
  /\ UNCHANGED <<day, stored, look, told>>

(* SELECT ... FOR UPDATE; then now := time.Now().                          *)
LockProfile(e) ==
  /\ pc[e] = "profile" /\ profileLock = Free
  /\ profileLock' = e /\ seen' = [seen EXCEPT ![e] = profile] /\ Goto(e, "quests")
  /\ computed' = [computed EXCEPT ![e] = day]
  /\ UNCHANGED <<day, stored, seasonLock, questLock, began, look, told>>

Rows(e) == {q \in Quests : q.action = ActionOf[e]} \X Periods(began[e])

LockQuests(e) ==
  /\ pc[e] = "quests" /\ \A x \in Rows(e) : questLock[x[1]][x[2]] = Free
  /\ questLock' = [q \in Quests |-> [d \in Days |->
       IF <<q, d>> \in Rows(e) THEN e ELSE questLock[q][d]]]
  /\ Goto(e, "finish")
  /\ UNCHANGED <<day, stored, seasonLock, profileLock, seen, began, computed, look, told>>

Streak(e) ==
  LET gap == computed[e] - seen[e].last
  IN  IF seen[e].last # Never /\ gap <= 1 THEN seen[e].streak + gap ELSE 1

(* The achievements that the event, already inserted, unlocks.             *)
Unlocks(e) ==
  \E a \in Achievements :
    \/ /\ a.metric = ActionOf[e]
       /\ Cardinality({r \in recorded : r.action = a.metric}) + 1 >= a.threshold
    \/ a.metric = "streak" /\ Streak(e) >= a.threshold

(* unlockAchievements writes while its rows are open, which the connection *)
(* refuses: an event that unlocks anything ends here.                      *)
Refused(e) == pc[e] = "finish" /\ Unlocks(e) /\ Rollback(e)

(* An insertion where none was, so that DO NOTHING leaves a row to update. *)
Progressed(e) ==
  [q \in Quests |-> [d \in Days |->
     IF <<q, d>> \in Rows(e) /\ (d = Period(q, began[e]) \/ progress[q][d] > 0)
     THEN Min({q.target, progress[q][d] + 1}) ELSE progress[q][d]]]

(* The connection may break after the commit and before its answer.        *)
Answers == IF Errors THEN {"done", "failed"} ELSE {"done"}

Commit(e) ==
  /\ pc[e] = "finish" /\ ~Unlocks(e)
  /\ \E xp \in Awards :
       /\ profile' = [profile EXCEPT !.xp = seen[e].xp + xp, !.streak = Streak(e), !.last = began[e]]
       /\ recorded' = recorded \cup
            {[key |-> KeyOf[e], action |-> ActionOf[e], xp |-> xp, on |-> {began[e], computed[e]}]}
       /\ season' = season + xp
  /\ progress' = Progressed(e)
  /\ \E answer \in Answers : End(e, answer)
  /\ UNCHANGED <<day, claimed, rewards, look, told>>

RecordEvent(e) ==
  \/ LockSeason(e) \/ Insert(e) \/ InsertNothing(e) \/ LockProfile(e) \/ LockQuests(e)
  \/ Refused(e) \/ Commit(e)

-----------------------------------------------------------------------------
(* ClaimQuest                                                              *)

Row(c) == Period(QuestOf[c], began[c])

(* One statement reads the progress and whether it was claimed.            *)
Read(c) ==
  /\ pc[c] = "idle"
  /\ LET q == QuestOf[c]
         d == Period(q, day)
     IN  IF progress[q][d] >= q.target /\ ~claimed[q][d]
         THEN Goto(c, "row") /\ began' = [began EXCEPT ![c] = day]
         ELSE Goto(c, "failed") /\ UNCHANGED began
  /\ UNCHANGED <<day, stored, locks, computed, look, told>>

(* The upsert waits for the row and does not look at it again.             *)
LockRow(c) ==
  /\ pc[c] = "row" /\ questLock[QuestOf[c]][Row(c)] = Free
  /\ questLock' = [questLock EXCEPT ![QuestOf[c]][Row(c)] = c] /\ Goto(c, "profile")
  /\ UNCHANGED <<day, stored, seasonLock, profileLock, seen, began, computed, look, told>>

(* Mutant: SELECT without FOR UPDATE.                                      *)
ClaimReadsProfile(c) ==
  /\ pc[c] = "profile"
  /\ seen' = [seen EXCEPT ![c] = profile] /\ Goto(c, "pay")
  /\ UNCHANGED <<day, stored, seasonLock, profileLock, questLock, began, computed, look, told>>

ClaimLocksProfile(c) ==
  /\ pc[c] = "profile" /\ profileLock = Free
  /\ profileLock' = c /\ seen' = [seen EXCEPT ![c] = profile] /\ Goto(c, "pay")
  /\ UNCHANGED <<day, stored, seasonLock, questLock, began, computed, look, told>>

Pay(c) ==
  LET q == QuestOf[c]
  IN  /\ pc[c] = "pay"
      /\ claimed' = [claimed EXCEPT ![q][Row(c)] = TRUE]
      /\ rewards' = [rewards EXCEPT ![q][Row(c)] = @ + 1]
      /\ profile' = [profile EXCEPT !.xp = seen[c].xp + q.reward]
      /\ \E answer \in Answers : End(c, answer)
      /\ UNCHANGED <<day, recorded, season, progress, look, told>>

ClaimQuest(c) == LockRow(c) \/ ClaimLocksProfile(c) \/ Pay(c)

-----------------------------------------------------------------------------
(* ClaimStreakShield and ActivateBoost: profileForTx reads what the        *)
(* transaction wrote, and nobody commits it.                               *)

ClaimStreakShield ==
  /\ profileLock = Free /\ profile.shields > 0 /\ told.shields < MaxShields
  /\ profile.last # Never /\ profile.last < day /\ day - profile.last <= 2
  /\ told' = [told EXCEPT !.shields = @ + 1]
  /\ UNCHANGED <<day, stored, locks, call, look>>

ActivateBoost ==
  /\ profileLock = Free /\ ~profile.boosted
  /\ told' = [told EXCEPT !.boost = TRUE]
  /\ UNCHANGED <<day, stored, locks, call, look>>

-----------------------------------------------------------------------------
(* GetProfile                                                              *)

Paid ==
  LET xp == [x \in Quests \X Days |-> x[1].reward * rewards[x[1]][x[2]]]
  IN  SumFunctionOnSet(xp, Quests \X Days)

(* The upsert of ensureSeason keeps the row, for a reader as well.         *)
EnsureSeason ==
  /\ seasonLock = Free /\ seasonLock' = Reader /\ look' = Unread
  /\ UNCHANGED <<day, stored, profileLock, questLock, seen, call, told>>

(* One statement reads the profile, the next ones the season ...           *)
ReadProfile ==
  /\ seasonLock = Reader /\ look = Unread
  /\ look' = [xp |-> profile.xp, paid |-> Paid]
  /\ UNCHANGED <<day, stored, locks, call, told>>

(* ... and the transaction ends, as it does after any error.               *)
ProfileShown ==
  /\ seasonLock = Reader /\ seasonLock' = Free /\ look' = Unread
  /\ UNCHANGED <<day, stored, profileLock, questLock, seen, call, told>>

GetProfile == EnsureSeason \/ ReadProfile \/ ProfileShown

-----------------------------------------------------------------------------
(* PostgreSQL finds two calls that wait for each other and aborts one.     *)
WaitsFor(r, s) ==
  \/ r \in Events /\ pc[r] = "quests" /\ \E x \in Rows(r) : questLock[x[1]][x[2]] = s
  \/ pc[r] = "profile" /\ profileLock = s
  \/ r \in Claims /\ pc[r] = "row" /\ questLock[QuestOf[r]][Row(r)] = s
  \/ pc[r] = "season" /\ seasonLock = s

DetectDeadlock == \E r, s \in Calls : WaitsFor(r, s) /\ WaitsFor(s, r) /\ Rollback(r)

Fail(r) == Errors /\ pc[r] \notin {"idle", "failed", "done"} /\ Rollback(r)

Midnight == day < MaxDay /\ day' = day + 1 /\ UNCHANGED <<stored, locks, call, look, told>>

Done == (\A r \in Calls : pc[r] \in {"idle", "failed", "done"}) /\ UNCHANGED vars

Next ==
  \/ \E e \in Events : Begin(e) \/ RecordEvent(e)
  \/ \E c \in Claims : Read(c) \/ ClaimQuest(c)
  \/ ClaimStreakShield \/ ActivateBoost \/ GetProfile
  \/ \E r \in Calls : Fail(r)
  \/ DetectDeadlock \/ Midnight \/ Done

Spec == Init /\ [][Next]_vars

(* A transaction goes on, deadlocks are found, and a row that becomes free *)
(* goes to those that wait for it in turn.                                 *)
FairSpec ==
  /\ Spec /\ WF_vars(DetectDeadlock)
  /\ WF_vars(ProfileShown)
  /\ \A e \in Events : SF_vars(RecordEvent(e))
  /\ \A c \in Claims : SF_vars(ClaimQuest(c))

-----------------------------------------------------------------------------
(* Correctness                                                             *)

(* The experience is what the events and the rewards paid add up to, in    *)
(* the profile and in the season: no concurrent call overwrites another.   *)
XpIsExplained ==
  /\ season = SumFunctionOnSet([r \in recorded |-> r.xp], recorded)
  /\ profile.xp = season + Paid

(* The events a quest of a period may count.  A daily quest counts those   *)
(* of its day, except on Monday, whose row has the period_start of the     *)
(* week and goes on counting like a weekly one.                            *)
Counted(q, d) ==
  {r \in recorded :
     /\ r.action = q.action
     /\ IF q.cadence = "daily" /\ d # Monday THEN d \in r.on ELSE Max(r.on) >= d}

(* Quests count each event once, however often it is sent, and a reward    *)
(* was paid only for a quest that had reached its target.                  *)
ProgressIsEarned ==
  \A q \in Quests, d \in Days :
    /\ progress[q][d] <= Cardinality(Counted(q, d))
    /\ rewards[q][d] > 0 => progress[q][d] = q.target

(* Calls that wait for each other's rows do not wait for ever.             *)
CallsEnd == \A r \in Calls : pc[r] \notin {"idle", "failed", "done"} ~> pc[r] \in {"failed", "done"}

(* A quest is claimed once.                                                *)
ClaimedOnce == \A q \in Quests, d \in Days : rewards[q][d] <= 1

(* A streak of n days is n days with an event.  An event that began before *)
(* midnight and was computed after it adds the day that the next event     *)
(* adds again: nothing else stretches a streak.                            *)
AcrossMidnight == {r \in recorded : Cardinality(r.on) > 1}
StreakIsEarned ==
  profile.streak <= Cardinality(UNION {r.on : r \in recorded}) + Cardinality(AcrossMidnight)

(* A profile that is shown has the season's share of its experience: the   *)
(* two are read one after the other, and what an event adds to both does   *)
(* not come between.                                                       *)
ProfileAgrees == look # Unread => look.xp = season + look.paid

(* Whatever is retried, interleaved or answered with a failure, what the   *)
(* rows of a user hold was earned.                                         *)
AllIsEarned == XpIsExplained /\ ProgressIsEarned /\ StreakIsEarned /\ ProfileAgrees
=============================================================================
