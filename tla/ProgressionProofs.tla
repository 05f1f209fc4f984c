-------------------------- MODULE ProgressionProofs --------------------------
(***************************************************************************)
(* Theorems of Progression for any events, claims, quests and awards, and  *)
(* for any number of days of a week.                                       *)
(***************************************************************************)
EXTENDS Progression, SumTheorems, TLAPS

-----------------------------------------------------------------------------
(* The inductive invariant.  What a call knows rests on the rows it holds: *)
(* the season from its first statement on, the profile from the lock on it.*)

Places == {"idle", "season", "insert", "row", "profile", "quests", "pay", "finish", "done", "failed"}

Profiles == [xp : Nat, streak : Nat, last : 0..MaxDay, shields : Nat, boosted : BOOLEAN]

EventTypes(r) == r.xp \in Nat /\ r.on \in SUBSET Days /\ r.on # {}

ProgressionTypes ==
  /\ day \in Days /\ profile \in Profiles /\ season \in Nat
  /\ IsFiniteSet(recorded) /\ \A r \in recorded : EventTypes(r)
  /\ progress \in [Quests -> [Days -> Nat]] /\ rewards \in [Quests -> [Days -> Nat]]
  /\ seasonLock \in Calls \cup {Free, Reader} /\ profileLock \in Calls \cup {Free}
  /\ seen \in [Calls -> Profiles] /\ pc \in [Calls -> Places]
  /\ began \in [Calls -> 0..MaxDay] /\ computed \in [Calls -> 0..MaxDay]

(* The days with an event.                                                 *)
Active == UNION {r.on : r \in recorded}

(* A call that records an event.                                           *)
EventInv(e) ==
  /\ pc[e] \in {"insert", "profile", "quests", "finish"} => seasonLock = e
  /\ pc[e] \in {"season", "insert", "profile", "quests", "finish"} => began[e] \in 1..day
  /\ pc[e] \in {"profile", "quests", "finish"} => ~Known(e)
  /\ pc[e] \in {"quests", "finish"} =>
       /\ profileLock = e /\ seen[e] = profile
       /\ computed[e] \in began[e]..day
       /\ \A d \in Active : d <= computed[e]

(* A call that claims a quest.                                             *)
ClaimInv(c) ==
  /\ pc[c] \in {"row", "profile", "pay"} =>
       began[c] \in Days /\ progress[QuestOf[c]][Row(c)] = QuestOf[c].target
  /\ pc[c] = "pay" => profileLock = c /\ seen[c] = profile

(* The streak is earned by the days up to the last one, as long as no event*)
(* is more than a day later: only then does the next event add to it.      *)
UpTo(d) == {a \in Active : a <= d}

StreakInv ==
  /\ \A d \in Active : d <= day
  /\ IF profile.last = Never THEN profile.streak = 0 ELSE profile.last \in Active
  /\ StreakIsEarned
  /\ (\A d \in Active : d <= profile.last + 1) =>
        profile.streak <= Cardinality(UpTo(profile.last)) + Cardinality(AcrossMidnight)

(* The progress of a quest, whose reward is paid for a full one only.      *)
QuestInv(q, d) ==
  /\ progress[q][d] <= Cardinality(Counted(q, d)) /\ progress[q][d] <= q.target
  /\ rewards[q][d] > 0 => progress[q][d] = q.target

(* A reader that has the profile has the season as well.                   *)
LookInv == look # Unread => seasonLock = Reader /\ look.xp = season + look.paid

ProgressionInv ==
  /\ ProgressionTypes /\ XpIsExplained /\ StreakInv /\ LookInv
  /\ \A e \in Events : EventInv(e)
  /\ \A c \in Claims : ClaimInv(c)
  /\ \A q \in Quests, d \in Days : QuestInv(q, d)

-----------------------------------------------------------------------------
USE ProgressionAssumption

(* The days of a week are a few numbers, of which the first is Monday.     *)
LEMMA DayFacts ==
  /\ Days \subseteq Nat /\ IsFiniteSet(Days) /\ Monday \in Days /\ MaxDay \in Nat
  /\ \A d \in Days : d \in 1..MaxDay /\ Monday <= d
  /\ Free \notin Calls /\ Reader \notin Calls /\ Free # Reader
  /\ \A r \in Calls : (r \in Events /\ r \notin Claims) \/ (r \in Claims /\ r \notin Events)
<1>1. IsFiniteSet(Days)
  BY FS_Interval DEF Days
<1> QED
  BY <1>1 DEF Days, Monday, Calls

(* The initial rows.                                                       *)
LEMMA ProgressionStarts == Init => ProgressionInv
<1> SUFFICES ASSUME Init PROVE ProgressionInv
  OBVIOUS
<1>1. ProgressionTypes
  <2>1. NewProfile \in Profiles
    BY DayFacts DEF NewProfile, Profiles, Never
  <2>2. IsFiniteSet(recorded) /\ \A r \in recorded : EventTypes(r)
    BY FS_EmptySet DEF Init
  <2>3. pc \in [Calls -> Places] /\ began \in [Calls -> 0..MaxDay] /\ computed \in [Calls -> 0..MaxDay]
    BY DayFacts DEF Init, Places, Never
  <2>4. day \in Days /\ season \in Nat /\ progress \in [Quests -> [Days -> Nat]] /\ rewards \in [Quests -> [Days -> Nat]]
    BY DayFacts DEF Init, Monday
  <2>5. profile \in Profiles /\ seen \in [Calls -> Profiles]
    BY <2>1 DEF Init
  <2>6. seasonLock \in Calls \cup {Free, Reader} /\ profileLock \in Calls \cup {Free}
    BY DEF Init
  <2> QED
    BY <2>2, <2>3, <2>4, <2>5, <2>6 DEF ProgressionTypes
<1>2. XpIsExplained
  <2> DEFINE given == [r \in recorded |-> r.xp]
             xp == [x \in Quests \X Days |-> x[1].reward * rewards[x[1]][x[2]]]
  <2>1. SumFunctionOnSet(given, recorded) = 0
    <3>1. recorded = {} /\ IsFiniteSet(recorded) /\ given \in [recorded -> Nat]
      BY <1>1 DEF Init, ProgressionTypes
    <3> HIDE DEF given
    <3> QED
      BY <3>1, SumIsNat
  <2>2. SumFunctionOnSet(xp, Quests \X Days) = 0
    <3>1. \A x \in Quests \X Days : x[1].reward * rewards[x[1]][x[2]] = 0
      <4> SUFFICES ASSUME NEW x \in Quests \X Days PROVE x[1].reward * rewards[x[1]][x[2]] = 0
        OBVIOUS
      <4>1. x[1].reward \in Nat /\ rewards[x[1]][x[2]] = 0
        BY DEF Init
      <4> QED
        BY <4>1
    <3>2. xp \in [Quests \X Days -> Nat] /\ \A x \in Quests \X Days : xp[x] = 0
      BY <3>1
    <3>3. IsFiniteSet(Quests \X Days)
      BY DayFacts, FS_Product
    <3> HIDE DEF xp
    <3> QED
      BY <3>2, <3>3, SumIsNat
  <2>3. season = 0 /\ profile.xp = 0
    BY DEF Init, NewProfile
  <2> HIDE DEF given, xp
  <2>4. Paid = SumFunctionOnSet(xp, Quests \X Days)
    BY DEF Paid, xp
  <2> QED
    BY <2>1, <2>2, <2>3, <2>4 DEF XpIsExplained, given
<1>3. StreakInv
  <2>1. Active = {} /\ AcrossMidnight = {} /\ UNION {r.on : r \in recorded} = {} /\ UpTo(profile.last) = {}
    BY DEF Init, Active, AcrossMidnight, UpTo
  <2>2. profile.last = Never /\ profile.streak = 0
    BY DEF Init, NewProfile
  <2>3. Cardinality(AcrossMidnight) = 0 /\ Cardinality(UpTo(profile.last)) = 0
        /\ Cardinality(UNION {r.on : r \in recorded}) = 0
    BY <2>1, FS_EmptySet
  <2>4. StreakIsEarned
    BY <2>2, <2>3 DEF StreakIsEarned
  <2>5. profile.streak <= Cardinality(UpTo(profile.last)) + Cardinality(AcrossMidnight)
    BY <2>2, <2>3
  <2> QED
    BY <2>1, <2>2, <2>4, <2>5 DEF StreakInv
<1>4. LookInv /\ (\A e \in Events : EventInv(e)) /\ \A c \in Claims : ClaimInv(c)
  BY DEF Init, LookInv, EventInv, ClaimInv, Calls
<1>5. ASSUME NEW q \in Quests, NEW d \in Days PROVE QuestInv(q, d)
  <2>1. progress[q][d] = 0 /\ rewards[q][d] = 0 /\ Counted(q, d) = {}
    BY <1>5 DEF Init, Counted
  <2> QED
    BY <2>1, FS_EmptySet DEF QuestInv
<1> QED
  BY <1>1, <1>2, <1>3, <1>4, <1>5 DEF ProgressionInv

-----------------------------------------------------------------------------
(* What a call that ends leaves to the others.                             *)
LEMMA EndFacts ==
  ASSUME ProgressionTypes, NEW r \in Calls, NEW l \in {"done", "failed"}, End(r, l)
  PROVE  /\ seasonLock' \in Calls \cup {Free, Reader} /\ profileLock' \in Calls \cup {Free}
         /\ pc' \in [Calls -> Places] /\ pc'[r] = l
         /\ began' \in [Calls -> 0..MaxDay] /\ computed' \in [Calls -> 0..MaxDay]
         /\ seen' \in [Calls -> Profiles]
         /\ \A s \in Calls \ {r} :
              /\ pc'[s] = pc[s] /\ began'[s] = began[s] /\ computed'[s] = computed[s] /\ seen'[s] = seen[s]
              /\ seasonLock = s => seasonLock' = s
              /\ profileLock = s => profileLock' = s
         /\ seasonLock = Reader => seasonLock' = Reader
<1>1. NewProfile \in Profiles /\ l \in Places /\ Never \in 0..MaxDay
  BY DayFacts DEF NewProfile, Profiles, Places, Never
<1>2. seasonLock' \in Calls \cup {Free, Reader} /\ profileLock' \in Calls \cup {Free}
  BY DEF End, ProgressionTypes
<1>3. pc' \in [Calls -> Places] /\ pc'[r] = l /\ \A s \in Calls \ {r} : pc'[s] = pc[s]
  BY <1>1 DEF End, Goto, ProgressionTypes
<1>4. began' \in [Calls -> 0..MaxDay] /\ computed' \in [Calls -> 0..MaxDay]
      /\ \A s \in Calls \ {r} : began'[s] = began[s] /\ computed'[s] = computed[s]
  BY <1>1 DEF End, ProgressionTypes
<1>5. seen' \in [Calls -> Profiles] /\ \A s \in Calls \ {r} : seen'[s] = seen[s]
  BY <1>1 DEF End, ProgressionTypes
<1>6. /\ \A s \in Calls \ {r} : (seasonLock = s => seasonLock' = s) /\ (profileLock = s => profileLock' = s)
      /\ seasonLock = Reader => seasonLock' = Reader
  BY DayFacts DEF End
<1> QED
  BY <1>2, <1>3, <1>4, <1>5, <1>6

(* What another call does leaves an event as it is.                        *)
LEMMA EventStays ==
  ASSUME ProgressionTypes, NEW s \in Events, EventInv(s),
         pc'[s] = pc[s], began'[s] = began[s], computed'[s] = computed[s], seen'[s] = seen[s],
         seasonLock = s => seasonLock' = s /\ recorded' = recorded,
         profileLock = s => profileLock' = s /\ profile' = profile,
         day' \in {day, day + 1}
  PROVE  EventInv(s)'
<1>1. began[s] \in Nat /\ computed[s] \in Nat /\ day \in Nat
  BY DayFacts DEF ProgressionTypes, Calls
<1>2. pc[s] \in {"insert", "profile", "quests", "finish"} => seasonLock = s
  BY DEF EventInv
<1>3. recorded' = recorded => (Known(s)' <=> Known(s)) /\ Active' = Active
  BY DEF Known, Active
<1> QED
  BY <1>1, <1>2, <1>3 DEF EventInv

(* ... and a claim, if a quest that has reached its target stays there.    *)
LEMMA ClaimStays ==
  ASSUME ProgressionTypes, NEW s \in Claims, ClaimInv(s),
         pc'[s] = pc[s], began'[s] = began[s], seen'[s] = seen[s],
         profileLock = s => profileLock' = s /\ profile' = profile,
         \A q \in Quests, d \in Days : progress[q][d] = q.target => progress'[q][d] = q.target
  PROVE  ClaimInv(s)'
<1>1. QuestOf[s] \in Quests
  OBVIOUS
<1>2. began[s] \in Days => Row(s) \in Days
  BY DayFacts DEF Row, Period
<1>3. Row(s)' = Row(s)
  BY DEF Row, Period
<1> QED
  BY <1>1, <1>2, <1>3 DEF ClaimInv

(* So that only the call that moves has to be looked at.                   *)
LEMMA CallsStep ==
  ASSUME ProgressionInv, NEW r,
         \A s \in Calls \ {r} :
           /\ pc'[s] = pc[s] /\ began'[s] = began[s] /\ computed'[s] = computed[s] /\ seen'[s] = seen[s]
           /\ seasonLock = s => seasonLock' = s /\ recorded' = recorded
           /\ profileLock = s => profileLock' = s /\ profile' = profile,
         day' \in {day, day + 1},
         \A q \in Quests, d \in Days : progress[q][d] = q.target => progress'[q][d] = q.target,
         r \in Events => EventInv(r)',
         r \in Claims => ClaimInv(r)'
  PROVE  (\A e \in Events : EventInv(e)') /\ \A c \in Claims : ClaimInv(c)'
<1>1. ASSUME NEW e \in Events PROVE EventInv(e)'
  <2>1. CASE e = r
    BY <2>1
  <2>2. CASE e # r
    <3>1. e \in Calls \ {r}
      BY <2>2 DEF Calls
    <3> QED
      BY <3>1, EventStays DEF ProgressionInv
  <2> QED
    BY <2>1, <2>2
<1>2. ASSUME NEW c \in Claims PROVE ClaimInv(c)'
  <2>1. CASE c = r
    BY <2>1
  <2>2. CASE c # r
    <3>1. c \in Calls \ {r}
      BY <2>2 DEF Calls
    <3> QED
      BY <3>1, ClaimStays DEF ProgressionInv
  <2> QED
    BY <2>1, <2>2
<1> QED
  BY <1>1, <1>2

(* Where no row changes, what was earned stays so.                         *)
LEMMA StoredStays ==
  ASSUME ProgressionInv, UNCHANGED stored, day' \in {day, day + 1}
  PROVE  XpIsExplained' /\ StreakInv' /\ \A q \in Quests, d \in Days : QuestInv(q, d)'
<1>1. profile' = profile /\ recorded' = recorded /\ season' = season /\ progress' = progress /\ rewards' = rewards
  BY DEF stored
<1>2. XpIsExplained'
  BY <1>1 DEF ProgressionInv, XpIsExplained, Paid
<1>3. Active' = Active /\ AcrossMidnight' = AcrossMidnight /\ UpTo(profile.last)' = UpTo(profile.last) /\ StreakIsEarned'
  BY <1>1 DEF ProgressionInv, StreakInv, Active, AcrossMidnight, UpTo, StreakIsEarned
<1>4. \A d \in Active : d \in Nat
  <2>1. \A r \in recorded : r.on \in SUBSET Days
    BY DEF ProgressionInv, ProgressionTypes, EventTypes
  <2>2. Active \subseteq Days
    BY <2>1 DEF Active
  <2> QED
    BY <2>2, DayFacts
<1>5. day \in Nat
  BY DayFacts DEF ProgressionInv, ProgressionTypes
<1>6. StreakInv'
  BY <1>1, <1>3, <1>4, <1>5 DEF ProgressionInv, StreakInv
<1>7. \A q \in Quests, d \in Days : QuestInv(q, d)'
  BY <1>1 DEF ProgressionInv, QuestInv, Counted
<1> QED
  BY <1>2, <1>6, <1>7

-----------------------------------------------------------------------------
(* A call that only moves: no row changes, and the look of a reader stays. *)
LEMMA MoveKeeps ==
  ASSUME ProgressionInv, ProgressionTypes', NEW r, UNCHANGED stored, look' = look,
         day' \in {day, day + 1}, seasonLock = Reader => seasonLock' = Reader,
         \A s \in Calls \ {r} :
           /\ pc'[s] = pc[s] /\ began'[s] = began[s] /\ computed'[s] = computed[s] /\ seen'[s] = seen[s]
           /\ seasonLock = s => seasonLock' = s
           /\ profileLock = s => profileLock' = s,
         r \in Events => EventInv(r)',
         r \in Claims => ClaimInv(r)'
  PROVE  ProgressionInv'
<1>1. profile' = profile /\ recorded' = recorded /\ season' = season /\ progress' = progress
  BY DEF stored
<1>2. (\A e \in Events : EventInv(e)') /\ \A c \in Claims : ClaimInv(c)'
  BY <1>1, CallsStep
<1>3. LookInv'
  BY <1>1 DEF ProgressionInv, LookInv, Unread
<1> QED
  BY <1>2, <1>3, StoredStays DEF ProgressionInv

(* A call that ends without a change of rows.                              *)
LEMMA EndKeeps ==
  ASSUME ProgressionInv, NEW r \in Calls, NEW l \in {"done", "failed"}, End(r, l), UNCHANGED <<day, stored, look, told>>
  PROVE  ProgressionInv'
<1>1. ProgressionTypes
  BY DEF ProgressionInv
<1>2. profile' = profile /\ recorded' = recorded /\ season' = season /\ progress' = progress /\ rewards' = rewards
      /\ day' = day
  BY DEF stored
<1>3. ProgressionTypes'
  BY <1>1, <1>2, EndFacts DEF ProgressionTypes, EventTypes
<1>4. pc'[r] = l
  BY <1>1, EndFacts
<1>5. EventInv(r)' /\ ClaimInv(r)'
  BY <1>4 DEF EventInv, ClaimInv
<1>6. /\ seasonLock = Reader => seasonLock' = Reader
      /\ \A s \in Calls \ {r} :
           /\ pc'[s] = pc[s] /\ began'[s] = began[s] /\ computed'[s] = computed[s] /\ seen'[s] = seen[s]
           /\ seasonLock = s => seasonLock' = s
           /\ profileLock = s => profileLock' = s
  BY <1>1, EndFacts
<1> QED
  BY <1>2, <1>3, <1>5, <1>6, MoveKeeps

(* ROLLBACK, for whatever reason.                                          *)
LEMMA RollbackKeeps ==
  ASSUME ProgressionInv, NEW r \in Calls, Rollback(r)
  PROVE  ProgressionInv'
BY EndKeeps DEF Rollback

(* The statements of an event before the last one.                         *)
LEMMA EventStep ==
  ASSUME ProgressionInv, NEW e \in Events,
         Begin(e) \/ LockSeason(e) \/ Insert(e) \/ LockProfile(e) \/ LockQuests(e)
  PROVE  ProgressionInv'
<1>1. ProgressionTypes /\ EventInv(e) /\ StreakInv
  BY DEF ProgressionInv
<1>2. e \in Calls /\ e \notin Claims /\ e # Reader /\ e # Free
  BY DayFacts DEF Calls
<1>3. UNCHANGED stored /\ look' = look /\ day' = day
  BY DEF Begin, LockSeason, Insert, LockProfile, LockQuests
<1>4. profile' = profile /\ recorded' = recorded /\ season' = season /\ progress' = progress /\ rewards' = rewards
  BY <1>3 DEF stored
<1>5. day \in 1..MaxDay /\ day \in 0..MaxDay /\ MaxDay \in Nat
  BY <1>1, DayFacts DEF ProgressionTypes
<1>6. Known(e)' <=> Known(e)
  BY <1>4 DEF Known
<1>7. Active' = Active
  BY <1>4 DEF Active
<1>8. /\ seasonLock = Reader => seasonLock' = Reader
      /\ \A s \in Calls \ {e} :
           /\ pc'[s] = pc[s] /\ began'[s] = began[s] /\ computed'[s] = computed[s] /\ seen'[s] = seen[s]
           /\ seasonLock = s => seasonLock' = s
           /\ profileLock = s => profileLock' = s
  BY <1>1, <1>2, DayFacts DEF Begin, LockSeason, Insert, LockProfile, LockQuests, Goto, locks, ProgressionTypes
<1>9. ProgressionTypes' /\ EventInv(e)'
  <2>1. CASE Begin(e)
    <3>1. pc' = [pc EXCEPT ![e] = "season"] /\ began' = [began EXCEPT ![e] = day] /\ computed' = computed
          /\ seasonLock' = seasonLock /\ profileLock' = profileLock /\ seen' = seen
      BY <2>1 DEF Begin, Goto, locks
    <3>2. ProgressionTypes'
      BY <1>1, <1>3, <1>4, <1>5, <3>1 DEF ProgressionTypes, EventTypes, Places
    <3>3. pc'[e] = "season" /\ began'[e] = day
      BY <1>1, <1>2, <3>1 DEF ProgressionTypes
    <3> QED
      BY <1>3, <1>5, <3>2, <3>3 DEF EventInv
  <2>2. CASE LockSeason(e)
    <3>1. pc' = [pc EXCEPT ![e] = "insert"] /\ began' = began /\ computed' = computed
          /\ seasonLock' = e /\ profileLock' = profileLock /\ seen' = seen /\ pc[e] = "season"
      BY <2>2 DEF LockSeason, Goto
    <3>2. ProgressionTypes'
      BY <1>1, <1>2, <1>3, <1>4, <3>1 DEF ProgressionTypes, EventTypes, Places
    <3>3. pc'[e] = "insert" /\ began'[e] \in 1..day
      BY <1>1, <1>2, <3>1 DEF ProgressionTypes, EventInv
    <3> QED
      BY <1>3, <3>1, <3>2, <3>3 DEF EventInv
  <2>3. CASE Insert(e)
    <3>1. pc' = [pc EXCEPT ![e] = "profile"] /\ began' = began /\ computed' = computed /\ pc[e] = "insert" /\ ~Known(e)
          /\ seasonLock' = seasonLock /\ profileLock' = profileLock /\ seen' = seen
      BY <2>3 DEF Insert, Goto, locks
    <3>2. ProgressionTypes'
      BY <1>1, <1>3, <1>4, <3>1 DEF ProgressionTypes, EventTypes, Places
    <3>3. pc'[e] = "profile" /\ began'[e] \in 1..day /\ seasonLock' = e
      BY <1>1, <1>2, <3>1 DEF ProgressionTypes, EventInv
    <3> QED
      BY <1>3, <1>6, <3>1, <3>2, <3>3 DEF EventInv
  <2>4. CASE LockProfile(e)
    <3>1. pc' = [pc EXCEPT ![e] = "quests"] /\ began' = began /\ computed' = [computed EXCEPT ![e] = day] /\ pc[e] = "profile"
          /\ seasonLock' = seasonLock /\ profileLock' = e /\ seen' = [seen EXCEPT ![e] = profile]
      BY <2>4 DEF LockProfile, Goto
    <3>2. ProgressionTypes'
      BY <1>1, <1>2, <1>3, <1>4, <1>5, <3>1 DEF ProgressionTypes, EventTypes, Places
    <3>3. /\ pc'[e] = "quests" /\ began'[e] \in 1..day /\ seasonLock' = e /\ ~Known(e) /\ seen'[e] = profile
          /\ computed'[e] = day
      BY <1>1, <1>2, <3>1 DEF ProgressionTypes, EventInv
    <3>4. computed'[e] \in began'[e]..day
      BY <1>5, <3>3
    <3>5. \A d \in Active : d <= computed'[e]
      BY <1>1, <3>3 DEF StreakInv
    <3> QED
      BY <1>3, <1>4, <1>6, <1>7, <3>1, <3>2, <3>3, <3>4, <3>5 DEF EventInv
  <2>5. CASE LockQuests(e)
    <3>1. pc' = [pc EXCEPT ![e] = "finish"] /\ began' = began /\ computed' = computed /\ pc[e] = "quests"
          /\ seasonLock' = seasonLock /\ profileLock' = profileLock /\ seen' = seen
      BY <2>5 DEF LockQuests, Goto
    <3>2. ProgressionTypes'
      BY <1>1, <1>3, <1>4, <3>1 DEF ProgressionTypes, EventTypes, Places
    <3>3. pc'[e] = "finish"
      BY <1>1, <1>2, <3>1 DEF ProgressionTypes
    <3> QED
      BY <1>1, <1>3, <1>4, <1>6, <1>7, <3>1, <3>2, <3>3 DEF EventInv
  <2> QED
    BY <2>1, <2>2, <2>3, <2>4, <2>5
<1> QED
  BY <1>2, <1>3, <1>8, <1>9, MoveKeeps

(* The statements of a claim before the last one.                          *)
LEMMA ClaimStep ==
  ASSUME ProgressionInv, NEW c \in Claims, Read(c) \/ LockRow(c) \/ ClaimLocksProfile(c)
  PROVE  ProgressionInv'
<1>1. ProgressionTypes /\ ClaimInv(c) /\ \A q \in Quests, d \in Days : QuestInv(q, d)
  BY DEF ProgressionInv
<1>2. c \in Calls /\ c \notin Events /\ c # Reader /\ c # Free /\ QuestOf[c] \in Quests
  BY DayFacts DEF Calls
<1>3. UNCHANGED stored /\ look' = look /\ day' = day /\ seasonLock' = seasonLock /\ computed' = computed
  BY DEF Read, LockRow, ClaimLocksProfile, locks
<1>4. profile' = profile /\ recorded' = recorded /\ season' = season /\ progress' = progress /\ rewards' = rewards
  BY <1>3 DEF stored
<1>5. day \in 1..MaxDay /\ day \in 0..MaxDay /\ MaxDay \in Nat /\ day \in Days
  BY <1>1, DayFacts DEF ProgressionTypes
<1>0. Read(c) => \/ /\ progress[QuestOf[c]][Period(QuestOf[c], day)] >= QuestOf[c].target
                    /\ pc' = [pc EXCEPT ![c] = "row"] /\ began' = [began EXCEPT ![c] = day]
                 \/ pc' = [pc EXCEPT ![c] = "failed"] /\ began' = began
  BY DEF Read, Goto
<1>6. CASE Read(c) /\ pc'[c] = "row"
  <2>1. /\ pc' = [pc EXCEPT ![c] = "row"] /\ began' = [began EXCEPT ![c] = day] /\ profileLock' = profileLock /\ seen' = seen
        /\ progress[QuestOf[c]][Period(QuestOf[c], day)] >= QuestOf[c].target
    <3>1. pc' # [pc EXCEPT ![c] = "failed"]
      BY <1>1, <1>2, <1>6 DEF ProgressionTypes
    <3> QED
      BY <1>0, <1>6, <3>1 DEF Read, locks
  <2>2. ProgressionTypes'
    BY <1>1, <1>3, <1>4, <1>5, <2>1 DEF ProgressionTypes, EventTypes, Places
  <2>3. began'[c] = day /\ Row(c)' = Period(QuestOf[c], day) /\ Period(QuestOf[c], day) \in Days
    BY <1>1, <1>2, <1>5, <2>1, DayFacts DEF ProgressionTypes, Row, Period
  <2>4. progress[QuestOf[c]][Period(QuestOf[c], day)] = QuestOf[c].target
    <3> DEFINE q == QuestOf[c]
               d == Period(q, day)
    <3>1. q \in Quests /\ d \in Days /\ QuestInv(q, d) /\ q.target \in Nat /\ progress[q][d] \in Nat
      BY <1>1, <1>2, <2>3 DEF ProgressionTypes
    <3>2. progress[q][d] >= q.target
      BY <2>1
    <3> HIDE DEF q, d
    <3>3. progress[q][d] = q.target
      BY <3>1, <3>2 DEF QuestInv
    <3> QED
      BY <3>3 DEF q, d
  <2>5. ClaimInv(c)'
    BY <1>3, <1>4, <1>5, <1>6, <2>3, <2>4 DEF ClaimInv
  <2> QED
    BY <1>1, <1>2, <1>3, <2>1, <2>2, <2>5, MoveKeeps DEF ProgressionTypes
<1>7. CASE Read(c) /\ pc'[c] # "row"
  <2>1. pc' = [pc EXCEPT ![c] = "failed"] /\ began' = began /\ profileLock' = profileLock /\ seen' = seen
    <3>1. pc' # [pc EXCEPT ![c] = "row"]
      BY <1>1, <1>2, <1>7 DEF ProgressionTypes
    <3> QED
      BY <1>0, <1>7, <3>1 DEF Read, locks
  <2>2. ProgressionTypes'
    BY <1>1, <1>3, <1>4, <2>1 DEF ProgressionTypes, EventTypes, Places
  <2>3. ClaimInv(c)'
    BY <1>1, <1>2, <2>1 DEF ClaimInv, ProgressionTypes
  <2> QED
    BY <1>1, <1>2, <1>3, <2>1, <2>2, <2>3, MoveKeeps DEF ProgressionTypes
<1>8. CASE LockRow(c)
  <2>1. pc' = [pc EXCEPT ![c] = "profile"] /\ pc[c] = "row" /\ began' = began /\ profileLock' = profileLock /\ seen' = seen
    BY <1>8 DEF LockRow, Goto
  <2>2. ProgressionTypes'
    BY <1>1, <1>3, <1>4, <2>1 DEF ProgressionTypes, EventTypes, Places
  <2>3. pc'[c] = "profile" /\ Row(c)' = Row(c)
    BY <1>1, <1>2, <2>1 DEF ProgressionTypes, Row, Period
  <2>4. ClaimInv(c)'
    BY <1>1, <1>4, <2>1, <2>3 DEF ClaimInv
  <2> QED
    BY <1>1, <1>2, <1>3, <2>1, <2>2, <2>4, MoveKeeps DEF ProgressionTypes
<1>9. CASE ClaimLocksProfile(c)
  <2>1. /\ pc' = [pc EXCEPT ![c] = "pay"] /\ pc[c] = "profile" /\ began' = began
        /\ profileLock = Free /\ profileLock' = c /\ seen' = [seen EXCEPT ![c] = profile]
    BY <1>9 DEF ClaimLocksProfile, Goto
  <2>2. ProgressionTypes'
    BY <1>1, <1>2, <1>3, <1>4, <2>1 DEF ProgressionTypes, EventTypes, Places
  <2>3. pc'[c] = "pay" /\ seen'[c] = profile /\ Row(c)' = Row(c)
    BY <1>1, <1>2, <2>1 DEF ProgressionTypes, Row, Period
  <2>4. ClaimInv(c)'
    BY <1>1, <1>4, <2>1, <2>3 DEF ClaimInv
  <2> QED
    BY <1>1, <1>2, <1>3, <2>1, <2>2, <2>4, DayFacts, MoveKeeps DEF ProgressionTypes
<1> QED
  BY <1>6, <1>7, <1>8, <1>9

-----------------------------------------------------------------------------
(* What was paid is a number.                                              *)
LEMMA PaidIsNat ==
  ASSUME ProgressionTypes
  PROVE  Paid \in Nat
<1> DEFINE xp == [x \in Quests \X Days |-> x[1].reward * rewards[x[1]][x[2]]]
<1>1. IsFiniteSet(Quests \X Days)
  BY DayFacts, FS_Product
<1>2. xp \in [Quests \X Days -> Nat]
  <2> SUFFICES ASSUME NEW p \in Quests, NEW a \in Days PROVE p.reward * rewards[p][a] \in Nat
    OBVIOUS
  <2>1. p.reward \in Nat /\ rewards[p][a] \in Nat
    BY DEF ProgressionTypes
  <2> QED
    BY <2>1
<1>3. Paid = SumFunctionOnSet(xp, Quests \X Days)
  BY DEF Paid
<1> HIDE DEF xp
<1> QED
  BY <1>1, <1>2, <1>3, SumIsNat

(* A reward that is paid is one more that is paid.                         *)
LEMMA PaidGrows ==
  ASSUME ProgressionTypes, ProgressionTypes', NEW q \in Quests, NEW d \in Days,
         rewards'[q][d] = rewards[q][d] + 1,
         \A p \in Quests, a \in Days : <<p, a>> # <<q, d>> => rewards'[p][a] = rewards[p][a]
  PROVE  Paid' = Paid + q.reward
<1> DEFINE S == Quests \X Days
           f == [x \in S |-> x[1].reward * rewards[x[1]][x[2]]]
           g == [x \in S |-> x[1].reward * rewards'[x[1]][x[2]]]
           x0 == <<q, d>>
<1>1. S \in SUBSET S /\ IsFiniteSet(S) /\ x0 \in S
  BY DayFacts, FS_Product
<1>2. f \in [S -> Int] /\ g \in [S -> Int]
  <2> SUFFICES ASSUME NEW p \in Quests, NEW a \in Days
               PROVE  p.reward * rewards[p][a] \in Int /\ p.reward * rewards'[p][a] \in Int
    OBVIOUS
  <2>1. p.reward \in Nat /\ rewards[p][a] \in Nat /\ rewards'[p][a] \in Nat
    BY DEF ProgressionTypes
  <2> QED
    BY <2>1
<1>3. \A y \in S \ {x0} : g[y] = f[y]
  <2> SUFFICES ASSUME NEW p \in Quests, NEW a \in Days, <<p, a>> # x0
               PROVE  p.reward * rewards'[p][a] = p.reward * rewards[p][a]
    OBVIOUS
  <2>1. rewards'[p][a] = rewards[p][a]
    OBVIOUS
  <2> QED
    BY <2>1
<1>4. g[x0] - f[x0] = q.reward
  <2>1. f[x0] = q.reward * rewards[q][d] /\ g[x0] = q.reward * (rewards[q][d] + 1)
    OBVIOUS
  <2>2. q.reward \in Nat /\ rewards[q][d] \in Nat
    BY DEF ProgressionTypes
  <2> HIDE DEF f, g, x0
  <2>3. \A a, b \in Nat : a * (b + 1) - a * b = a
    OBVIOUS
  <2> QED
    BY <2>1, <2>2, <2>3
<1>5. Paid = SumFunctionOnSet(f, S) /\ Paid' = SumFunctionOnSet(g, S)
  BY DEF Paid
<1> HIDE DEF S, f, g, x0
<1>6. SumFunctionOnSet(g, S) = SumFunctionOnSet(f, S) + (g[x0] - f[x0])
  BY <1>1, <1>2, <1>3, SumChanges
<1> QED
  BY <1>4, <1>5, <1>6

(* The last statements of a claim: nobody else has the profile.            *)
LEMMA PayStep ==
  ASSUME ProgressionInv, NEW c \in Claims, Pay(c)
  PROVE  ProgressionInv'
<1> DEFINE q == QuestOf[c]
           d == Row(c)
<1>1. ProgressionTypes /\ ClaimInv(c) /\ pc[c] = "pay"
  BY DEF ProgressionInv, Pay
<1>2. c \in Calls /\ c \notin Events /\ c # Reader /\ c # Free /\ q \in Quests /\ q.reward \in Nat
  BY DayFacts DEF Calls
<1>3. began[c] \in Days /\ progress[q][d] = q.target /\ profileLock = c /\ seen[c] = profile
  BY <1>1 DEF ClaimInv
<1>4. d \in Days
  BY <1>3, DayFacts DEF Row, Period
<1>5. PICK answer \in {"done", "failed"} : End(c, answer)
  BY DEF Pay, Answers
<1>6. /\ profile' = [profile EXCEPT !.xp = profile.xp + q.reward]
      /\ rewards' = [rewards EXCEPT ![q][d] = @ + 1]
      /\ day' = day /\ recorded' = recorded /\ season' = season /\ progress' = progress /\ look' = look
  BY <1>3 DEF Pay
<1> HIDE DEF q, d
<1>7. /\ seasonLock' \in Calls \cup {Free, Reader} /\ profileLock' \in Calls \cup {Free}
      /\ pc' \in [Calls -> Places] /\ pc'[c] = answer
      /\ began' \in [Calls -> 0..MaxDay] /\ computed' \in [Calls -> 0..MaxDay]
      /\ seen' \in [Calls -> Profiles]
      /\ seasonLock = Reader => seasonLock' = Reader
      /\ \A s \in Calls \ {c} :
           /\ pc'[s] = pc[s] /\ began'[s] = began[s] /\ computed'[s] = computed[s] /\ seen'[s] = seen[s]
           /\ seasonLock = s => seasonLock' = s
           /\ profileLock = s => profileLock' = s
  BY <1>1, <1>2, <1>5, EndFacts
<1>8. /\ profile'.xp = profile.xp + q.reward /\ profile'.streak = profile.streak /\ profile'.last = profile.last
      /\ profile' \in Profiles /\ profile.xp \in Nat
  <2>1. profile \in Profiles
    BY <1>1 DEF ProgressionTypes
  <2>2. profile.xp \in Nat /\ profile.xp + q.reward \in Nat
    BY <1>2, <2>1 DEF Profiles
  <2> DEFINE xp == profile.xp + q.reward
  <2>3. profile' = [profile EXCEPT !.xp = xp] /\ xp \in Nat
    BY <1>6, <2>2
  <2> HIDE DEF xp
  <2>4. profile'.xp = xp /\ profile'.streak = profile.streak /\ profile'.last = profile.last /\ profile' \in Profiles
    BY <2>1, <2>3 DEF Profiles
  <2> QED
    BY <2>2, <2>4 DEF xp
<1>9. /\ rewards' \in [Quests -> [Days -> Nat]] /\ rewards'[q][d] = rewards[q][d] + 1
      /\ \A p \in Quests, a \in Days : <<p, a>> # <<q, d>> => rewards'[p][a] = rewards[p][a]
  BY <1>1, <1>2, <1>4, <1>6 DEF ProgressionTypes
<1>10. ProgressionTypes'
  BY <1>1, <1>6, <1>7, <1>8, <1>9 DEF ProgressionTypes, EventTypes
<1>11. XpIsExplained'
  <2>1. Paid' = Paid + q.reward
    BY <1>1, <1>2, <1>4, <1>9, <1>10, PaidGrows
  <2>2. season' = SumFunctionOnSet([r \in recorded |-> r.xp], recorded)'
    BY <1>6 DEF ProgressionInv, XpIsExplained
  <2>5. season' = season /\ profile.xp = season + Paid
    BY <1>6 DEF ProgressionInv, XpIsExplained
  <2>3. season \in Nat /\ Paid \in Nat
    BY <1>1, PaidIsNat DEF ProgressionTypes
  <2>4. profile'.xp = season' + Paid'
    BY <1>2, <1>8, <2>1, <2>3, <2>5
  <2> QED
    BY <2>2, <2>4 DEF XpIsExplained
<1>12. StreakInv'
  <2>1. Active' = Active /\ AcrossMidnight' = AcrossMidnight /\ UpTo(profile.last)' = UpTo(profile.last)
    BY <1>6, <1>8 DEF Active, AcrossMidnight, UpTo
  <2>2. StreakIsEarned'
    BY <1>6, <1>8 DEF ProgressionInv, StreakInv, StreakIsEarned, AcrossMidnight
  <2> QED
    BY <1>6, <1>8, <2>1, <2>2 DEF ProgressionInv, StreakInv
<1>13. \A p \in Quests, a \in Days : QuestInv(p, a)'
  <2> SUFFICES ASSUME NEW p \in Quests, NEW a \in Days PROVE QuestInv(p, a)'
    OBVIOUS
  <2>1. QuestInv(p, a) /\ Counted(p, a)' = Counted(p, a)
    BY <1>6 DEF ProgressionInv, Counted
  <2>2. CASE <<p, a>> = <<q, d>>
    BY <1>3, <1>6, <2>1, <2>2 DEF QuestInv
  <2>3. CASE <<p, a>> # <<q, d>>
    BY <1>6, <1>9, <2>1, <2>3 DEF QuestInv
  <2> QED
    BY <2>2, <2>3
<1>14. LookInv'
  BY <1>6, <1>7 DEF ProgressionInv, LookInv, Unread
<1>15. (\A e \in Events : EventInv(e)') /\ \A s \in Claims : ClaimInv(s)'
  <2>1. ClaimInv(c)'
    BY <1>7 DEF ClaimInv
  <2>2. \A s \in Calls \ {c} :
           /\ pc'[s] = pc[s] /\ began'[s] = began[s] /\ computed'[s] = computed[s] /\ seen'[s] = seen[s]
           /\ seasonLock = s => seasonLock' = s /\ recorded' = recorded
           /\ profileLock = s => profileLock' = s /\ profile' = profile
    BY <1>3, <1>6, <1>7
  <2>3. \A p \in Quests, a \in Days : progress[p][a] = p.target => progress'[p][a] = p.target
    BY <1>6
  <2> QED
    BY <1>2, <1>6, <2>1, <2>2, <2>3, CallsStep
<1> QED
  BY <1>10, <1>11, <1>12, <1>13, <1>14, <1>15 DEF ProgressionInv

-----------------------------------------------------------------------------
(* The larger of two numbers.                                              *)
LEMMA MaxOfTwo ==
  ASSUME NEW b \in Nat, NEW c \in Nat, b <= c
  PROVE  Max({b, c}) = c
<1>1. c \in {b, c} /\ \A y \in {b, c} : c >= y
  OBVIOUS
<1>2. \A x \in {b, c} : (\A y \in {b, c} : x >= y) => x = c
  OBVIOUS
<1> DEFINE Top(x) == x \in {b, c} /\ \A y \in {b, c} : x >= y
<1>3. Top(c) /\ \A x : Top(x) => x = c
  BY <1>1, <1>2
<1>4. Max({b, c}) = CHOOSE x : Top(x)
  BY Zenon DEF Max
<1> HIDE DEF Top
<1> QED
  BY <1>3, <1>4, Zenon

(* ... and the smaller, as LEAST takes it.                                 *)
LEMMA MinOfTwo ==
  ASSUME NEW a \in Nat, NEW b \in Nat
  PROVE  Min({a, b}) = IF a <= b THEN a ELSE b
<1> DEFINE m == IF a <= b THEN a ELSE b
           Low(x) == x \in {a, b} /\ \A y \in {a, b} : x =< y
<1>1. m \in {a, b} /\ \A y \in {a, b} : m =< y
  OBVIOUS
<1>2. \A x \in {a, b} : (\A y \in {a, b} : x =< y) => x = m
  OBVIOUS
<1>3. Low(m) /\ \A x : Low(x) => x = m
  BY <1>1, <1>2
<1>4. Min({a, b}) = CHOOSE x : Low(x)
  BY Zenon DEF Min
<1> HIDE DEF Low, m
<1>5. Min({a, b}) = m
  BY <1>3, <1>4, Zenon
<1> QED
  BY <1>5 DEF m

(* Days count: how a streak grows with an event that began on the day b    *)
(* and was computed on the day c, when the last one began on the day l.    *)
LEMMA StreakGrows ==
  ASSUME NEW D, IsFiniteSet(D), D \subseteq Nat, NEW b \in Nat, NEW c \in Nat, b <= c,
         NEW l \in D, NEW s \in Nat, NEW x \in Nat, NEW y \in Nat,
         \A d \in D : d <= c, c <= l + 1,
         s <= Cardinality({d \in D : d <= l}) + x,
         y >= x, b # c => y >= x + 1
  PROVE  LET E == D \cup {b, c}
             n == s + (c - l)
         IN  /\ n \in Nat
             /\ n <= Cardinality(E) + y
             /\ (\A d \in E : d <= b + 1) => n <= Cardinality({d \in E : d <= b}) + y
<1> DEFINE E == D \cup {b, c}
           n == s + (c - l)
           A == {d \in D : d <= l}
           B == {d \in E : d <= b}
<1>1. l \in Nat /\ l <= c
  OBVIOUS
<1>2. IsFiniteSet(A) /\ IsFiniteSet(E) /\ IsFiniteSet(B) /\ IsFiniteSet(D \ {c}) /\ IsFiniteSet(A \cup {c})
  <2>1. IsFiniteSet(D \cup {b}) /\ IsFiniteSet((D \cup {b}) \cup {c}) /\ E = (D \cup {b}) \cup {c}
    BY FS_AddElement
  <2>2. IsFiniteSet(E)
    BY <2>1
  <2>3. A \subseteq E /\ B \subseteq E /\ D \ {c} \subseteq E /\ A \cup {c} \subseteq E
    OBVIOUS
  <2> HIDE DEF A, B, E
  <2> QED
    BY <2>2, <2>3, FS_Subset
<1>3. /\ Cardinality(A) \in Nat /\ Cardinality(E) \in Nat /\ Cardinality(B) \in Nat /\ Cardinality(D) \in Nat
      /\ Cardinality(D \ {c}) \in Nat /\ Cardinality(A \cup {c}) \in Nat
  <2> HIDE DEF A, B, E
  <2> QED
    BY <1>2, FS_CardinalityType
<1>4. n \in Nat
  BY <1>1
<1>5. s <= Cardinality(A) + x
  OBVIOUS
<1>6. CASE c = l
  <2>1. A = D
    <3>1. \A d \in D : d <= l
      BY <1>6
    <3> QED
      BY <3>1
  <2>2. D \subseteq E
    OBVIOUS
  <2>3. Cardinality(D) <= Cardinality(E)
    <3> HIDE DEF E
    <3> QED
      BY <1>2, <2>2, FS_Subset
  <2>4. n = s
    BY <1>1, <1>6
  <2>5. ASSUME \A d \in E : d <= b + 1 PROVE n <= Cardinality(B) + y
    <3>1. CASE b = c
      <4>1. D \subseteq B
        BY <3>1
      <4>2. Cardinality(D) <= Cardinality(B)
        <5> HIDE DEF B, E
        <5> QED
          BY <1>2, <4>1, FS_Subset
      <4> HIDE DEF A, B, E, n
      <4> QED
        BY <1>3, <1>5, <2>1, <2>4, <4>2
    <3>2. CASE b # c
      <4>1. c <= b + 1
        BY <2>5
      <4>2. c = b + 1
        BY <3>2, <4>1
      <4>3. D \ {c} \subseteq B
        <5> SUFFICES ASSUME NEW d \in D, d # c PROVE d <= b
          OBVIOUS
        <5>1. d \in Nat /\ d <= c
          OBVIOUS
        <5> QED
          BY <4>2, <5>1
      <4>4. Cardinality(D \ {c}) <= Cardinality(B)
        <5> HIDE DEF B, E
        <5> QED
          BY <1>2, <4>3, FS_Subset
      <4>5. Cardinality(D \ {c}) = Cardinality(D) - 1
        BY <1>6, FS_RemoveElement
      <4> HIDE DEF A, B, E, n
      <4> QED
        BY <1>3, <1>5, <2>1, <2>4, <3>2, <4>4, <4>5
    <3> QED
      BY <3>1, <3>2
  <2>6. n <= Cardinality(E) + y
    <3> HIDE DEF A, B, E, n
    <3> QED
      BY <1>3, <1>5, <2>1, <2>3, <2>4
  <2> QED
    BY <1>4, <2>5, <2>6
<1>7. CASE c = l + 1
  <2>1. c \notin A
    BY <1>1, <1>7
  <2>2. Cardinality(A \cup {c}) = Cardinality(A) + 1
    <3> HIDE DEF A
    <3> QED
      BY <1>2, <2>1, FS_AddElement
  <2>3. A \cup {c} \subseteq E
    OBVIOUS
  <2>4. Cardinality(A \cup {c}) <= Cardinality(E)
    <3> HIDE DEF A, E
    <3> QED
      BY <1>2, <2>3, FS_Subset
  <2>5. n = s + 1
    BY <1>1, <1>7
  <2>6. n <= Cardinality(E) + y
    <3> HIDE DEF A, B, E, n
    <3> QED
      BY <1>3, <1>5, <2>2, <2>4, <2>5
  <2>7. ASSUME \A d \in E : d <= b + 1 PROVE n <= Cardinality(B) + y
    <3>1. CASE b = c
      <4>1. A \cup {c} \subseteq B
        BY <1>1, <1>7, <3>1
      <4>2. Cardinality(A \cup {c}) <= Cardinality(B)
        <5> HIDE DEF A, B, E
        <5> QED
          BY <1>2, <4>1, FS_Subset
      <4> HIDE DEF A, B, E, n
      <4> QED
        BY <1>3, <1>5, <2>2, <2>5, <4>2
    <3>2. CASE b # c
      <4>1. c <= b + 1
        BY <2>7
      <4>2. b = l
        BY <1>1, <1>7, <3>2, <4>1
      <4>3. A \subseteq B
        BY <4>2
      <4>4. Cardinality(A) <= Cardinality(B)
        <5> HIDE DEF A, B, E
        <5> QED
          BY <1>2, <4>3, FS_Subset
      <4> HIDE DEF A, B, E, n
      <4> QED
        BY <1>3, <1>5, <2>5, <3>2, <4>4
    <3> QED
      BY <3>1, <3>2
  <2> QED
    BY <1>4, <2>6, <2>7
<1> QED
  BY <1>1, <1>6, <1>7

-----------------------------------------------------------------------------
(* The row of an event.                                                    *)
Entry(e, xp) ==
  [key |-> KeyOf[e], action |-> ActionOf[e], xp |-> xp, on |-> {began[e], computed[e]}]

(* What an event that is about to commit knows, since nobody else has the  *)
(* season and the profile.                                                 *)
LEMMA FinishFacts ==
  ASSUME ProgressionInv, NEW e \in Events, pc[e] = "finish", NEW xp \in Awards
  PROVE  /\ seasonLock = e /\ profileLock = e /\ seen[e] = profile
         /\ began[e] \in Days /\ computed[e] \in Days /\ began[e] <= computed[e] /\ computed[e] <= day
         /\ \A d \in Active : d \in Nat /\ d <= computed[e]
         /\ Entry(e, xp) \notin recorded /\ EventTypes(Entry(e, xp))
         /\ xp \in Nat
<1>1. ProgressionTypes /\ EventInv(e)
  BY DEF ProgressionInv
<1>2. e \in Calls /\ day \in Days /\ day \in Nat
  BY <1>1, DayFacts DEF ProgressionTypes, Calls
<1>3. /\ seasonLock = e /\ profileLock = e /\ seen[e] = profile /\ ~Known(e)
      /\ began[e] \in 1..day /\ computed[e] \in began[e]..day /\ \A d \in Active : d <= computed[e]
  BY <1>1 DEF EventInv
<1>4. began[e] \in Days /\ computed[e] \in Days /\ began[e] <= computed[e] /\ computed[e] <= day
  BY <1>2, <1>3, DayFacts DEF Days
<1>5. \A d \in Active : d \in Nat
  <2>1. \A r \in recorded : r.on \in SUBSET Days
    BY <1>1 DEF ProgressionTypes, EventTypes
  <2>2. Active \subseteq Days
    BY <2>1 DEF Active
  <2> QED
    BY <2>2, DayFacts
<1>6. Entry(e, xp) \notin recorded
  BY <1>3 DEF Known, Entry
<1>7. xp \in Nat
  OBVIOUS
<1>8. EventTypes(Entry(e, xp))
  BY <1>4, <1>7 DEF EventTypes, Entry
<1> QED
  BY <1>3, <1>4, <1>5, <1>6, <1>7, <1>8

(* The streak that it computes.                                            *)
LEMMA StreakFacts ==
  ASSUME ProgressionInv, NEW e \in Events, pc[e] = "finish", NEW xp \in Awards,
         recorded' = recorded \cup {Entry(e, xp)}
  PROVE  /\ Active' = Active \cup {began[e], computed[e]}
         /\ IsFiniteSet(Active) /\ IsFiniteSet(AcrossMidnight) /\ IsFiniteSet(AcrossMidnight')
         /\ Streak(e) \in Nat /\ Streak(e) <= Cardinality(Active') + Cardinality(AcrossMidnight')
         /\ (\A d \in Active' : d <= began[e] + 1) =>
               Streak(e) <= Cardinality({d \in Active' : d <= began[e]}) + Cardinality(AcrossMidnight')
<1> DEFINE b == began[e]
           c == computed[e]
           l == profile.last
           n == Streak(e)
           B == {d \in Active' : d <= b}
<1>1. ProgressionTypes /\ StreakInv
  BY DEF ProgressionInv
<1>2. /\ b \in Nat /\ c \in Nat /\ b <= c /\ b \in Days /\ c \in Days
      /\ \A d \in Active : d \in Nat /\ d <= c
      /\ seen[e] = profile /\ Entry(e, xp) \notin recorded
  BY FinishFacts, DayFacts
<1>3. Active' = Active \cup {b, c}
  <2> DEFINE new == Entry(e, xp)
  <2>1. new.on = {b, c}
    BY DEF Entry
  <2> HIDE DEF new, b, c
  <2>2. \A d : d \in Active' <=> d \in Active \/ d \in new.on
    <3>1. recorded' = recorded \cup {new}
      BY DEF new
    <3> QED
      BY <3>1 DEF Active
  <2> QED
    BY <2>1, <2>2
<1>4. Active \subseteq Days /\ IsFiniteSet(Active) /\ IsFiniteSet(Active') /\ IsFiniteSet(B)
  <2>1. Active \subseteq Days
    BY <1>1 DEF ProgressionTypes, EventTypes, Active
  <2>2. Active' \subseteq Days /\ B \subseteq Active'
    BY <1>2, <1>3, <2>1
  <2> HIDE DEF B
  <2> QED
    BY <2>1, <2>2, DayFacts, FS_Subset
<1>5. IsFiniteSet(AcrossMidnight) /\ IsFiniteSet(AcrossMidnight')
  <2>1. IsFiniteSet(recorded) /\ IsFiniteSet(recorded')
    BY <1>1, FS_AddElement DEF ProgressionTypes
  <2>2. AcrossMidnight \subseteq recorded /\ AcrossMidnight' \subseteq recorded'
    BY DEF AcrossMidnight
  <2> QED
    BY <2>1, <2>2, FS_Subset
<1>6. /\ Cardinality(AcrossMidnight) \in Nat /\ Cardinality(AcrossMidnight') \in Nat
      /\ Cardinality(Active') \in Nat /\ Cardinality(B) \in Nat
  <2> HIDE DEF B
  <2> QED
    BY <1>4, <1>5, FS_CardinalityType
<1>7. /\ Cardinality(AcrossMidnight') >= Cardinality(AcrossMidnight)
      /\ b # c => Cardinality(AcrossMidnight') >= Cardinality(AcrossMidnight) + 1
  <2>1. AcrossMidnight \subseteq AcrossMidnight'
    BY DEF AcrossMidnight
  <2>2. Cardinality(AcrossMidnight) <= Cardinality(AcrossMidnight')
    BY <1>5, <2>1, FS_Subset
  <2>3. ASSUME b # c PROVE Cardinality(AcrossMidnight') >= Cardinality(AcrossMidnight) + 1
    <3>1. Cardinality({b, c}) = 2
      <4> HIDE DEF b, c
      <4> DEFINE S == {b}
      <4>1. IsFiniteSet(S) /\ Cardinality(S) = 1 /\ c \notin S /\ {b, c} = S \cup {c}
        BY <2>3, FS_Singleton
      <4> HIDE DEF S
      <4>2. Cardinality(S \cup {c}) = Cardinality(S) + 1
        BY <4>1, FS_AddElement
      <4>3. Cardinality({b, c}) = Cardinality(S \cup {c})
        BY <4>1, Zenon
      <4>4. Cardinality(S) + 1 = 2
        BY <4>1
      <4> QED
        BY <4>2, <4>3, <4>4, Zenon
    <3>2. Entry(e, xp) \in AcrossMidnight' /\ Entry(e, xp) \notin AcrossMidnight
      <4> DEFINE new == Entry(e, xp)
      <4>1. new.on = {b, c} /\ new \in recorded' /\ new \notin recorded
        BY <1>2 DEF Entry
      <4> HIDE DEF new, b, c
      <4>2. Cardinality(new.on) > 1
        BY <3>1, <4>1
      <4>3. new \in AcrossMidnight' /\ new \notin AcrossMidnight
        BY <4>1, <4>2 DEF AcrossMidnight
      <4> QED
        BY <4>3 DEF new
    <3>3. AcrossMidnight \cup {Entry(e, xp)} \subseteq AcrossMidnight'
      BY <2>1, <3>2
    <3>4. Cardinality(AcrossMidnight \cup {Entry(e, xp)}) = Cardinality(AcrossMidnight) + 1
      BY <1>5, <3>2, FS_AddElement
    <3>5. Cardinality(AcrossMidnight \cup {Entry(e, xp)}) <= Cardinality(AcrossMidnight')
      BY <1>5, <3>3, FS_Subset
    <3> QED
      BY <1>6, <3>4, <3>5
  <2> QED
    BY <1>6, <2>2, <2>3
<1>8. l \in Nat /\ profile.streak \in Nat
  BY <1>1, DayFacts DEF ProgressionTypes, Profiles
<1>9. n = IF l # Never /\ c - l <= 1 THEN profile.streak + (c - l) ELSE 1
  BY <1>2 DEF Streak
<1>10. CASE l # Never /\ c - l <= 1
  <2>1. l \in Active
    BY <1>1, <1>10 DEF StreakInv
  <2>2. c <= l + 1
    BY <1>2, <1>8, <1>10
  <2>3. \A d \in Active : d <= l + 1
    BY <1>2, <1>8, <2>2
  <2>4. profile.streak <= Cardinality({d \in Active : d <= l}) + Cardinality(AcrossMidnight)
    BY <1>1, <2>3 DEF StreakInv, UpTo
  <2>5. Active \subseteq Nat /\ \A d \in Active : d <= c
    BY <1>2
  <2>6. n = profile.streak + (c - l)
    BY <1>9, <1>10
  <2> HIDE DEF b, c, l, n, B
  <2>7. /\ profile.streak + (c - l) \in Nat
        /\ profile.streak + (c - l) <= Cardinality(Active \cup {b, c}) + Cardinality(AcrossMidnight')
        /\ (\A d \in Active \cup {b, c} : d <= b + 1) =>
             profile.streak + (c - l) <= Cardinality({d \in Active \cup {b, c} : d <= b}) + Cardinality(AcrossMidnight')
    BY <1>2, <1>4, <1>6, <1>7, <1>8, <2>1, <2>2, <2>4, <2>5, StreakGrows
  <2> QED
    BY <1>3, <1>4, <1>5, <2>6, <2>7 DEF b, c, n
<1>11. CASE ~ (l # Never /\ c - l <= 1)
  <2>1. n = 1
    BY <1>9, <1>11
  <2>2. b \in B /\ b \in Active'
    BY <1>2, <1>3
  <2>3. Cardinality(B) # 0 /\ Cardinality(Active') # 0
    <3> HIDE DEF B
    <3> QED
      BY <1>4, <2>2, FS_EmptySet
  <2>4. 1 <= Cardinality(B) + Cardinality(AcrossMidnight') /\ 1 <= Cardinality(Active') + Cardinality(AcrossMidnight')
    <3> HIDE DEF B
    <3> QED
      BY <1>6, <2>3
  <2> QED
    BY <1>3, <1>4, <1>5, <2>1, <2>4
<1> QED
  BY <1>10, <1>11

(* The progress that it makes is counted by the row that it adds.          *)
LEMMA ProgressFacts ==
  ASSUME ProgressionInv, NEW e \in Events, pc[e] = "finish", NEW xp \in Awards,
         recorded' = recorded \cup {Entry(e, xp)}, progress' = Progressed(e), rewards' = rewards,
         NEW q \in Quests, NEW d \in Days
  PROVE  /\ QuestInv(q, d)' /\ progress'[q][d] \in Nat
         /\ progress[q][d] = q.target => progress'[q][d] = q.target
<1> DEFINE p == progress[q][d]
           old == Counted(q, d)
           new == Counted(q, d)'
<1>1. ProgressionTypes /\ QuestInv(q, d)
  BY DEF ProgressionInv
<1>2. p \in Nat /\ rewards[q][d] \in Nat /\ q.target \in Nat /\ p <= q.target /\ p <= Cardinality(old)
      /\ (rewards[q][d] > 0 => p = q.target)
  BY <1>1 DEF ProgressionTypes, QuestInv
<1>3. /\ began[e] \in Nat /\ computed[e] \in Nat /\ began[e] <= computed[e] /\ Monday <= computed[e]
      /\ Entry(e, xp) \notin recorded
  BY FinishFacts, DayFacts
<1>4. old \subseteq new /\ IsFiniteSet(old) /\ IsFiniteSet(new)
  <2>1. IsFiniteSet(recorded) /\ IsFiniteSet(recorded')
    BY <1>1, FS_AddElement DEF ProgressionTypes
  <2>2. old \subseteq new /\ old \subseteq recorded /\ new \subseteq recorded'
    BY DEF Counted
  <2> HIDE DEF old, new
  <2> QED
    BY <2>1, <2>2, FS_Subset
<1>5. Cardinality(old) \in Nat /\ Cardinality(new) \in Nat /\ Cardinality(old) <= Cardinality(new)
  <2> HIDE DEF old, new
  <2> QED
    BY <1>4, FS_CardinalityType, FS_Subset
<1>6. CASE <<q, d>> \in Rows(e) /\ (d = Period(q, began[e]) \/ p > 0)
  <2>1. q.action = ActionOf[e] /\ d \in {began[e], Monday}
    BY <1>6 DEF Rows, Periods
  <2>2. progress'[q][d] = Min({q.target, p + 1})
    BY <1>6 DEF Progressed
  <2>3. progress'[q][d] = IF q.target <= p + 1 THEN q.target ELSE p + 1
    <3>1. p + 1 \in Nat
      BY <1>2
    <3> HIDE DEF p
    <3> QED
      BY <1>2, <2>2, <3>1, MinOfTwo
  <2>4. Entry(e, xp) \in new /\ Entry(e, xp) \notin old
    <3>1. Max({began[e], computed[e]}) = computed[e]
      BY <1>3, MaxOfTwo
    <3>2. IF q.cadence = "daily" /\ d # Monday THEN d \in Entry(e, xp).on ELSE Max(Entry(e, xp).on) >= d
      BY <1>3, <2>1, <3>1 DEF Entry
    <3>3. Entry(e, xp).action = q.action
      BY <2>1 DEF Entry
    <3>4. Entry(e, xp) \in recorded'
      OBVIOUS
    <3> QED
      BY <1>3, <3>2, <3>3, <3>4 DEF Counted
  <2>5. Cardinality(old) + 1 <= Cardinality(new)
    <3> HIDE DEF old, new
    <3>1. Cardinality(old \cup {Entry(e, xp)}) = Cardinality(old) + 1
      BY <1>4, <2>4, FS_AddElement
    <3>2. Cardinality(old \cup {Entry(e, xp)}) <= Cardinality(new)
      BY <1>4, <2>4, FS_Subset
    <3> QED
      BY <3>1, <3>2
  <2>6. progress'[q][d] \in Nat /\ progress'[q][d] <= Cardinality(new) /\ progress'[q][d] <= q.target
        /\ (p = q.target => progress'[q][d] = q.target)
    <3> HIDE DEF p, old, new
    <3> QED
      BY <1>2, <1>5, <2>3, <2>5
  <2> QED
    BY <1>2, <2>6 DEF QuestInv
<1>7. CASE ~ (<<q, d>> \in Rows(e) /\ (d = Period(q, began[e]) \/ p > 0))
  <2>1. progress'[q][d] = p
    BY <1>7 DEF Progressed
  <2>2. p <= Cardinality(new)
    <3> HIDE DEF p, old, new
    <3> QED
      BY <1>2, <1>5
  <2> QED
    BY <1>2, <2>1, <2>2 DEF QuestInv
<1> QED
  BY <1>6, <1>7

(* An event that commits adds to the season and to the profile alike.      *)
LEMMA ExperienceGrows ==
  ASSUME ProgressionInv, NEW e \in Events, pc[e] = "finish", NEW xp \in Awards,
         recorded' = recorded \cup {Entry(e, xp)}, season' = season + xp,
         profile'.xp = profile.xp + xp, rewards' = rewards
  PROVE  XpIsExplained'
<1> DEFINE row == Entry(e, xp)
           f == [r \in recorded |-> r.xp]
           g == [r \in recorded' |-> r.xp]
<1>1. ProgressionTypes /\ XpIsExplained
  BY DEF ProgressionInv
<1>2. row \notin recorded /\ row.xp = xp /\ xp \in Nat /\ recorded' = recorded \cup {row}
  BY FinishFacts DEF Entry
<1>3. IsFiniteSet(recorded) /\ \A r \in recorded : r.xp \in Nat
  BY <1>1 DEF ProgressionTypes, EventTypes
<1>4. f \in [recorded -> Int] /\ g \in [recorded' -> Int]
  <2> HIDE DEF row
  <2> QED
    BY <1>2, <1>3
<1>5. g[row] = xp /\ (\A r \in recorded : g[r] = f[r]) /\ recorded \in SUBSET recorded' /\ row \in recorded'
  <2> HIDE DEF row
  <2> QED
    BY <1>2
<1>6. season = SumFunctionOnSet(f, recorded) /\ profile.xp = season + Paid
  BY <1>1 DEF XpIsExplained
<1> HIDE DEF row, f, g
<1>7. SumFunctionOnSet(g, recorded \cup {row}) = g[row] + SumFunctionOnSet(g, recorded)
  BY <1>2, <1>3, <1>4, <1>5, SumAdds
<1>8. SumFunctionOnSet(g, recorded) = SumFunctionOnSet(f, recorded)
  BY <1>3, <1>5, SumAlike
<1>9. SumFunctionOnSet(f, recorded) \in Int
  BY <1>3, <1>4, SumIsInt
<1>10. SumFunctionOnSet(g, recorded') = xp + season
  BY <1>2, <1>5, <1>6, <1>7, <1>8
<1>11. Paid' = Paid
  BY DEF Paid
<1>12. season \in Nat /\ profile.xp \in Nat
  BY <1>1 DEF ProgressionTypes, Profiles
<1>13. Paid \in Int
  BY <1>1, PaidIsNat
<1>14. season' = SumFunctionOnSet(g, recorded') /\ profile'.xp = season' + Paid'
  BY <1>2, <1>6, <1>10, <1>11, <1>12, <1>13
<1> QED
  BY <1>14 DEF XpIsExplained, g

(* COMMIT of an event.                                                     *)
LEMMA CommitStep ==
  ASSUME ProgressionInv, NEW e \in Events, Commit(e)
  PROVE  ProgressionInv'
<1>1. ProgressionTypes /\ pc[e] = "finish" /\ StreakInv
  BY DEF ProgressionInv, Commit
<1>2. e \in Calls /\ e \notin Claims /\ e # Reader /\ e # Free
  BY DayFacts DEF Calls
<1>3. PICK xp \in Awards :
        /\ profile' = [profile EXCEPT !.xp = seen[e].xp + xp, !.streak = Streak(e), !.last = began[e]]
        /\ recorded' = recorded \cup {Entry(e, xp)}
        /\ season' = season + xp
  BY DEF Commit, Entry
<1>4. PICK answer \in {"done", "failed"} : End(e, answer)
  BY DEF Commit, Answers
<1>5. day' = day /\ rewards' = rewards /\ look' = look /\ progress' = Progressed(e)
  BY DEF Commit
<1>6. /\ seasonLock = e /\ profileLock = e /\ seen[e] = profile
      /\ began[e] \in Days /\ computed[e] \in Days /\ began[e] <= computed[e] /\ computed[e] <= day
      /\ \A d \in Active : d \in Nat /\ d <= computed[e]
      /\ EventTypes(Entry(e, xp)) /\ xp \in Nat
  BY <1>1, FinishFacts
<1>7. /\ seasonLock' \in Calls \cup {Free, Reader} /\ profileLock' \in Calls \cup {Free}
      /\ pc' \in [Calls -> Places] /\ pc'[e] = answer
      /\ began' \in [Calls -> 0..MaxDay] /\ computed' \in [Calls -> 0..MaxDay]
      /\ seen' \in [Calls -> Profiles]
      /\ \A s \in Calls \ {e} :
           /\ pc'[s] = pc[s] /\ began'[s] = began[s] /\ computed'[s] = computed[s] /\ seen'[s] = seen[s]
           /\ seasonLock = s => seasonLock' = s
           /\ profileLock = s => profileLock' = s
  BY <1>1, <1>2, <1>4, EndFacts
<1>8. /\ Active' = Active \cup {began[e], computed[e]}
      /\ Streak(e) \in Nat /\ Streak(e) <= Cardinality(Active') + Cardinality(AcrossMidnight')
      /\ (\A d \in Active' : d <= began[e] + 1) =>
            Streak(e) <= Cardinality({d \in Active' : d <= began[e]}) + Cardinality(AcrossMidnight')
  BY <1>1, <1>3, StreakFacts
<1>9. /\ profile'.xp = profile.xp + xp /\ profile'.streak = Streak(e) /\ profile'.last = began[e]
      /\ profile' \in Profiles
  <2> DEFINE sum == profile.xp + xp
             n == Streak(e)
             b == began[e]
  <2>1. profile \in Profiles /\ sum \in Nat /\ n \in Nat /\ b \in 0..MaxDay
    <3>1. profile \in Profiles
      BY <1>1 DEF ProgressionTypes
    <3>2. profile.xp \in Nat
      BY <3>1 DEF Profiles
    <3> HIDE DEF n
    <3> QED
      BY <1>6, <1>8, <3>1, <3>2, DayFacts DEF Days, n
  <2>2. profile' = [profile EXCEPT !.xp = sum, !.streak = n, !.last = b]
    BY <1>3, <1>6
  <2> HIDE DEF sum, n, b
  <2>3. profile'.xp = sum /\ profile'.streak = n /\ profile'.last = b /\ profile' \in Profiles
    BY <2>1, <2>2 DEF Profiles
  <2> QED
    BY <2>3 DEF sum, n, b
<1>10. \A q \in Quests, d \in Days : /\ QuestInv(q, d)' /\ progress'[q][d] \in Nat
                                     /\ progress[q][d] = q.target => progress'[q][d] = q.target
  BY <1>1, <1>3, <1>5, ProgressFacts
<1>11. ProgressionTypes'
  <2>1. IsFiniteSet(recorded') /\ \A r \in recorded' : EventTypes(r)
    <3> DEFINE row == Entry(e, xp)
    <3>1. EventTypes(row) /\ recorded' = recorded \cup {row}
      BY <1>3, <1>6
    <3> HIDE DEF row
    <3> QED
      BY <1>1, <3>1, FS_AddElement DEF ProgressionTypes
  <2>2. progress' \in [Quests -> [Days -> Nat]]
    <3>1. progress' = [q \in Quests |-> [d \in Days |-> progress'[q][d]]]
      BY <1>5 DEF Progressed
    <3>2. \A q \in Quests, d \in Days : progress'[q][d] \in Nat
      BY <1>10
    <3> QED
      BY <3>1, <3>2
  <2>3. (\A r \in recorded' : EventTypes(r)) <=> (\A r \in recorded : EventTypes(r))'
    BY DEF EventTypes
  <2>4. day' \in Days /\ season' \in Nat /\ rewards' \in [Quests -> [Days -> Nat]]
    BY <1>1, <1>3, <1>5, <1>6 DEF ProgressionTypes
  <2> QED
    BY <1>7, <1>9, <2>1, <2>2, <2>3, <2>4 DEF ProgressionTypes
<1>12. XpIsExplained'
  BY <1>1, <1>3, <1>5, <1>9, ExperienceGrows
<1>13. StreakInv'
  <2>1. Active' = UNION {r.on : r \in recorded'} /\ Active' = (UNION {r.on : r \in recorded})'
    BY DEF Active
  <2>2. StreakIsEarned'
    BY <1>8, <1>9, <2>1 DEF StreakIsEarned
  <2>3. \A d \in Active' : d <= day'
    <3>1. day \in Nat /\ computed[e] \in Nat /\ began[e] \in Nat
      BY <1>1, <1>6, DayFacts DEF ProgressionTypes
    <3> QED
      BY <1>5, <1>6, <1>8, <3>1
  <2>4. profile'.last # Never /\ profile'.last \in Active'
    BY <1>6, <1>8, <1>9, DayFacts DEF Never, Days
  <2>5. (\A d \in Active' : d <= profile'.last + 1) =>
          profile'.streak <= Cardinality(UpTo(profile.last)') + Cardinality(AcrossMidnight')
    BY <1>8, <1>9 DEF UpTo
  <2> QED
    BY <2>2, <2>3, <2>4, <2>5 DEF StreakInv
<1>14. LookInv'
  BY <1>2, <1>5, <1>6 DEF ProgressionInv, LookInv, Unread
<1>15. (\A s \in Events : EventInv(s)') /\ \A c \in Claims : ClaimInv(c)'
  <2>1. EventInv(e)'
    BY <1>7 DEF EventInv
  <2>2. \A s \in Calls \ {e} :
           /\ pc'[s] = pc[s] /\ began'[s] = began[s] /\ computed'[s] = computed[s] /\ seen'[s] = seen[s]
           /\ seasonLock = s => seasonLock' = s /\ recorded' = recorded
           /\ profileLock = s => profileLock' = s /\ profile' = profile
    BY <1>6, <1>7
  <2> QED
    BY <1>2, <1>5, <1>10, <2>1, <2>2, CallsStep
<1> QED
  BY <1>10, <1>11, <1>12, <1>13, <1>14, <1>15 DEF ProgressionInv

-----------------------------------------------------------------------------
(* GetProfile: its lock keeps the season as it is between the two reads.   *)
LEMMA ReaderStep ==
  ASSUME ProgressionInv, GetProfile
  PROVE  ProgressionInv'
<1>1. ProgressionTypes
  BY DEF ProgressionInv
<1>2. UNCHANGED stored /\ day' = day /\ profileLock' = profileLock /\ seen' = seen /\ UNCHANGED call
      /\ (seasonLock' = seasonLock \/ (seasonLock = Free /\ seasonLock' = Reader) \/ (seasonLock = Reader /\ seasonLock' = Free))
  BY DEF GetProfile, EnsureSeason, ReadProfile, ProfileShown, locks
<1>3. profile' = profile /\ recorded' = recorded /\ season' = season /\ progress' = progress /\ rewards' = rewards
      /\ pc' = pc /\ began' = began /\ computed' = computed
  BY <1>2 DEF stored, call
<1>4. ProgressionTypes'
  BY <1>1, <1>2, <1>3 DEF ProgressionTypes, EventTypes
<1>5. LookInv'
  <2>1. CASE EnsureSeason \/ ProfileShown
    BY <2>1 DEF EnsureSeason, ProfileShown, LookInv, Unread
  <2>2. CASE ReadProfile
    <3>1. look'.xp = profile.xp /\ look'.paid = Paid /\ seasonLock' = Reader
      BY <2>2 DEF ReadProfile, locks
    <3>2. profile.xp = season + Paid
      BY DEF ProgressionInv, XpIsExplained
    <3> QED
      BY <1>3, <3>1, <3>2 DEF LookInv
  <2> QED
    BY <2>1, <2>2 DEF GetProfile
<1>6. (\A e \in Events : EventInv(e)') /\ \A c \in Claims : ClaimInv(c)'
  <2>1. \A s \in Calls \ {Reader} :
           /\ pc'[s] = pc[s] /\ began'[s] = began[s] /\ computed'[s] = computed[s] /\ seen'[s] = seen[s]
           /\ seasonLock = s => seasonLock' = s /\ recorded' = recorded
           /\ profileLock = s => profileLock' = s /\ profile' = profile
    BY <1>2, <1>3, DayFacts
  <2>2. Reader \notin Events /\ Reader \notin Claims
    BY DayFacts DEF Calls
  <2> QED
    BY <1>2, <1>3, <2>1, <2>2, CallsStep
<1> QED
  BY <1>2, <1>4, <1>5, <1>6, StoredStays DEF ProgressionInv

(* Where only the day or an answer changes.                                *)
LEMMA ElseStep ==
  ASSUME ProgressionInv, ClaimStreakShield \/ ActivateBoost \/ Midnight \/ UNCHANGED vars
  PROVE  ProgressionInv'
<1>1. ProgressionTypes
  BY DEF ProgressionInv
<1>2. UNCHANGED stored /\ UNCHANGED locks /\ UNCHANGED call /\ look' = look
      /\ (day' = day \/ (day < MaxDay /\ day' = day + 1))
  BY DEF ClaimStreakShield, ActivateBoost, Midnight, vars
<1>3. profile' = profile /\ recorded' = recorded /\ season' = season /\ progress' = progress /\ rewards' = rewards
      /\ seasonLock' = seasonLock /\ profileLock' = profileLock /\ seen' = seen
      /\ pc' = pc /\ began' = began /\ computed' = computed
  BY <1>2 DEF stored, locks, call
<1>4. day' \in Days
  BY <1>1, <1>2, DayFacts DEF ProgressionTypes, Days
<1>5. ProgressionTypes'
  BY <1>1, <1>3, <1>4 DEF ProgressionTypes, EventTypes
<1>6. Reader \notin Events /\ Reader \notin Claims
  BY DayFacts DEF Calls
<1> QED
  BY <1>2, <1>3, <1>5, <1>6, MoveKeeps

(* Every step.                                                             *)
LEMMA ProgressionSteps == ProgressionInv /\ [Next]_vars => ProgressionInv'
<1> SUFFICES ASSUME ProgressionInv, [Next]_vars PROVE ProgressionInv'
  OBVIOUS
<1>1. ASSUME NEW e \in Events, Begin(e) \/ RecordEvent(e) PROVE ProgressionInv'
  <2>1. e \in Calls
    BY DEF Calls
  <2>2. CASE InsertNothing(e)
    BY <2>1, <2>2, EndKeeps DEF InsertNothing
  <2>3. CASE Refused(e)
    BY <2>1, <2>3, RollbackKeeps DEF Refused
  <2>4. CASE Commit(e)
    BY <2>4, CommitStep
  <2>5. CASE Begin(e) \/ LockSeason(e) \/ Insert(e) \/ LockProfile(e) \/ LockQuests(e)
    BY <2>5, EventStep
  <2> QED
    BY <1>1, <2>2, <2>3, <2>4, <2>5 DEF RecordEvent
<1>2. ASSUME NEW c \in Claims, Read(c) \/ ClaimQuest(c) PROVE ProgressionInv'
  BY <1>2, ClaimStep, PayStep DEF ClaimQuest
<1>3. ASSUME NEW r \in Calls, Fail(r) PROVE ProgressionInv'
  BY <1>3, RollbackKeeps DEF Fail
<1>4. ASSUME DetectDeadlock PROVE ProgressionInv'
  BY <1>4, RollbackKeeps DEF DetectDeadlock
<1>5. ASSUME GetProfile PROVE ProgressionInv'
  BY <1>5, ReaderStep
<1>6. ASSUME ClaimStreakShield \/ ActivateBoost \/ Midnight \/ Done \/ UNCHANGED vars PROVE ProgressionInv'
  BY <1>6, ElseStep DEF Done
<1> QED
  BY <1>1, <1>2, <1>3, <1>4, <1>5, <1>6 DEF Next

(* What the invariant says of the rows of a user.                          *)
LEMMA ProgressionFollows == ProgressionInv => AllIsEarned
<1> SUFFICES ASSUME ProgressionInv PROVE AllIsEarned
  OBVIOUS
<1>1. XpIsExplained /\ StreakIsEarned
  BY DEF ProgressionInv, StreakInv
<1>2. ProgressIsEarned
  BY DEF ProgressionInv, QuestInv, ProgressIsEarned
<1>3. ProfileAgrees
  BY DEF ProgressionInv, LookInv, ProfileAgrees
<1> QED
  BY <1>1, <1>2, <1>3 DEF AllIsEarned

(* For any number of events, claims, quests and readers, and whatever is   *)
(* retried, aborted or answered with a failure after its commit, the       *)
(* experience of RecordEvent and ClaimQuest adds up, quests and streaks are*)
(* what the recorded events explain, and a profile agrees with its season. *)
THEOREM AllIsEarnedAlways == Spec => []AllIsEarned
<1>1. Spec => []ProgressionInv
  BY ProgressionStarts, ProgressionSteps, PTL DEF Spec
<1> QED
  BY <1>1, ProgressionFollows, PTL
=============================================================================
