------------------------------ MODULE Community ------------------------------
(***************************************************************************)
(* backend/internal/modules/community: groups with their members, bans,    *)
(* guidelines and events, collectives with their threads, subscriptions.   *)
(* A handler loads a group, compares its owner, and then changes rows in   *)
(* statements of their own; no two of its statements are one transaction.  *)
(* An action is a step of a handler, a New operator the row that the       *)
(* service composes for it, and an Insert or a Set the statement of the    *)
(* repository.  What a call names is something that its caller was listed. *)
(***************************************************************************)
EXTENDS Integers, FiniteSets

CONSTANTS
  People,
  Groups, GroupOwner, Closed,  \* Closed: is_private, which no call changes
  GroupCalls,
  GroupCall,      \* of each: op, by, group, other (a member), arg
  RunsAtFirst,    \* the groups there are, each with its owner
  MembersAtFirst, \* pairs of a group and a person
  MaxGuidelines,  \* guidelines of one update
  MaxGroupCalls   \* bound: the calls made in one behaviour

Roles == {"owner", "admin", "moderator", "member", "banned"}
GroupOps == {"found", "join", "leave", "settings", "ban", "unban", "role", "guide", "organize", "rsvp",
             "cancel", "thread", "resonate", "pin", "lock", "reply", "gather", "enter",
             "subscribe", "unsubscribe", "tier"}

(* arg is the role of "role", the flag of "pin" and "lock", the delta of   *)
(* "resonate" and the tier of a subscription; other calls have one too.    *)
ASSUME CommunityAssumption ==
  /\ IsFiniteSet(People)
  /\ GroupOwner \in [Groups -> People] /\ Closed \subseteq Groups /\ RunsAtFirst \subseteq Groups
  /\ MembersAtFirst \subseteq RunsAtFirst \X People
  /\ \A c \in GroupCalls :
       /\ GroupCall[c].op \in GroupOps /\ GroupCall[c].by \in People /\ GroupCall[c].group \in Groups
       /\ GroupCall[c].op = "found" => GroupOwner[GroupCall[c].group] = GroupCall[c].by
       /\ GroupCall[c].op \in {"ban", "unban", "role"} => GroupCall[c].other \in People
       /\ GroupCall[c].op = "role" => GroupCall[c].arg \in Roles
  /\ MaxGuidelines \in Nat /\ MaxGroupCalls \in Nat

VARIABLES
  runs,        \* the rows of communities
  role,        \* community_members: of each group and person, {} or the role
  guidelines,  \* of each group: pairs of the call that wrote one and its place
  organized,   \* community_proposals: the rows of the events
  going,       \* event_attendees: pairs of an event and a person
  threads,     \* rows named by their calls, with two flags and the resonance
  replies,     \* rows of the replies
  gathered, entered,  \* collectives, and pairs of a collective and a member
  subscribed,  \* rows of the subscriptions
  call, place, \* where each call is, and the guideline it writes next
  expelled     \* history: whose row a ban has changed, and no pardon since

groupVars == <<runs, role, guidelines>>
eventVars == <<organized, going>>
threadVars == <<threads, replies, gathered, entered>>
communityVars == <<groupVars, eventVars, threadVars, subscribed, call, place, expelled>>

CommunityInit ==
  /\ runs = RunsAtFirst
  /\ role = [g \in Groups |-> [u \in People |->
       IF g \in RunsAtFirst /\ GroupOwner[g] = u THEN {"owner"}
       ELSE IF <<g, u>> \in MembersAtFirst THEN {"member"} ELSE {}]]
  /\ guidelines = [g \in Groups |-> {}] /\ organized = {} /\ going = {}
  /\ threads = {} /\ replies = {} /\ gathered = {} /\ entered = {} /\ subscribed = {}
  /\ call = [c \in GroupCalls |-> "idle"] /\ place = [c \in GroupCalls |-> 1]
  /\ expelled = {}

Caller(c) == GroupCall[c].by
Group(c) == GroupCall[c].group
Other(c) == GroupCall[c].other
Arg(c) == GroupCall[c].arg
Does(c, op) == GroupCall[c].op = op
CallGoto(c, l) == call' = [call EXCEPT ![c] = l] /\ UNCHANGED place
Opens(c, op) ==
  Does(c, op) /\ call[c] = "idle" /\ Cardinality({d \in GroupCalls : call[d] # "idle"}) < MaxGroupCalls
Goes(c, op, l) == Does(c, op) /\ call[c] = l
Owns(c) == GroupOwner[Group(c)] = Caller(c)

-----------------------------------------------------------------------------
(* Groups and members                                                      *)

InsertCommunity(g) == runs' = runs \cup {g}
CreateCommunity(c) ==
  /\ Opens(c, "found") /\ CallGoto(c, "insert") /\ InsertCommunity(Group(c))
  /\ UNCHANGED <<role, guidelines, eventVars, threadVars, subscribed, expelled>>

(* A second row of one member breaks the key, and the statement fails.     *)
JoinCommunity(c, as) ==
  /\ call[c] = "insert"
  /\ IF role[Group(c)][Caller(c)] = {}
     THEN role' = [role EXCEPT ![Group(c)][Caller(c)] = {as}] /\ CallGoto(c, "done")
     ELSE CallGoto(c, "failed") /\ UNCHANGED role
  /\ UNCHANGED <<runs, guidelines, eventVars, threadVars, subscribed, expelled>>

CreateGroup(c) == Does(c, "found") /\ JoinCommunity(c, "owner")
Join(c) == Does(c, "join") /\ JoinCommunity(c, "member")

(* GetCommunity, and what the handlers ask of the row.                     *)
MayJoin(c) == Group(c) \notin Closed \/ Owns(c)
JoinLoads(c) ==
  /\ Opens(c, "join")
  /\ CallGoto(c, IF Group(c) \in runs /\ MayJoin(c) THEN "insert" ELSE "refused")
  /\ UNCHANGED <<groupVars, eventVars, threadVars, subscribed, expelled>>

OwnerOps == {"settings", "ban", "unban", "role", "guide"}
OwnerLoads(c) ==
  /\ GroupCall[c].op \in OwnerOps /\ Opens(c, GroupCall[c].op)
  /\ CallGoto(c, IF Group(c) \in runs /\ Owns(c) THEN "write" ELSE "refused")
  /\ UNCHANGED <<groupVars, eventVars, threadVars, subscribed, expelled>>

(* Every column gets the value it was loaded with: the settings that the   *)
(* call brought are answered, and the statement has no column for them.    *)
UpdateSettings(c) ==
  /\ Goes(c, "settings", "write") /\ CallGoto(c, "done")
  /\ UNCHANGED <<groupVars, eventVars, threadVars, subscribed, expelled>>

(* Mutant: leaving takes away the row of a ban as well.                    *)
LeaveAnyhow(c) ==
  /\ Opens(c, "leave") /\ CallGoto(c, "done")
  /\ role' = [role EXCEPT ![Group(c)][Caller(c)] = {}]
  /\ UNCHANGED <<runs, guidelines, eventVars, threadVars, subscribed, expelled>>

DeleteMember(g, u) == role' = [role EXCEPT ![g][u] = @ \cap {"banned"}]
LeaveCommunity(c) ==
  /\ Opens(c, "leave") /\ CallGoto(c, "done") /\ DeleteMember(Group(c), Caller(c))
  /\ UNCHANGED <<runs, guidelines, eventVars, threadVars, subscribed, expelled>>

HasRow(c) == role[Group(c)][Other(c)] # {}
Case(c) == <<Group(c), Other(c)>>

(* UPDATE ... SET role = 'banned': without a row nothing is changed, and   *)
(* the answer is the same.                                                 *)
BanMember(c) ==
  /\ Goes(c, "ban", "write") /\ CallGoto(c, "done")
  /\ role' = [role EXCEPT ![Group(c)][Other(c)] = IF HasRow(c) THEN {"banned"} ELSE {}]
  /\ expelled' = IF HasRow(c) THEN expelled \cup {Case(c)} ELSE expelled
  /\ UNCHANGED <<runs, guidelines, eventVars, threadVars, subscribed>>

UnbanMember(c) ==
  /\ Goes(c, "unban", "write") /\ CallGoto(c, "done")
  /\ role' = [role EXCEPT ![Group(c)][Other(c)] = IF @ = {"banned"} THEN {"member"} ELSE @]
  /\ expelled' = expelled \ {Case(c)}
  /\ UNCHANGED <<runs, guidelines, eventVars, threadVars, subscribed>>

UpdateMemberRole(c) ==
  /\ Goes(c, "role", "write")
  /\ IF HasRow(c)
     THEN /\ role' = [role EXCEPT ![Group(c)][Other(c)] = {Arg(c)}] /\ CallGoto(c, "done")
          /\ expelled' = IF Arg(c) = "banned" THEN expelled \cup {Case(c)} ELSE expelled \ {Case(c)}
     ELSE CallGoto(c, "failed") /\ UNCHANGED <<role, expelled>>
  /\ UNCHANGED <<runs, guidelines, eventVars, threadVars, subscribed>>

(* UpdateGuidelines: a DELETE, and then an INSERT for each.                *)
DeleteGuidelines(c) ==
  /\ Goes(c, "guide", "write") /\ CallGoto(c, "inserts")
  /\ guidelines' = [guidelines EXCEPT ![Group(c)] = {}]
  /\ UNCHANGED <<runs, role, eventVars, threadVars, subscribed, expelled>>

InsertGuideline(c) ==
  /\ Goes(c, "guide", "inserts") /\ place[c] <= MaxGuidelines
  /\ guidelines' = [guidelines EXCEPT ![Group(c)] = @ \cup {<<c, place[c]>>}]
  /\ place' = [place EXCEPT ![c] = @ + 1]
  /\ UNCHANGED <<runs, role, eventVars, threadVars, subscribed, call, expelled>>

UpdatedGuidelines(c) ==
  /\ Goes(c, "guide", "inserts") /\ place[c] > MaxGuidelines /\ CallGoto(c, "done")
  /\ UNCHANGED <<groupVars, eventVars, threadVars, subscribed, expelled>>

-----------------------------------------------------------------------------
(* What is shown.  A ban counts as no membership.                          *)

Belongs(u, g) == role[g][u] \notin {{}, {"banned"}}

CanViewCommunity(u, g) == g \in runs /\ (g \notin Closed \/ GroupOwner[g] = u \/ Belongs(u, g))

(* The role of one who does not belong is "member", banned or a stranger:  *)
(* the flag alone tells.  The answers that follow know of neither.         *)
Listing(u, g) ==
  [group |-> g, joined |-> Belongs(u, g), role |-> IF Belongs(u, g) THEN role[g][u] ELSE {"member"}]
ListCommunities(u) == {Listing(u, g) : g \in {h \in runs : h \notin Closed \/ GroupOwner[h] = u \/ Belongs(u, h)}}
GetTrendingCommunities == runs \ Closed
SearchCommunities == {g \in runs : g \notin Closed}

(* Banned ones too, who are not active.                                    *)
GetCommunityMembers(g) ==
  {[user |-> u, role |-> role[g][u], active |-> role[g][u] # {"banned"}] : u \in {v \in People : role[g][v] # {}}}
GetCommunityGuidelines(g) == guidelines[g]

GetCommunity(u) == {g \in Groups : CanViewCommunity(u, g)}
GetGuidelines(u, g) == IF CanViewCommunity(u, g) THEN GetCommunityGuidelines(g) ELSE {}
Members(u, g) == IF CanViewCommunity(u, g) THEN GetCommunityMembers(g) ELSE {}

EventsOf(g) == {e \in organized : e.group = g}
ListEvents(u) ==
  {e \in organized : e.by = u \/ <<e.id, u>> \in going \/ Belongs(u, e.group)}
GetAttendees(e) == {u \in People : <<e, u>> \in going}
GetUpcomingEvents(u) == {e \in organized : e.by = u \/ u \in GetAttendees(e.id)}

(* The rows that are counted; the owner alone is shown the numbers.  The   *)
(* active ones are who organized an event, members or not.                 *)
GetCommunityAnalytics(g) ==
  [members |-> Cardinality({u \in People : role[g][u] \notin {{}, {"banned"}}}),
   active |-> Cardinality({e.by : e \in EventsOf(g)}), events |-> Cardinality(EventsOf(g))]
Analytics(u) == [g \in {h \in runs : GroupOwner[h] = u} |-> GetCommunityAnalytics(g)]

(* GetCommunity counts the members without the banned ones.                *)
MemberCount(g) == Cardinality({u \in People : Belongs(u, g)})

-----------------------------------------------------------------------------
(* Events                                                                  *)

NewEvent(c) == [id |-> c, by |-> Caller(c), group |-> Group(c), title |-> c]
InsertEvent(e) == organized' = organized \cup {e}
CreateEvent(c) ==
  /\ Opens(c, "organize") /\ CallGoto(c, "done") /\ InsertEvent(NewEvent(c))
  /\ UNCHANGED <<groupVars, going, threadVars, subscribed, expelled>>

(* Whatever status is asked for, 'going' is written, once.                 *)
InsertAttendee(e, u) == going' = going \cup {<<e, u>>}
RSVP(c) ==
  /\ Opens(c, "rsvp") /\ (\E e \in organized : e.id = Other(c)) /\ CallGoto(c, "done")
  /\ InsertAttendee(Other(c), Caller(c))
  /\ UNCHANGED <<groupVars, organized, threadVars, subscribed, expelled>>

(* The row has no status: one that is read is "published", and one that is *)
(* written is left out.                                                    *)
GetEvent(id) == {[event |-> e, status |-> "published"] : e \in {x \in organized : x.id = id}}
Cancelled(id) == {[v EXCEPT !.status = "cancelled"] : v \in GetEvent(id)}
UpdateEvent(id, v) ==
  organized' = {IF e.id = id THEN [e EXCEPT !.title = v.event.title] ELSE e : e \in organized}

CancelEvent(c) ==
  /\ Opens(c, "cancel") /\ GetEvent(Other(c)) # {}
  /\ CallGoto(c, IF \E v \in GetEvent(Other(c)) : v.event.by = Caller(c) THEN "write" ELSE "refused")
  /\ UNCHANGED <<groupVars, eventVars, threadVars, subscribed, expelled>>

WriteCancelled(c) ==
  /\ Goes(c, "cancel", "write") /\ CallGoto(c, "done")
  /\ \E v \in Cancelled(Other(c)) : UpdateEvent(Other(c), v)
  /\ UNCHANGED <<groupVars, going, threadVars, subscribed, expelled>>

-----------------------------------------------------------------------------
(* Collectives and threads; the other of a call is the one it is about     *)

NewCollective(c) == [id |-> c, official |-> FALSE]
InsertCollective(x) == gathered' = gathered \cup {x}
CreateCollective(c) ==
  /\ Opens(c, "gather") /\ CallGoto(c, "done") /\ InsertCollective(NewCollective(c))
  /\ UNCHANGED <<groupVars, eventVars, threads, replies, entered, subscribed, expelled>>

(* Official ones are listed first; the pages are left out.                 *)
GetCollectives == {x.id : x \in gathered}
InsertCollectiveMember(x, u) == entered' = entered \cup {<<x, u>>}
JoinCollective(c) ==
  /\ Opens(c, "enter") /\ Other(c) \in GetCollectives /\ CallGoto(c, "done")
  /\ InsertCollectiveMember(Other(c), Caller(c))
  /\ UNCHANGED <<groupVars, eventVars, threads, replies, gathered, subscribed, expelled>>

NewThread(c) == [id |-> c, of |-> Other(c), by |-> Caller(c), pinned |-> FALSE, locked |-> FALSE, resonance |-> 0]
InsertThread(t) == threads' = threads \cup {t}
CreateThread(c) ==
  /\ Opens(c, "thread") /\ Other(c) \in GetCollectives /\ CallGoto(c, "done")
  /\ InsertThread(NewThread(c))
  /\ UNCHANGED <<groupVars, eventVars, replies, gathered, entered, subscribed, expelled>>

GetThreads(x) == {t.id : t \in {y \in threads : y.of = x}}
ListedThreads == UNION {GetThreads(x) : x \in GetCollectives}

(* None of the next three asks who calls.                                  *)
SetResonance(t, delta) == threads' = {IF x.id = t THEN [x EXCEPT !.resonance = @ + delta] ELSE x : x \in threads}
Resonate(t, up) == SetResonance(t, IF up THEN 1 ELSE -1)
ResonateThread(c) ==
  /\ Opens(c, "resonate") /\ Other(c) \in ListedThreads /\ Arg(c) \in {1, -1} /\ CallGoto(c, "done")
  /\ Resonate(Other(c), Arg(c) > 0)
  /\ UNCHANGED <<groupVars, eventVars, replies, gathered, entered, subscribed, expelled>>

SetPinned(t, flag) == threads' = {IF x.id = t THEN [x EXCEPT !.pinned = flag] ELSE x : x \in threads}
PinThread(c) ==
  /\ Opens(c, "pin") /\ Other(c) \in ListedThreads /\ CallGoto(c, "done") /\ SetPinned(Other(c), Arg(c))
  /\ UNCHANGED <<groupVars, eventVars, replies, gathered, entered, subscribed, expelled>>

SetLocked(t, flag) == threads' = {IF x.id = t THEN [x EXCEPT !.locked = flag] ELSE x : x \in threads}
LockThread(c) ==
  /\ Opens(c, "lock") /\ Other(c) \in ListedThreads /\ CallGoto(c, "done") /\ SetLocked(Other(c), Arg(c))
  /\ UNCHANGED <<groupVars, eventVars, replies, gathered, entered, subscribed, expelled>>

(* The lock is not looked at, and the parent that the caller names is put  *)
(* into the answer after the row was written without one.                  *)
NewReply(c) == [id |-> c, of |-> Other(c), by |-> Caller(c), parent |-> {}]
InsertReply(r) == replies' = replies \cup {r}
CreateThreadReply(c) ==
  /\ Opens(c, "reply") /\ Other(c) \in ListedThreads /\ CallGoto(c, "done")
  /\ InsertReply(NewReply(c))
  /\ UNCHANGED <<groupVars, eventVars, threads, gathered, entered, subscribed, expelled>>

-----------------------------------------------------------------------------
(* Subscriptions: for thirty days, which no behaviour outlasts             *)

NewSubscription(c) == [id |-> c, by |-> Caller(c), tier |-> Arg(c)]
InsertSubscription(v) == subscribed' = subscribed \cup {[subscription |-> v, active |-> TRUE, autoRenew |-> TRUE]}
CreateSubscription(c) ==
  /\ Opens(c, "subscribe") /\ CallGoto(c, "done") /\ InsertSubscription(NewSubscription(c))
  /\ UNCHANGED <<groupVars, eventVars, threadVars, expelled>>

GetSubscription(id) == {v \in subscribed : v.subscription.id = id}
GetUserSubscriptions(u) == {v \in subscribed : v.subscription.by = u}

(* The subscriber is compared; UpdateSubscription loads in the same way.   *)
SubscriberLoads(c) ==
  /\ GroupCall[c].op \in {"unsubscribe", "tier"} /\ Opens(c, GroupCall[c].op)
  /\ GetSubscription(Other(c)) # {}
  /\ CallGoto(c, IF GetSubscription(Other(c)) \subseteq GetUserSubscriptions(Caller(c)) THEN "write" ELSE "refused")
  /\ UNCHANGED <<groupVars, eventVars, threadVars, subscribed, expelled>>

(* Neither says anything of the renewal.                                   *)
SetCancelled(id) ==
  subscribed' = {IF v.subscription.id = id THEN [v EXCEPT !.active = FALSE] ELSE v : v \in subscribed}
CancelSubscription(c) ==
  /\ Goes(c, "unsubscribe", "write") /\ CallGoto(c, "done") /\ SetCancelled(Other(c))
  /\ UNCHANGED <<groupVars, eventVars, threadVars, expelled>>

SetTier(id, tier) ==
  subscribed' = {IF v.subscription.id = id THEN [v EXCEPT !.subscription.tier = tier] ELSE v : v \in subscribed}
UpdateSubscription(c) ==
  /\ Goes(c, "tier", "write") /\ CallGoto(c, "done") /\ SetTier(Other(c), Arg(c))
  /\ UNCHANGED <<groupVars, eventVars, threadVars, expelled>>

-----------------------------------------------------------------------------

(* A statement fails, or the process dies before it.                       *)
CallFails(c) ==
  /\ call[c] \in {"insert", "write", "inserts"} /\ CallGoto(c, "failed")
  /\ UNCHANGED <<groupVars, eventVars, threadVars, subscribed, expelled>>

Asking(ops) == {c \in GroupCalls : GroupCall[c].op \in ops}

CommunityNext ==
  \/ \E c \in Asking({"found", "join", "leave"}) :
       CreateCommunity(c) \/ CreateGroup(c) \/ JoinLoads(c) \/ Join(c) \/ LeaveCommunity(c)
  \/ \E c \in Asking(OwnerOps) :
       \/ OwnerLoads(c) \/ UpdateSettings(c) \/ BanMember(c) \/ UnbanMember(c) \/ UpdateMemberRole(c)
       \/ DeleteGuidelines(c) \/ InsertGuideline(c) \/ UpdatedGuidelines(c)
  \/ \E c \in Asking({"organize", "rsvp", "cancel"}) : 
       CreateEvent(c) \/ RSVP(c) \/ CancelEvent(c) \/ WriteCancelled(c)
  \/ \E c \in Asking({"gather", "enter"}) : CreateCollective(c) \/ JoinCollective(c)
  \/ \E c \in Asking({"thread", "resonate", "pin", "lock", "reply"}) :
       CreateThread(c) \/ ResonateThread(c) \/ PinThread(c) \/ LockThread(c) \/ CreateThreadReply(c)
  \/ \E c \in Asking({"subscribe", "unsubscribe", "tier"}) :
       CreateSubscription(c) \/ SubscriberLoads(c) \/ CancelSubscription(c) \/ UpdateSubscription(c)
  \/ \E c \in GroupCalls : CallFails(c)

CommunitySpec == CommunityInit /\ [][CommunityNext]_communityVars

-----------------------------------------------------------------------------
(* Correctness                                                             *)

(* A member who was banned stays banned, however they leave and join, until *)
(* the owner lifts the ban: neither the group nor the members of its        *)
(* analytics count them, the list of groups does not say that they joined,  *)
(* the list of members does not say that they are active, and of the events *)
(* of the group they see those of their own calendar.  (The list of groups  *)
(* names their role "member", as it does for a stranger; the list of        *)
(* members names them; and if they organized an event, the analytics count  *)
(* them as active.)                                                         *)
BansHold ==
  \A p \in expelled :
    LET g == p[1]
        u == p[2]
        others == Cardinality({v \in People \ {u} : role[g][v] # {}})
    IN  /\ role[g][u] = {"banned"}
        /\ MemberCount(g) <= others
        /\ g \in DOMAIN Analytics(GroupOwner[g]) /\ Analytics(GroupOwner[g])[g].members <= others
        /\ \A v \in ListCommunities(u) : v.group = g => ~v.joined
        /\ \A w \in People : \A m \in Members(w, g) : m.user = u => ~m.active
        /\ ListEvents(u) \cap EventsOf(g) \subseteq GetUpcomingEvents(u)
=============================================================================
