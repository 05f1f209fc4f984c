------------------------------- MODULE Content -------------------------------
(***************************************************************************)
(* Posts and stories together with the graph that says who may see them:   *)
(* the calls of the three modules interleave on the rows of follows.       *)
(***************************************************************************)
EXTENDS Posts, Stories

CONSTANTS
  MaxCalls,   \* bound: the calls made, and stories expired, in one behaviour
  Scenes      \* bound: sets of calls; those of one behaviour are of one set

AllCalls == SocialCalls \cup PostCalls \cup StoryCalls

ASSUME ContentAssumption == MaxCalls \in Nat /\ UNION Scenes = AllCalls

allContentVars == <<socialVars, contentVars, storyVars>>

ContentInit == SocialInit /\ PostsInit /\ StoriesInit

Begun ==
  {c \in SocialCalls : social[c] # "idle"} \cup {c \in PostCalls : post[c] # "idle"}
  \cup {c \in StoryCalls : story[c] # "idle"}
Room == Cardinality(Begun) + Cardinality(expired) < MaxCalls
MayBegin == IF Room THEN UNION {scene \in Scenes : Begun \subseteq scene} ELSE {}

Over == {"done", "refused", "failed", "duplicate"}
Going(calls, at, open) == {c \in calls : at[c] \notin Over /\ (at[c] = "idle" => c \in open)}

ContentNext ==
  \E open \in {MayBegin} :
    \/ (\E c \in Going(SocialCalls, social, open) : SocialStep(c)) /\ UNCHANGED <<contentVars, storyVars>>
    \/ (\E c \in Going(PostCalls, post, open) : PostStep(c)) /\ UNCHANGED <<socialVars, storyVars>>
    \/ (\E c \in Going(StoryCalls, story, open) : StoryStep(c)) /\ UNCHANGED <<socialVars, contentVars>>
    \/ (\E t \in Tales : Room /\ Expire(t)) /\ UNCHANGED <<socialVars, contentVars>>

ContentSpec == ContentInit /\ [][ContentNext]_allContentVars

-----------------------------------------------------------------------------
(* Correctness                                                             *)

AudienceOf(t) == IF t \in PublicTales THEN "public" ELSE "followers"

(* Whether a user may know a post or a story of that audience: a private   *)
(* account shares what is for its followers with those it has accepted.    *)
Entrusted(u, author, audience) ==
  \/ u = author \/ audience = "public"
  \/ audience = "followers" /\ (author \in PrivateUsers => <<u, author>> \in agreed)

(* GetFeed takes a post for its author alone for one for the followers.    *)
FeedAudience(p) == IF Audience[p] = "public" THEN "public" ELSE "followers"

(* Nobody has reacted to a post or a story, commented on the one or viewed *)
(* the other, or was shown it by a request for it, for its comments or its *)
(* analytics, who was not trusted with it: though a post is looked at in   *)
(* one statement and shown or written to in another, requests are          *)
(* answered, and followers leave, at any time between.  The list of        *)
(* stories keeps to that as well.  The feed does not: a post for its       *)
(* author alone is shown to those who are trusted with what is for the     *)
(* followers, and to nobody else.  Nothing of the kind is said of search,  *)
(* completions and trends, whose statement asks only whether the post is   *)
(* archived: they find the posts of private accounts, and those for their  *)
(* author alone, for everybody.                                            *)
PrivateStaysPrivate ==
  /\ \A r \in reactions : Entrusted(r[1], Author[r[2]], Audience[r[2]])
  /\ \A m \in comments : Entrusted(m.author, Author[m.post], Audience[m.post])
  /\ \A s \in shown : Entrusted(s[1], s[2].author, Audience[s[2].id])
  /\ \A v \in views \cup storyReactions : Entrusted(v[1], Teller[v[2]], AudienceOf(v[2]))
  /\ \A u \in Users :
       /\ \A t \in GetActiveStories(u) : Entrusted(u, Teller[t], AudienceOf(t))
       /\ \A p \in GetStream(u) : Entrusted(u, p.author, FeedAudience(p.id))
=============================================================================
