--------------------------- MODULE ContentProofs ------------------------------
(***************************************************************************)
(* Theorems of the social graph, the posts and the stories, for any users,  *)
(* follows, posts, stories and calls: who is let in, what the copies say,   *)
(* and which texts are broadcast.                                           *)
(***************************************************************************)
EXTENDS Content, TLAPS

-----------------------------------------------------------------------------
(* SocialGraph                                                              *)

Pairs == Users \X Users
Statuses == {"none", "pending", "accepted", "rejected", "cancelled"}
Places == {"idle", "track", "insert", "ask", "send", "show", "done", "refused", "failed"}

SocialTypes ==
  /\ follows \subseteq Pairs /\ agreed \subseteq Pairs /\ ended \subseteq Pairs
  /\ requests \in [Pairs -> Statuses]
  /\ social \in [SocialCalls -> Places]

(* Nobody follows a private account without its word.                      *)
FollowInv == \A p \in follows : p[2] \in PrivateUsers => p \in agreed

(* A call that is about to insert was asked for by nobody's leave but that *)
(* of the followed user, unless the account is open.                       *)
InsertInv ==
  \A c \in SocialCalls :
    social[c] \in {"track", "insert"} /\ Followed(c) \in PrivateUsers => Pair(c) \in agreed

(* What was accepted is inserted, or about to be, or over.                 *)
AgreedInv == \A p \in agreed \ (follows \cup ended) : Accepting(p)

(* One who is about to be shown something may see it.                      *)
ShowInv ==
  \A c \in SocialCalls :
    social[c] = "show" /\ Followed(c) \in PrivateUsers => Follower(c) = Followed(c) \/ Pair(c) \in agreed

KnownInv ==
  \A k \in known : k[2] \in PrivateUsers => k[1] = k[2] \/ <<k[1], k[2]>> \in agreed

SocialInv == SocialTypes /\ FollowInv /\ InsertInv /\ AgreedInv /\ ShowInv /\ KnownInv

(* The pair of a call, and its two users.                                   *)
LEMMA PairTypes ==
  ASSUME NEW c \in SocialCalls
  PROVE  /\ Pair(c) \in Pairs /\ Turned(Pair(c)) \in Pairs
         /\ Follower(c) \in Users /\ Followed(c) \in Users
         /\ Pair(c) = <<Follower(c), Followed(c)>>
         /\ SocialCall[c].status \in Statuses
  BY SocialAssumption DEF SocialAssumption, Pair, Pairs, Turned, Follower, Followed, Statuses

(* The follows there at first are of open accounts.                         *)
LEMMA SocialInitially == SocialInit => SocialInv
<1> SUFFICES ASSUME SocialInit PROVE SocialInv
  OBVIOUS
<1>1. SocialTypes
  BY SocialAssumption DEF SocialAssumption, SocialInit, SocialTypes, Pairs, Statuses, Places
<1>2. FollowInv
  BY SocialAssumption DEF SocialAssumption, SocialInit, FollowInv
<1>3. InsertInv /\ ShowInv
  BY DEF SocialInit, InsertInv, ShowInv
<1>4. AgreedInv /\ KnownInv
  BY DEF SocialInit, AgreedInv, KnownInv
<1> QED
  BY <1>1, <1>2, <1>3, <1>4 DEF SocialInv

(* The calls that only move on, and change neither follows nor requests:   *)
(* where they arrive has to be allowed.                                    *)
LEMMA MovesKeep ==
  ASSUME NEW c \in SocialCalls, NEW l \in Places, SocialInv, SocialGoto(c, l),
         social[c] # "insert",
         UNCHANGED <<follows, requests, known, agreed, ended>>,
         l \in {"track", "insert"} /\ Followed(c) \in PrivateUsers => Pair(c) \in agreed,
         l = "show" /\ Followed(c) \in PrivateUsers => Follower(c) = Followed(c) \/ Pair(c) \in agreed
  PROVE  SocialInv'
<1>1. /\ social' \in [SocialCalls -> Places] /\ social'[c] = l
      /\ \A d \in SocialCalls \ {c} : social'[d] = social[d]
  BY DEF SocialGoto, SocialInv, SocialTypes
<1>2. \A p : Accepting(p) => Accepting(p)'
  BY <1>1 DEF Accepting, Pair
<1>3. SocialTypes' /\ FollowInv' /\ KnownInv'
  BY <1>1 DEF SocialInv, SocialTypes, FollowInv, KnownInv
<1>4. AgreedInv'
  BY <1>2 DEF SocialInv, AgreedInv
<1>5. InsertInv' /\ ShowInv'
  BY <1>1 DEF SocialInv, InsertInv, ShowInv, Pair, Follower, Followed
<1> QED
  BY <1>3, <1>4, <1>5 DEF SocialInv

(* The calls that end, with changes to the follows.                        *)
LEMMA EndsKeep ==
  ASSUME NEW c \in SocialCalls, NEW l \in {"done", "refused", "failed"}, SocialInv, SocialGoto(c, l),
         UNCHANGED <<requests, known, agreed>>,
         follows' \subseteq Pairs, ended' \subseteq Pairs,
         \A p \in follows' \ follows : p[2] \in PrivateUsers => p \in agreed,
         follows \cup ended \subseteq follows' \cup ended',
         social[c] = "insert" => Pair(c) \in follows' \cup ended'
  PROVE  SocialInv'
<1>1. /\ social' \in [SocialCalls -> Places] /\ social'[c] = l
      /\ \A d \in SocialCalls \ {c} : social'[d] = social[d]
  BY DEF SocialGoto, SocialInv, SocialTypes, Places
<1>2. \A p : Accepting(p) => Accepting(p)' \/ (social[c] = "insert" /\ p = Pair(c))
  BY <1>1 DEF Accepting, Pair
<1>3. SocialTypes' /\ FollowInv' /\ KnownInv'
  BY <1>1 DEF SocialInv, SocialTypes, FollowInv, KnownInv
<1>4. AgreedInv'
  BY <1>2 DEF SocialInv, AgreedInv
<1>5. InsertInv' /\ ShowInv'
  BY <1>1 DEF SocialInv, InsertInv, ShowInv, Pair, Follower, Followed
<1> QED
  BY <1>3, <1>4, <1>5 DEF SocialInv

(* Until it inserts, a follow of a private account is refused and a request *)
(* moves on.                                                                *)
LEMMA FollowKeeps ==
  ASSUME NEW c \in SocialCalls, SocialInv, Follow(c) \/ Track(c) \/ RequestFollow(c) \/ Ask(c)
  PROVE  SocialInv'
<1>1. CASE Follow(c)
  BY <1>1, MovesKeep DEF Follow, Begins, IsPrivateUser, Places
<1>2. CASE Track(c)
  <2>1. PICK l \in {"refused", "insert"} : SocialGoto(c, l)
    BY <1>2 DEF Track
  <2>2. Followed(c) \in PrivateUsers => Pair(c) \in agreed
    BY <1>2 DEF Track, SocialInv, InsertInv
  <2> QED
    BY <1>2, <2>1, <2>2, MovesKeep DEF Track, Places
<1>3. CASE RequestFollow(c)
  BY <1>3, MovesKeep DEF RequestFollow, Begins, Places
<1>4. CASE Ask(c)
  BY <1>4, MovesKeep DEF Ask, Places
<1> QED
  BY <1>1, <1>2, <1>3, <1>4

(* Only this statement adds a follow, on the word that InsertInv is about. *)
LEMMA InsertFollowKeeps ==
  ASSUME NEW c \in SocialCalls, SocialInv, InsertFollow(c)
  PROVE  SocialInv'
<1>1. follows' \subseteq Pairs /\ ended' \subseteq Pairs
  BY PairTypes DEF InsertFollow, FollowUser, SocialInv, SocialTypes
<1>2. \A p \in follows' \ follows : p[2] \in PrivateUsers => p \in agreed
  BY DEF InsertFollow, FollowUser, SocialInv, InsertInv, Followed
<1>3. follows \cup ended \subseteq follows' \cup ended' /\ Pair(c) \in follows' \cup ended'
  BY DEF InsertFollow, FollowUser
<1>4. \E l \in {"done", "refused", "failed"} : SocialGoto(c, l)
  BY DEF InsertFollow
<1> QED
  BY <1>1, <1>2, <1>3, <1>4, EndsKeep DEF InsertFollow

(* What is taken away is over.                                              *)
LEMMA PartingKeeps ==
  ASSUME NEW c \in SocialCalls, SocialInv, Unfollow(c) \/ Block(c) \/ SocialFails(c)
  PROVE  SocialInv'
<1>1. CASE Unfollow(c)
  BY <1>1, PairTypes, EndsKeep DEF Unfollow, UnfollowUser, Begins, SocialInv, SocialTypes
<1>2. CASE Block(c)
  BY <1>2, PairTypes, EndsKeep DEF Block, Begins, SocialInv, SocialTypes
<1>3. CASE SocialFails(c)
  BY <1>3, PairTypes, EndsKeep DEF SocialFails, SocialInv, SocialTypes
<1> QED
  BY <1>1, <1>2, <1>3

(* A request is written, and later answered, by its pair's own row.        *)
LEMMA RequestsKeep ==
  ASSUME NEW c \in SocialCalls, SocialInv, SendFollowRequest(c) \/ HandleFollowRequest(c)
  PROVE  SocialInv'
<1>1. CASE SendFollowRequest(c)
  <2>1. /\ social' \in [SocialCalls -> Places] /\ social'[c] = "done" /\ social[c] = "send"
        /\ \A d \in SocialCalls \ {c} : social'[d] = social[d]
    BY <1>1 DEF SendFollowRequest, SocialGoto, SocialInv, SocialTypes, Places
  <2>2. requests' \in [Pairs -> Statuses]
    BY <1>1, PairTypes DEF SendFollowRequest, SocialInv, SocialTypes, Statuses
  <2>3. \A p : Accepting(p) => Accepting(p)'
    BY <2>1 DEF Accepting, Pair
  <2>4. SocialTypes' /\ FollowInv' /\ KnownInv' /\ AgreedInv'
    BY <1>1, <2>1, <2>2, <2>3 DEF SendFollowRequest, SocialInv, SocialTypes, FollowInv, KnownInv, AgreedInv
  <2>5. InsertInv' /\ ShowInv'
    BY <1>1, <2>1 DEF SendFollowRequest, SocialInv, InsertInv, ShowInv, Pair, Follower, Followed
  <2> QED
    BY <2>4, <2>5 DEF SocialInv
<1>2. CASE HandleFollowRequest(c)
  <2> DEFINE accepts == requests' # requests /\ SocialCall[c].status = "accepted"
  <2>1. PICK l \in {"insert", "done", "refused"} : SocialGoto(c, l) /\ (accepts <=> l = "insert")
    BY <1>2 DEF HandleFollowRequest
  <2>2. /\ social' \in [SocialCalls -> Places] /\ social'[c] = l /\ social[c] = "idle"
        /\ \A d \in SocialCalls \ {c} : social'[d] = social[d]
    BY <1>2, <2>1 DEF HandleFollowRequest, Begins, SocialGoto, SocialInv, SocialTypes, Places
  <2>3. requests' \in [Pairs -> Statuses]
    BY <1>2, PairTypes DEF HandleFollowRequest, Respond, SocialInv, SocialTypes, Statuses
  <2>4. /\ agreed' = IF accepts THEN agreed \cup {Pair(c)} ELSE agreed
        /\ ended' = IF accepts THEN ended \ {Pair(c)} ELSE ended
        /\ UNCHANGED <<follows, known>>
    BY <1>2 DEF HandleFollowRequest
  <2>5. \A p : Accepting(p) => Accepting(p)'
    BY <2>2 DEF Accepting, Pair
  <2>6. accepts => Accepting(Pair(c))'
    BY <2>1, <2>2 DEF Accepting, Pair
  <2>7. SocialTypes' /\ FollowInv' /\ KnownInv'
    BY <2>2, <2>3, <2>4, PairTypes DEF SocialInv, SocialTypes, FollowInv, KnownInv
  <2>8. AgreedInv'
    BY <2>4, <2>5, <2>6 DEF SocialInv, AgreedInv
  <2>9. InsertInv' /\ ShowInv'
    BY <2>1, <2>2, <2>4 DEF SocialInv, InsertInv, ShowInv, Pair, Follower, Followed
  <2> QED
    BY <2>7, <2>8, <2>9 DEF SocialInv
<1> QED
  BY <1>1, <1>2

(* The question is answered from the follows, and the list may come late:  *)
(* an acceptance is never taken back.                                      *)
LEMMA LookKeeps ==
  ASSUME NEW c \in SocialCalls, SocialInv, Look(c)
  PROVE  SocialInv'
<1>1. PICK l \in {"show", "refused"} :
        SocialGoto(c, l) /\ (l = "show" => CanViewProfile(Follower(c), Followed(c)))
  BY DEF Look
<1>2. l = "show" /\ Followed(c) \in PrivateUsers => Follower(c) = Followed(c) \/ Pair(c) \in agreed
  <2>1. Pair(c) = <<Follower(c), Followed(c)>> /\ Pair(c)[2] = Followed(c)
    BY PairTypes DEF Followed
  <2> QED
    BY <1>1, <2>1 DEF CanViewProfile, IsPrivateUser, SocialInv, FollowInv
<1> QED
  BY <1>1, <1>2, MovesKeep DEF Look, Begins, Places

(* What is shown is of the account that was looked at.                      *)
LEMMA ShowKeeps ==
  ASSUME NEW c \in SocialCalls, SocialInv, ShowProfile(c) \/ ShowFollowers(c) \/ ShowFollowing(c)
  PROVE  SocialInv'
<1>1. PICK set : known' = Known(c, set)
  BY DEF ShowProfile, ShowFollowers, ShowFollowing
<1>2. /\ social[c] = "show" /\ SocialGoto(c, "done")
      /\ UNCHANGED <<follows, requests, agreed, ended>>
  BY DEF ShowProfile, ShowFollowers, ShowFollowing, Shows
<1>3. /\ social' \in [SocialCalls -> Places] /\ social'[c] = "done"
      /\ \A d \in SocialCalls \ {c} : social'[d] = social[d]
  BY <1>2 DEF SocialGoto, SocialInv, SocialTypes, Places
<1>4. \A p : Accepting(p) => Accepting(p)'
  BY <1>2, <1>3 DEF Accepting, Pair
<1>5. KnownInv'
  <2>1. \A k \in known' : k \in known \/ (k[1] = Follower(c) /\ k[2] = Followed(c))
    BY <1>1 DEF Known
  <2>2. Followed(c) \in PrivateUsers => Follower(c) = Followed(c) \/ <<Follower(c), Followed(c)>> \in agreed
    BY <1>2, PairTypes DEF SocialInv, ShowInv
  <2> QED
    BY <1>2, <2>1, <2>2 DEF SocialInv, KnownInv
<1>6. SocialTypes' /\ FollowInv' /\ AgreedInv'
  BY <1>2, <1>3, <1>4 DEF SocialInv, SocialTypes, FollowInv, AgreedInv
<1>7. InsertInv' /\ ShowInv'
  BY <1>2, <1>3 DEF SocialInv, InsertInv, ShowInv, Pair, Follower, Followed
<1> QED
  BY <1>5, <1>6, <1>7 DEF SocialInv

(* Every step of the graph keeps the invariant.                             *)
LEMMA SocialStepKeeps == SocialInv /\ [SocialNext]_socialVars => SocialInv'
<1> SUFFICES ASSUME SocialInv, [SocialNext]_socialVars
             PROVE  SocialInv'
  OBVIOUS
<1>1. CASE SocialNext
  BY <1>1, FollowKeeps, InsertFollowKeeps, PartingKeeps, RequestsKeep, LookKeeps, ShowKeeps
  DEF SocialNext, SocialStep
<1>2. CASE UNCHANGED socialVars
  BY <1>2 DEF socialVars, SocialInv, SocialTypes, FollowInv, InsertInv, AgreedInv, ShowInv, KnownInv,
              Accepting, Pair, Follower, Followed
<1> QED
  BY <1>1, <1>2

(* The followers of a private account are those it accepted, and only they *)
(* were shown its profile or its lists: the handlers of follows and of     *)
(* follow requests, whatever unfollows, blocks and failures come between.  *)
THEOREM FollowersWereAccepted == SocialSpec => []FollowersAreAccepted
<1>1. SocialInv => FollowersAreAccepted
  BY DEF SocialInv, FollowInv, AgreedInv, KnownInv, FollowersAreAccepted
<1>2. SocialSpec => []SocialInv
  BY SocialInitially, SocialStepKeeps, PTL DEF SocialSpec
<1> QED
  BY <1>1, <1>2, PTL

-----------------------------------------------------------------------------
(* Posts: where the calls are                                               *)

PostPlaces ==
  {"idle", "compare", "register", "insert", "group", "view", "write", "list", "mirror",
   "done", "refused", "failed", "duplicate"}
PostRows ==
  [stored: BOOLEAN, pinned: BOOLEAN, archived: BOOLEAN, draft: BOOLEAN, edited: BOOLEAN, shares: Nat]

Liking == {"like", "unlike"}
Copied == Liking \cup StatusOps \cup {"comment"}

(* A call is where its operation may be.                                   *)
PostTypes ==
  /\ post \in [PostCalls -> PostPlaces] /\ rows \in [Articles -> PostRows] /\ mirrored \in BOOLEAN
  /\ DOMAIN statusCopy = Articles
  /\ \A c \in PostCalls :
       /\ post[c] \in {"compare", "register", "insert", "group"} => Op(c) = "broadcast"
       /\ post[c] \in {"view", "list"} => Op(c) \in Guarded
       /\ post[c] = "write" => Op(c) # "broadcast"
       /\ post[c] = "mirror" => mirrored /\ Op(c) \in Copied

(* The calls that are between their two writes.                            *)
Between(ops) == {c \in PostCalls : post[c] = "mirror" /\ Op(c) \in ops}

(* What a step does to the call that makes it, and may not do to others.   *)
Moves(c) == \A d \in PostCalls \ {c} : post'[d] = post[d]

(* The user, the post and the operation of a call; only what is broadcast   *)
(* is not there yet.                                                        *)
LEMMA CallOf ==
  ASSUME NEW c \in PostCalls
  PROVE  /\ By(c) \in Users /\ On(c) \in Articles /\ Op(c) \in PostOps /\ Key(c) \in Users \X Articles
         /\ Op(c) = "broadcast" => On(c) \notin StoredAtFirst
         /\ Op(c) \in StatusOps => On(c) \in StoredAtFirst
<1>1. PostCall[c] \in [op: PostOps, by: Users, post: Articles]
  BY PostsAssumption DEF PostsAssumption
<1>2. IF PostCall[c].op = "broadcast"
      THEN PostCall[c].by = Author[PostCall[c].post] /\ PostCall[c].post \notin StoredAtFirst
      ELSE PostCall[c].post \in StoredAtFirst \/ PostCall[c].op = "vote"
  BY PostsAssumption DEF PostsAssumption
<1> QED
  BY <1>1, <1>2 DEF By, On, Op, Key, StatusOps

(* Only the call that steps goes anywhere.                                  *)
LEMMA PostMoves ==
  ASSUME PostTypes, NEW c \in PostCalls, NEW l, PostGoto(c, l)
  PROVE  Moves(c) /\ post'[c] = l /\ (l \in PostPlaces => post' \in [PostCalls -> PostPlaces])
BY DEF PostTypes, PostGoto, Moves

(* The steps of a broadcast, which touch no row that was there at first and *)
(* no copy.                                                                 *)
LEMMA BroadcastTypes ==
  ASSUME PostTypes, NEW c \in PostCalls,
         \/ Broadcast(c) \/ Compare(c) \/ Register(c) \/ CreateSignal(c)
         \/ CreateWavePool(c) \/ Announce(c) \/ PublishUnheeded(c) \/ Answered(c)
  PROVE  /\ PostTypes' /\ Moves(c) /\ Op(c) = "broadcast" /\ post[c] # "mirror" /\ post'[c] # "mirror"
         /\ UNCHANGED <<statusCopy, reactionRows, commentRows, mirrored>> /\ torn \subseteq torn'
         /\ \A p \in StoredAtFirst : rows'[p] = rows[p]
<1>1. Op(c) = "broadcast" /\ post[c] # "mirror"
  BY DEF Broadcast, Compare, Register, CreateSignal, CreateWavePool, Announce, PublishUnheeded, Answered, Starts, At
<1>2. /\ UNCHANGED <<statusCopy, reactionRows, commentRows, mirrored>> /\ torn \subseteq torn'
  BY DEF Broadcast, Compare, Register, CreateSignal, CreateWavePool, Announce, PublishUnheeded, Answered, postRows, events
<1>3. \/ post' = post
      \/ PostGoto(c, "refused") \/ PostGoto(c, "compare") \/ PostGoto(c, "duplicate") \/ PostGoto(c, "register")
      \/ PostGoto(c, "insert") \/ PostGoto(c, "group") \/ PostGoto(c, "done")
  <2>1. CASE Broadcast(c) \/ Compare(c)
    BY <2>1 DEF Broadcast, Compare
  <2>2. CASE Register(c) \/ CreateSignal(c) \/ Answered(c)
    BY <2>2 DEF Register, CreateSignal, Answered
  <2>3. CASE CreateWavePool(c) \/ Announce(c) \/ PublishUnheeded(c)
    BY <2>3 DEF CreateWavePool, Announce, PublishUnheeded
  <2> QED
    BY <2>1, <2>2, <2>3
<1>4. /\ Moves(c) /\ post' \in [PostCalls -> PostPlaces]
      /\ post'[c] = post[c] \/ post'[c] \in {"refused", "compare", "duplicate", "register", "insert", "group", "done"}
  <2>1. CASE post' = post
    BY <2>1 DEF PostTypes, Moves
  <2>2. CASE post' # post
    <3>1. PICK l \in {"refused", "compare", "duplicate", "register", "insert", "group", "done"} : PostGoto(c, l)
      BY <1>3, <2>2
    <3> QED
      BY <3>1, PostMoves DEF PostPlaces
  <2> QED
    BY <2>1, <2>2
<1>5. rows' = rows \/ rows' = [rows EXCEPT ![On(c)] = New]
  BY DEF Broadcast, Compare, Register, CreateSignal, CreateWavePool, Announce, PublishUnheeded, Answered, postRows
<1>6. rows' \in [Articles -> PostRows] /\ \A p \in StoredAtFirst : rows'[p] = rows[p]
  <2>1. New \in PostRows
    BY DEF New, PostRows
  <2>2. On(c) \in Articles /\ On(c) \notin StoredAtFirst /\ StoredAtFirst \subseteq Articles
    BY <1>1, CallOf, PostsAssumption DEF PostsAssumption
  <2> HIDE DEF New
  <2> QED
    BY <1>5, <2>1, <2>2 DEF PostTypes
<1>7. PostTypes'
  <2>1. /\ mirrored' \in BOOLEAN /\ DOMAIN statusCopy' = Articles
    BY <1>2 DEF PostTypes
  <2>2. ASSUME NEW d \in PostCalls
        PROVE  /\ post'[d] \in {"compare", "register", "insert", "group"} => Op(d) = "broadcast"
               /\ post'[d] \in {"view", "list"} => Op(d) \in Guarded
               /\ post'[d] = "write" => Op(d) # "broadcast"
               /\ post'[d] = "mirror" => mirrored' /\ Op(d) \in Copied
    <3>1. CASE d = c
      BY <1>1, <1>2, <1>4, <3>1 DEF PostTypes
    <3>2. CASE d # c
      BY <1>2, <1>4, <3>2 DEF PostTypes, Moves
    <3> QED
      BY <3>1, <3>2
  <2> QED
    BY <1>4, <1>6, <2>1, <2>2 DEF PostTypes, Op
<1>8. post'[c] # "mirror"
  BY <1>1, <1>4
<1> QED
  BY <1>1, <1>2, <1>4, <1>6, <1>7, <1>8

(* The type is kept by a call that arrives where its operation may be.     *)
LEMMA ArrivesWell ==
  ASSUME PostTypes, NEW c \in PostCalls, NEW l \in PostPlaces, PostGoto(c, l),
         UNCHANGED mirrored, rows' \in [Articles -> PostRows], DOMAIN statusCopy' = Articles,
         l \notin {"compare", "register", "insert", "group"},
         l \in {"view", "list"} => Op(c) \in Guarded, l = "write" => Op(c) # "broadcast",
         l = "mirror" => mirrored /\ Op(c) \in Copied
  PROVE  PostTypes' /\ Moves(c) /\ post'[c] = l
<1>1. Moves(c) /\ post'[c] = l /\ post' \in [PostCalls -> PostPlaces]
  BY PostMoves
<1>2. ASSUME NEW d \in PostCalls
      PROVE  /\ post'[d] \in {"compare", "register", "insert", "group"} => Op(d) = "broadcast"
             /\ post'[d] \in {"view", "list"} => Op(d) \in Guarded
             /\ post'[d] = "write" => Op(d) # "broadcast"
             /\ post'[d] = "mirror" => mirrored' /\ Op(d) \in Copied
  <2>1. CASE d = c
    BY <1>1, <2>1
  <2>2. CASE d # c
    BY <1>1, <2>2 DEF PostTypes, Moves
  <2> QED
    BY <2>1, <2>2
<1>3. mirrored' \in BOOLEAN
  BY DEF PostTypes
<1> QED
  BY <1>1, <1>2, <1>3 DEF PostTypes, Op

SameFlags == \A p \in Articles : rows'[p].stored => rows[p].stored /\ Flags(rows'[p]) = Flags(rows[p])

(* The writes of a post that leave its flags as they are.                   *)
LEMMA PlainRows ==
  ASSUME PostTypes, NEW c \in PostCalls, ShareSignal(c) \/ UpdateSignal(c) \/ DeleteSignal(c) \/ ScheduleSignal(c)
  PROVE  rows' \in [Articles -> PostRows] /\ SameFlags
<1>1. On(c) \in Articles /\ rows \in [Articles -> PostRows]
  BY CallOf DEF PostTypes
<1>2. PICK row : rows' = rows \/ (rows' = [rows EXCEPT ![On(c)] = row]
                   /\ row \in PostRows /\ (row.stored => rows[On(c)].stored /\ Flags(row) = Flags(rows[On(c)])))
  <2>1. rows[On(c)] \in PostRows
    BY <1>1
  <2>2. CASE ShareSignal(c)
    <3> DEFINE row == [rows[On(c)] EXCEPT !.shares = 1]
    <3>1. row \in PostRows /\ row.stored = rows[On(c)].stored /\ Flags(row) = Flags(rows[On(c)])
      BY <2>1 DEF PostRows, Flags
    <3>2. rows' = rows \/ rows' = [rows EXCEPT ![On(c)] = row]
      BY <2>2 DEF ShareSignal, UpdateSignalMetrics
    <3> QED
      BY <3>1, <3>2
  <2>3. CASE UpdateSignal(c)
    <3> DEFINE row == [rows[On(c)] EXCEPT !.edited = TRUE]
    <3>1. row \in PostRows /\ row.stored = rows[On(c)].stored /\ Flags(row) = Flags(rows[On(c)])
      BY <2>1 DEF PostRows, Flags
    <3>2. rows' = rows \/ rows' = [rows EXCEPT ![On(c)] = row]
      BY <2>3 DEF UpdateSignal
    <3> QED
      BY <3>1, <3>2
  <2>4. CASE DeleteSignal(c)
    <3> DEFINE row == [rows[On(c)] EXCEPT !.stored = FALSE]
    <3>1. row \in PostRows /\ ~row.stored
      BY <2>1 DEF PostRows
    <3>2. rows' = [rows EXCEPT ![On(c)] = row]
      BY <2>4 DEF DeleteSignal
    <3> QED
      BY <3>1, <3>2
  <2>5. CASE ScheduleSignal(c)
    <3> DEFINE row == [rows[On(c)] EXCEPT !.draft = TRUE]
    <3>1. row \in PostRows /\ row.stored = rows[On(c)].stored /\ Flags(row) = Flags(rows[On(c)])
      BY <2>1 DEF PostRows, Flags
    <3>2. rows' = rows \/ rows' = [rows EXCEPT ![On(c)] = row]
      BY <2>5 DEF ScheduleSignal
    <3> QED
      BY <3>1, <3>2
  <2> QED
    BY <2>2, <2>3, <2>4, <2>5
<1>3. CASE rows' = rows
  BY <1>1, <1>3 DEF SameFlags
<1>4. CASE rows' # rows
  BY <1>1, <1>2, <1>4 DEF SameFlags
<1> QED
  BY <1>3, <1>4

(* The steps that write nothing that is copied.                            *)
LEMMA PlainTypes ==
  ASSUME PostTypes, NEW c \in PostCalls,
         \/ GetSignal(c) \/ View(c) \/ GetPost(c) \/ GetComments(c) \/ DeleteComment(c) \/ DeleteNode(c)
         \/ Own(c) \/ VoteWave(c) \/ ShareSignal(c) \/ UpdateSignal(c) \/ DeleteSignal(c) \/ ScheduleSignal(c)
  PROVE  /\ PostTypes' /\ Moves(c) /\ Op(c) # "broadcast" /\ post[c] # "mirror" /\ post'[c] # "mirror" /\ SameFlags
         /\ UNCHANGED <<statusCopy, polls, fingerprints, reactionRows, commentsCopy, events, torn>>
         /\ comments' \subseteq comments
<1>1. PICK l \in {"view", "refused", "list", "write", "done"} :
        PostGoto(c, l) /\ (l \in {"view", "list"} => Op(c) \in Guarded)
  <2>1. CASE GetSignal(c) \/ View(c) \/ DeleteComment(c)
    BY <2>1 DEF GetSignal, View, DeleteComment, PostTypes, At, Guarded
  <2>2. CASE GetPost(c) \/ GetComments(c) \/ DeleteNode(c) \/ Own(c) \/ VoteWave(c)
    BY <2>2 DEF GetPost, GetComments, DeleteNode, Own, VoteWave
  <2>3. CASE ShareSignal(c) \/ UpdateSignal(c) \/ DeleteSignal(c) \/ ScheduleSignal(c)
    BY <2>3 DEF ShareSignal, UpdateSignal, DeleteSignal, ScheduleSignal
  <2> QED
    BY <2>1, <2>2, <2>3
<1>2. Op(c) # "broadcast" /\ post[c] # "mirror"
  <2>1. CASE GetSignal(c) \/ View(c) \/ DeleteComment(c)
    BY <2>1 DEF GetSignal, View, DeleteComment, PostTypes, At, Starts, Guarded, Reads
  <2>2. CASE GetPost(c) \/ GetComments(c) \/ DeleteNode(c) \/ Own(c) \/ VoteWave(c)
    BY <2>2 DEF GetPost, GetComments, DeleteNode, Own, VoteWave, At, Starts
  <2>3. CASE ShareSignal(c) \/ UpdateSignal(c) \/ DeleteSignal(c) \/ ScheduleSignal(c)
    BY <2>3 DEF ShareSignal, UpdateSignal, DeleteSignal, ScheduleSignal, At, Starts
  <2> QED
    BY <2>1, <2>2, <2>3
<1>3. /\ UNCHANGED <<statusCopy, polls, fingerprints, reactionRows, commentsCopy, events, torn>>
      /\ comments' \subseteq comments
  <2>1. CASE GetSignal(c) \/ View(c) \/ DeleteComment(c)
    BY <2>1 DEF GetSignal, View, DeleteComment, postRows, pollRows, commentRows
  <2>2. CASE GetPost(c) \/ GetComments(c) \/ DeleteNode(c) \/ Own(c) \/ VoteWave(c)
    BY <2>2 DEF GetPost, GetComments, DeleteNode, Own, VoteWave, postRows, pollRows, commentRows
  <2>3. CASE ShareSignal(c) \/ UpdateSignal(c) \/ DeleteSignal(c) \/ ScheduleSignal(c)
    BY <2>3 DEF ShareSignal, UpdateSignal, DeleteSignal, ScheduleSignal, pollRows, commentRows
  <2> QED
    BY <2>1, <2>2, <2>3
<1>4. rows' \in [Articles -> PostRows] /\ SameFlags
  <2>1. CASE rows' = rows
    BY <2>1 DEF SameFlags, PostTypes
  <2>2. CASE ShareSignal(c) \/ UpdateSignal(c) \/ DeleteSignal(c) \/ ScheduleSignal(c)
    BY <2>2, PlainRows
  <2>3. CASE GetSignal(c) \/ View(c) \/ GetPost(c) \/ GetComments(c) \/ DeleteComment(c) \/ DeleteNode(c) \/ Own(c) \/ VoteWave(c)
    BY <2>1, <2>3 DEF GetSignal, View, GetPost, GetComments, DeleteComment, DeleteNode, Own, VoteWave, postRows
  <2> QED
    BY <2>2, <2>3
<1>5. DOMAIN statusCopy' = Articles /\ UNCHANGED mirrored
  BY <1>3 DEF PostTypes, events
<1>6. PostTypes' /\ Moves(c) /\ post'[c] = l
  BY <1>1, <1>2, <1>4, <1>5, ArrivesWell DEF PostPlaces
<1> QED
  BY <1>1, <1>2, <1>3, <1>4, <1>6

(* The writes of PostgreSQL that a copy follows.                            *)
LEMMA FirstWriteTypes ==
  ASSUME PostTypes, NEW c \in PostCalls, AmplifySignal(c) \/ RemoveResonance(c) \/ AddNode(c) \/ PinOrArchive(c)
  PROVE  /\ PostTypes' /\ Moves(c) /\ Op(c) # "broadcast" /\ post[c] # "mirror"
         /\ post'[c] \in {"refused", Copying} /\ post'[c] \in {"refused", "mirror", "done"}
         /\ UNCHANGED <<statusCopy, pollRows, fingerprints, reactionsCopy, commentsCopy, chosen, shown, events>>
         /\ torn \subseteq torn'
<1>1. PICK l \in {"refused", Copying} : PostGoto(c, l)
  BY DEF AmplifySignal, RemoveResonance, AddNode, PinOrArchive
<1>2. l \in {"refused", "mirror", "done"} /\ (l = "mirror" => mirrored)
  BY <1>1 DEF Copying
<1>3. Op(c) \in Copied /\ Op(c) # "broadcast" /\ post[c] # "mirror"
  BY DEF AmplifySignal, RemoveResonance, AddNode, PinOrArchive, At, Starts, Copied, Liking, StatusOps
<1>4. /\ UNCHANGED <<statusCopy, pollRows, fingerprints, reactionsCopy, commentsCopy, chosen, shown, events>>
      /\ torn \subseteq torn'
  BY DEF AmplifySignal, RemoveResonance, AddNode, PinOrArchive, TornReaction, postRows, commentRows, reactionRows
<1>5. rows' \in [Articles -> PostRows]
  <2>1. CASE rows' = rows
    BY <2>1 DEF PostTypes
  <2>2. CASE PinOrArchive(c)
    <3> DEFINE row == [rows[On(c)] EXCEPT !.pinned = Op(c) = "pin", !.archived = Op(c) = "archive", !.draft = FALSE]
    <3>1. On(c) \in Articles /\ rows \in [Articles -> PostRows] /\ rows[On(c)] \in PostRows
      BY CallOf DEF PostTypes
    <3>2. rows' = rows \/ rows' = [rows EXCEPT ![On(c)] = row]
      BY <2>2 DEF PinOrArchive, UpdateSignalStatus
    <3>3. row \in PostRows
      BY <3>1 DEF PostRows
    <3> HIDE DEF row
    <3> QED
      BY <3>1, <3>2, <3>3
  <2>3. CASE AmplifySignal(c) \/ RemoveResonance(c) \/ AddNode(c)
    BY <2>1, <2>3 DEF AmplifySignal, RemoveResonance, AddNode, postRows
  <2> QED
    BY <2>2, <2>3
<1>6. DOMAIN statusCopy' = Articles /\ UNCHANGED mirrored
  BY <1>4 DEF PostTypes, events
<1>7. PostTypes' /\ Moves(c) /\ post'[c] = l
  BY <1>1, <1>2, <1>3, <1>5, <1>6, ArrivesWell DEF PostPlaces
<1> QED
  BY <1>1, <1>2, <1>3, <1>4, <1>7

(* The copies.                                                              *)
LEMMA SecondWriteTypes ==
  ASSUME PostTypes, NEW c \in PostCalls, MirrorResonance(c) \/ MirrorRemoval(c) \/ MirrorNode(c) \/ MirrorStatus(c)
  PROVE  /\ PostTypes' /\ Moves(c) /\ Op(c) # "broadcast" /\ post[c] = "mirror" /\ post'[c] = "done"
         /\ UNCHANGED <<rows, pollRows, fingerprints, reactions, comments, chosen, shown, events, torn>>
<1>1. PostGoto(c, "done") /\ post[c] = "mirror" /\ Op(c) # "broadcast"
  BY DEF MirrorResonance, MirrorRemoval, MirrorNode, MirrorStatus, At, StatusOps
<1>2. /\ UNCHANGED <<rows, pollRows, fingerprints, reactions, comments, chosen, shown, events, torn>>
      /\ DOMAIN statusCopy' = DOMAIN statusCopy
  BY DEF MirrorResonance, MirrorRemoval, MirrorNode, MirrorStatus, postRows, commentRows, reactionRows
<1>3. rows' \in [Articles -> PostRows] /\ DOMAIN statusCopy' = Articles /\ UNCHANGED mirrored
  BY <1>2 DEF PostTypes, events
<1>4. PostTypes' /\ Moves(c) /\ post'[c] = "done"
  BY <1>1, <1>3, ArrivesWell DEF PostPlaces
<1> QED
  BY <1>1, <1>2, <1>4

(* A failed call leaves its mark on what it was to copy.                    *)
LEMMA FailTypes ==
  ASSUME PostTypes, NEW c \in PostCalls, PostFails(c)
  PROVE  /\ PostTypes' /\ Moves(c) /\ post'[c] = "failed"
         /\ UNCHANGED <<postRows, pollRows, fingerprints, reactionRows, commentRows, events>>
         /\ torn \subseteq torn'
         /\ post[c] = "mirror" => IF Op(c) = "comment" THEN c \in torn'
                                  ELSE IF Op(c) \in StatusOps THEN On(c) \in torn' ELSE Key(c) \in torn'
<1>1. /\ PostGoto(c, "failed") /\ torn \subseteq torn'
      /\ UNCHANGED <<postRows, pollRows, fingerprints, reactionRows, commentRows, events>>
      /\ post[c] = "mirror" => IF Op(c) = "comment" THEN c \in torn'
                                  ELSE IF Op(c) \in StatusOps THEN On(c) \in torn' ELSE Key(c) \in torn'
  BY DEF PostFails
<1>2. rows' \in [Articles -> PostRows] /\ DOMAIN statusCopy' = Articles /\ UNCHANGED mirrored
  BY <1>1 DEF PostTypes, postRows, events
<1>3. PostTypes' /\ Moves(c) /\ post'[c] = "failed"
  BY <1>1, <1>2, ArrivesWell DEF PostPlaces
<1> QED
  BY <1>1, <1>3


-----------------------------------------------------------------------------
(* Posts: broadcasts                                                        *)

Registering == {c \in PostCalls : Op(c) = "broadcast" /\ post[c] \in {"register", "insert", "group", "done"}}
Registered == {c \in PostCalls : Op(c) = "broadcast" /\ post[c] \in {"insert", "group", "done"}}

(* A text is known once it is registered, two calls past the comparison    *)
(* are on record as having compared together, and what was answered with   *)
(* success is whole.                                                       *)
TextInv ==
  /\ \A c \in Registered : Text[On(c)] \in fingerprints
  /\ \A c, q \in Registering : c # q /\ Text[On(c)] = Text[On(q)] => <<c, q>> \in torn \/ <<q, c>> \in torn
  /\ \A c \in PostCalls : Op(c) = "broadcast" /\ post[c] = "done" =>
       PollDone(On(c)) /\ (mirrored => On(c) \in announced)
  /\ mirrored => unheard = {}

(* No step takes a text, an event or a poll back.                          *)
LEMMA TextFrame ==
  ASSUME TextInv, NEW c \in PostCalls, Moves(c), Op(c) = "broadcast" => post'[c] \in {post[c], "refused", "failed", "duplicate", "compare"},
         fingerprints \subseteq fingerprints', torn \subseteq torn', announced \subseteq announced',
         \A p : PollDone(p) => PollDone(p)', UNCHANGED mirrored, mirrored => unheard' = unheard
  PROVE  TextInv'
<1>1. Registering' \subseteq Registering /\ Registered' \subseteq Registered
  BY DEF Registering, Registered, Moves, Op
<1>2. \A d \in PostCalls : Op(d) = "broadcast" /\ post'[d] = "done" => post[d] = "done"
  BY DEF Moves
<1>3. /\ \A d \in Registered' : Text[On(d)] \in fingerprints'
      /\ \A d, q \in Registering' : d # q /\ Text[On(d)] = Text[On(q)] => <<d, q>> \in torn' \/ <<q, d>> \in torn'
      /\ mirrored' => unheard' = {}
  BY <1>1 DEF TextInv
<1>4. ASSUME NEW d \in PostCalls, Op(d) = "broadcast", post'[d] = "done"
      PROVE  PollDone(On(d))' /\ (mirrored' => On(d) \in announced')
  BY <1>2, <1>4 DEF TextInv, On
<1> QED
  BY <1>3, <1>4 DEF TextInv, On, Op

(* The steps of a broadcast that compare, register, store and answer.       *)
LEMMA TextStep ==
  ASSUME PostTypes, TextInv, NEW c \in PostCalls,
         Compare(c) \/ Register(c) \/ CreateSignal(c) \/ Answered(c)
  PROVE  TextInv'
<1>1. Moves(c) /\ Op(c) = "broadcast" /\ torn \subseteq torn' /\ UNCHANGED mirrored
  BY BroadcastTypes
<1>2. UNCHANGED <<polls, announced, unheard>> /\ fingerprints \subseteq fingerprints'
  BY DEF Compare, Register, CreateSignal, Answered, pollRows, events
<1>3. \A p : PollDone(p)' = PollDone(p)
  BY <1>2 DEF PollDone
<1>4. /\ Registering' \subseteq Registering \cup {c} /\ Registered' \subseteq Registered \cup {c}
      /\ \A d \in PostCalls \ {c} : post'[d] = post[d]
  BY <1>1 DEF Registering, Registered, Moves, Op
<1>5. CASE Compare(c)
  <2>1. torn' = torn \cup SameText(c) /\ UNCHANGED fingerprints
        /\ post'[c] = IF Text[On(c)] \in fingerprints THEN "duplicate" ELSE "register"
    BY <1>5, PostMoves DEF Compare
  <2>2. CASE Text[On(c)] \in fingerprints
    <3>1. post'[c] = "duplicate"
      BY <2>1, <2>2
    <3> QED
      BY <1>1, <1>2, <1>3, <3>1, TextFrame
  <2>3. CASE Text[On(c)] \notin fingerprints
    <3>1. post'[c] = "register" /\ c \notin Registered' /\ Registered' \subseteq Registered
      BY <1>4, <2>1, <2>3 DEF Registered
    <3>2. \A q \in Registering : q # c /\ Text[On(q)] = Text[On(c)] => <<c, q>> \in torn'
      <4> TAKE q \in Registering
      <4> SUFFICES ASSUME q # c, Text[On(q)] = Text[On(c)] PROVE <<c, q>> \in SameText(c)
        BY <2>1
      <4>1. q \notin Registered
        BY <2>3 DEF TextInv
      <4>2. At(q, "broadcast", "register") /\ q \in PostCalls
        BY <4>1 DEF Registering, Registered, At
      <4> QED
        BY <4>2 DEF SameText
    <3>3. ASSUME NEW d \in Registering', NEW q \in Registering', d # q, Text[On(d)] = Text[On(q)]
          PROVE  <<d, q>> \in torn' \/ <<q, d>> \in torn'
      <4>1. CASE d # c /\ q # c
        BY <1>1, <1>4, <3>3, <4>1 DEF TextInv
      <4>2. CASE d = c
        BY <1>4, <3>2, <3>3, <4>2
      <4>3. CASE q = c
        BY <1>4, <3>2, <3>3, <4>3
      <4> QED
        BY <4>1, <4>2, <4>3
    <3>4. \A d \in PostCalls : post'[d] = "done" => post[d] = "done"
      BY <1>4, <3>1
    <3>5. /\ \A d \in Registered' : Text[On(d)] \in fingerprints'
          /\ \A d \in PostCalls : Op(d) = "broadcast" /\ post'[d] = "done" =>
               PollDone(On(d)) /\ (mirrored' => On(d) \in announced')
          /\ mirrored' => unheard' = {}
      BY <1>1, <1>2, <2>1, <3>1, <3>4 DEF TextInv
    <3> QED
      BY <1>3, <3>3, <3>5 DEF TextInv, On, Op
  <2> QED
    BY <2>2, <2>3
<1>6. CASE Register(c) \/ CreateSignal(c) \/ Answered(c)
  <2>1. Registering' \subseteq Registering
    BY <1>4, <1>6, <1>1 DEF Registering, Register, CreateSignal, Answered, At
  <2>2. \A d \in Registered' : Text[On(d)] \in fingerprints'
    <3>1. CASE Register(c)
      BY <1>2, <1>4, <3>1 DEF Register, TextInv
    <3>2. CASE CreateSignal(c) \/ Answered(c)
      <4>1. c \in Registered
        BY <1>1, <3>2 DEF Registered, CreateSignal, Answered, At
      <4> QED
        BY <1>2, <1>4, <4>1 DEF TextInv
    <3> QED
      BY <1>6, <3>1, <3>2
  <2>3. \A d, q \in Registering' : d # q /\ Text[On(d)] = Text[On(q)] => <<d, q>> \in torn' \/ <<q, d>> \in torn'
    BY <1>1, <2>1 DEF TextInv
  <2>4. ASSUME NEW d \in PostCalls, Op(d) = "broadcast", post'[d] = "done"
        PROVE  PollDone(On(d)) /\ (mirrored' => On(d) \in announced')
    <3>1. CASE d # c
      BY <1>1, <1>2, <1>4, <2>4, <3>1 DEF TextInv
    <3>2. CASE d = c
      <4>1. Answered(c)
        BY <1>6, <2>4, <3>2, PostMoves DEF Register, CreateSignal
      <4> QED
        BY <1>1, <1>2, <3>2, <4>1 DEF Answered, TextInv
    <3> QED
      BY <3>1, <3>2
  <2>5. mirrored' => unheard' = {}
    BY <1>1, <1>2 DEF TextInv
  <2> QED
    BY <1>3, <2>2, <2>3, <2>4, <2>5 DEF TextInv, On, Op
<1> QED
  BY <1>5, <1>6

(* Every step of the posts keeps it.                                        *)
LEMMA TextKept ==
  ASSUME PostTypes, TextInv, NEW c \in PostCalls, PostStep(c)
  PROVE  TextInv'
<1>1. CASE Compare(c) \/ Register(c) \/ CreateSignal(c) \/ Answered(c)
  BY <1>1, TextStep
<1>2. CASE Broadcast(c) \/ CreateWavePool(c) \/ Announce(c) \/ PublishUnheeded(c)
  <2>1. Moves(c) /\ torn \subseteq torn' /\ UNCHANGED mirrored
    BY <1>2, BroadcastTypes
  <2>2. /\ post'[c] \in {post[c], "refused", "compare"}
        /\ UNCHANGED fingerprints /\ announced \subseteq announced' /\ (mirrored => unheard' = unheard)
    BY <1>2, PostMoves DEF Broadcast, CreateWavePool, Announce, PublishUnheeded, events
  <2>3. \A p : PollDone(p) => PollDone(p)'
    <3>1. CASE polls' = polls
      BY <3>1 DEF PollDone
    <3>2. CASE polls' # polls
      <4>1. ~PollDone(On(c)) /\ polls' = [polls EXCEPT ![On(c)] = @ + 1]
        BY <1>2, <3>2 DEF Broadcast, CreateWavePool, Announce, PublishUnheeded, pollRows
      <4>2. \A p : p # On(c) => polls'[p] = polls[p]
        BY <4>1
      <4> QED
        BY <4>1, <4>2 DEF PollDone
    <3> QED
      BY <3>1, <3>2
  <2> QED
    BY <2>1, <2>2, <2>3, TextFrame
<1>3. CASE \/ GetSignal(c) \/ View(c) \/ GetPost(c) \/ GetComments(c) \/ DeleteComment(c) \/ DeleteNode(c)
           \/ Own(c) \/ VoteWave(c) \/ ShareSignal(c) \/ UpdateSignal(c) \/ DeleteSignal(c) \/ ScheduleSignal(c)
  <2>1. Moves(c) /\ Op(c) # "broadcast" /\ UNCHANGED <<polls, fingerprints, events, torn>>
    BY <1>3, PlainTypes
  <2> QED
    BY <2>1, TextFrame DEF PollDone, events
<1>4. CASE AmplifySignal(c) \/ RemoveResonance(c) \/ AddNode(c) \/ PinOrArchive(c)
  <2>1. Moves(c) /\ Op(c) # "broadcast" /\ UNCHANGED <<pollRows, fingerprints, events>> /\ torn \subseteq torn'
    BY <1>4, FirstWriteTypes
  <2> QED
    BY <2>1, TextFrame DEF PollDone, events, pollRows
<1>5. CASE MirrorResonance(c) \/ MirrorRemoval(c) \/ MirrorNode(c) \/ MirrorStatus(c)
  <2>1. Moves(c) /\ Op(c) # "broadcast" /\ UNCHANGED <<pollRows, fingerprints, events, torn>>
    BY <1>5, SecondWriteTypes
  <2> QED
    BY <2>1, TextFrame DEF PollDone, events, pollRows
<1>6. CASE PostFails(c)
  <2>1. Moves(c) /\ post'[c] = "failed" /\ UNCHANGED <<pollRows, fingerprints, events>> /\ torn \subseteq torn'
    BY <1>6, FailTypes
  <2> QED
    BY <2>1, TextFrame DEF PollDone, events, pollRows
<1> QED
  BY <1>1, <1>2, <1>3, <1>4, <1>5, <1>6 DEF PostStep

-----------------------------------------------------------------------------
(* Posts: copies                                                            *)

OnKey(k) == {c \in Between(Liking) : Key(c) = k}
OnPost(p) == {c \in Between(StatusOps) : On(c) = p}

(* Unless two calls or a failure left their mark, a reaction and its copy  *)
(* agree, or one call is on its way from one to the other.                 *)
ReactionInv ==
  mirrored => \A k \in Users \X Articles : k \notin torn =>
    /\ \A c, q \in OnKey(k) : c = q
    /\ \A c \in OnKey(k) : k \in reactions <=> Op(c) = "like"
    /\ OnKey(k) = {} => (k \in reactions <=> k \in reactionsCopy)

Written(c) == [pinned |-> Op(c) = "pin", archived |-> Op(c) = "archive"]

(* Likewise for the flags of a post.                                       *)
StatusInv ==
  mirrored => \A p \in Articles :
    /\ statusCopy[p] # {} => p \in StoredAtFirst
    /\ p \notin torn =>
         /\ \A c, q \in OnPost(p) : c = q
         /\ \A c \in OnPost(p) : Exists(p) => Flags(rows[p]) = Written(c)
         /\ OnPost(p) = {} /\ Exists(p) /\ statusCopy[p] # {} => statusCopy[p] = {Flags(rows[p])}

HasCopy(c) == \E n \in commentsCopy : n.id[1] = c /\ n.post = On(c)

(* A comment is copied, or will be, or its copy failed.                    *)
CommentInv ==
  \A m \in comments : \E c \in PostCalls :
    /\ Op(c) = "comment" /\ m = Comment(c)
    /\ mirrored => post[c] = "mirror" \/ c \in torn \/ HasCopy(c)

CopyInv == ReactionInv /\ StatusInv /\ CommentInv

(* A step that brings no call between the two writes of a reaction, nor     *)
(* takes one away unmarked.                                                 *)
LEMMA ReactionFrame ==
  ASSUME ReactionInv, NEW c \in PostCalls, Moves(c), UNCHANGED <<reactions, reactionsCopy, mirrored>>, torn \subseteq torn',
         post'[c] # "mirror" \/ Op(c) \notin Liking,
         post[c] = "mirror" /\ Op(c) \in Liking => Key(c) \in torn'
  PROVE  ReactionInv'
<1> SUFFICES ASSUME mirrored, NEW k \in Users \X Articles, k \notin torn'
             PROVE  /\ \A d, q \in OnKey(k)' : d = q
                    /\ \A d \in OnKey(k)' : k \in reactions <=> Op(d) = "like"
                    /\ OnKey(k)' = {} => (k \in reactions <=> k \in reactionsCopy)
  BY DEF ReactionInv, Op
<1>1. k \notin torn
  OBVIOUS
<1>2. OnKey(k)' = OnKey(k)
  <2>1. \A d \in PostCalls : (post'[d] = "mirror" /\ Op(d) \in Liking /\ Key(d) = k)
                             <=> (post[d] = "mirror" /\ Op(d) \in Liking /\ Key(d) = k)
    BY DEF Moves
  <2>2. \A d : (d \in OnKey(k)' <=> (d \in PostCalls /\ post'[d] = "mirror" /\ Op(d) \in Liking /\ Key(d) = k))
               /\ (d \in OnKey(k) <=> (d \in PostCalls /\ post[d] = "mirror" /\ Op(d) \in Liking /\ Key(d) = k))
    BY DEF OnKey, Between, Op, Key, By, On
  <2> QED
    BY <2>1, <2>2
<1>3. /\ \A d, q \in OnKey(k) : d = q
      /\ \A d \in OnKey(k) : k \in reactions <=> Op(d) = "like"
      /\ OnKey(k) = {} => (k \in reactions <=> k \in reactionsCopy)
  BY <1>1 DEF ReactionInv
<1> QED
  BY <1>2, <1>3

(* The same of the flags of a post.                                         *)
LEMMA StatusFrame ==
  ASSUME StatusInv, NEW c \in PostCalls, Moves(c), UNCHANGED <<statusCopy, mirrored>>, torn \subseteq torn',
         post'[c] # "mirror" \/ Op(c) \notin StatusOps,
         post[c] = "mirror" /\ Op(c) \in StatusOps => On(c) \in torn',
         \A p \in StoredAtFirst : rows'[p].stored => rows[p].stored /\ Flags(rows'[p]) = Flags(rows[p])
  PROVE  StatusInv'
<1> SUFFICES ASSUME mirrored, NEW p \in Articles
             PROVE  /\ statusCopy[p] # {} => p \in StoredAtFirst
                    /\ p \notin torn' =>
                         /\ \A d, q \in OnPost(p)' : d = q
                         /\ \A d \in OnPost(p)' : rows'[p].stored => Flags(rows'[p]) = Written(d)
                         /\ OnPost(p)' = {} /\ rows'[p].stored /\ statusCopy[p] # {} => statusCopy[p] = {Flags(rows'[p])}
  BY DEF StatusInv, Written, Op, Exists, Flags
<1>1. statusCopy[p] # {} => p \in StoredAtFirst
  BY DEF StatusInv
<1>2. ASSUME p \notin torn'
      PROVE  OnPost(p)' = OnPost(p)
  <2>1. \A d \in PostCalls : (post'[d] = "mirror" /\ Op(d) \in StatusOps /\ On(d) = p)
                             <=> (post[d] = "mirror" /\ Op(d) \in StatusOps /\ On(d) = p)
    BY <1>2 DEF Moves
  <2>2. \A d : (d \in OnPost(p)' <=> (d \in PostCalls /\ post'[d] = "mirror" /\ Op(d) \in StatusOps /\ On(d) = p))
               /\ (d \in OnPost(p) <=> (d \in PostCalls /\ post[d] = "mirror" /\ Op(d) \in StatusOps /\ On(d) = p))
    BY DEF OnPost, Between, Op, On
  <2> QED
    BY <2>1, <2>2
<1>3. \A d \in OnPost(p) : p \in StoredAtFirst
  BY CallOf DEF OnPost, Between
<1>4. ASSUME p \notin torn'
      PROVE  /\ \A d, q \in OnPost(p)' : d = q
             /\ \A d \in OnPost(p)' : rows'[p].stored => Flags(rows'[p]) = Written(d)
             /\ OnPost(p)' = {} /\ rows'[p].stored /\ statusCopy[p] # {} => statusCopy[p] = {Flags(rows'[p])}
  <2>1. OnPost(p)' = OnPost(p) /\ p \notin torn
    BY <1>2, <1>4
  <2>2. /\ \A d, q \in OnPost(p) : d = q
        /\ \A d \in OnPost(p) : rows[p].stored => Flags(rows[p]) = Written(d)
        /\ OnPost(p) = {} /\ rows[p].stored /\ statusCopy[p] # {} => statusCopy[p] = {Flags(rows[p])}
    BY <2>1 DEF StatusInv, Exists
  <2> QED
    BY <1>1, <1>3, <2>1, <2>2
<1> QED
  BY <1>1, <1>4

(* The same of comments.                                                    *)
LEMMA CommentFrame ==
  ASSUME CommentInv, NEW c \in PostCalls, Moves(c), comments' \subseteq comments, UNCHANGED mirrored,
         commentsCopy \subseteq commentsCopy', torn \subseteq torn',
         post[c] = "mirror" /\ Op(c) = "comment" =>
           post'[c] = "mirror" \/ c \in torn' \/ HasCopy(c)'
  PROVE  CommentInv'
<1> SUFFICES ASSUME NEW m \in comments
             PROVE  \E d \in PostCalls :
                      /\ Op(d) = "comment" /\ m = Comment(d)
                      /\ mirrored => post'[d] = "mirror" \/ d \in torn' \/ HasCopy(d)'
  BY DEF CommentInv, Op, Comment, On, By
<1>1. PICK d \in PostCalls :
        /\ Op(d) = "comment" /\ m = Comment(d)
        /\ mirrored => post[d] = "mirror" \/ d \in torn \/ HasCopy(d)
  BY DEF CommentInv
<1>2. HasCopy(d) => HasCopy(d)'
  BY DEF HasCopy, On
<1> QED
  BY <1>1, <1>2 DEF Moves

(* The first write of a reaction: while nobody else is between its own two *)
(* writes of the same row, this call is the one that is.                   *)
LEMMA ReactionWritten ==
  ASSUME PostTypes, ReactionInv, NEW c \in PostCalls, Moves(c), UNCHANGED <<reactionsCopy, mirrored>>,
         post'[c] = Copying, Op(c) \in Liking, torn' = TornReaction(c), post[c] # "mirror",
         reactions' = IF Op(c) = "like" THEN InsertReaction(Key(c)) ELSE DeleteReaction(Key(c))
  PROVE  ReactionInv'
<1> SUFFICES ASSUME mirrored, NEW k \in Users \X Articles, k \notin torn'
             PROVE  /\ \A d, q \in OnKey(k)' : d = q
                    /\ \A d \in OnKey(k)' : k \in reactions' <=> Op(d) = "like"
                    /\ OnKey(k)' = {} => (k \in reactions' <=> k \in reactionsCopy)
  BY DEF ReactionInv, Op
<1>0. k \notin torn /\ post'[c] = "mirror"
  BY DEF TornReaction, Copying
<1>1. \A d : (d \in OnKey(k)' <=> (d \in PostCalls /\ post'[d] = "mirror" /\ Op(d) \in Liking /\ Key(d) = k))
             /\ (d \in OnKey(k) <=> (d \in PostCalls /\ post[d] = "mirror" /\ Op(d) \in Liking /\ Key(d) = k))
  BY DEF OnKey, Between, Op, Key, By, On
<1>2. /\ \A d, q \in OnKey(k) : d = q
      /\ \A d \in OnKey(k) : k \in reactions <=> Op(d) = "like"
      /\ OnKey(k) = {} => (k \in reactions <=> k \in reactionsCopy)
  BY <1>0 DEF ReactionInv
<1>3. CASE k # Key(c)
  <2>1. (k \in reactions' <=> k \in reactions) /\ OnKey(k)' = OnKey(k)
    BY <1>1, <1>3 DEF InsertReaction, DeleteReaction, Moves
  <2> QED
    BY <1>2, <2>1
<1>4. CASE k = Key(c)
  <2>1. ~ \E q \in Overlaps(c, Liking) : By(q) = By(c)
    BY <1>4 DEF TornReaction, Liking
  <2>2. \A q \in OnKey(k) : q = c
    <3> TAKE q \in OnKey(k)
    <3>1. q \in PostCalls /\ post[q] = "mirror" /\ Op(q) \in Liking /\ By(q) = By(c) /\ On(q) = On(c)
      BY <1>1, <1>4 DEF Key
    <3> QED
      BY <2>1, <3>1 DEF Overlaps
  <2>3. OnKey(k)' = {c}
    BY <1>0, <1>1, <1>4, <2>2 DEF Moves
  <2>4. k \in reactions' <=> Op(c) = "like"
    BY <1>4 DEF InsertReaction, DeleteReaction
  <2> QED
    BY <2>3, <2>4
<1> QED
  BY <1>3, <1>4

(* ... and the second.                                                     *)
LEMMA ReactionCopied ==
  ASSUME PostTypes, ReactionInv, NEW c \in PostCalls, Moves(c), UNCHANGED <<reactions, mirrored, torn>>,
         post[c] = "mirror", post'[c] = "done", Op(c) \in Liking, ToggleReaction(Key(c), Op(c) = "like")
  PROVE  ReactionInv'
<1> SUFFICES ASSUME mirrored, NEW k \in Users \X Articles, k \notin torn
             PROVE  /\ \A d, q \in OnKey(k)' : d = q
                    /\ \A d \in OnKey(k)' : k \in reactions <=> Op(d) = "like"
                    /\ OnKey(k)' = {} => (k \in reactions <=> k \in reactionsCopy')
  BY DEF ReactionInv, Op
<1>1. \A d : (d \in OnKey(k)' <=> (d \in PostCalls /\ post'[d] = "mirror" /\ Op(d) \in Liking /\ Key(d) = k))
             /\ (d \in OnKey(k) <=> (d \in PostCalls /\ post[d] = "mirror" /\ Op(d) \in Liking /\ Key(d) = k))
  BY DEF OnKey, Between, Op, Key, By, On
<1>2. /\ \A d, q \in OnKey(k) : d = q
      /\ \A d \in OnKey(k) : k \in reactions <=> Op(d) = "like"
      /\ OnKey(k) = {} => (k \in reactions <=> k \in reactionsCopy)
  BY DEF ReactionInv
<1>3. CASE k # Key(c)
  <2>1. (k \in reactionsCopy' <=> k \in reactionsCopy) /\ OnKey(k)' = OnKey(k)
    BY <1>1, <1>3 DEF ToggleReaction, Moves
  <2> QED
    BY <1>2, <2>1
<1>4. CASE k = Key(c)
  <2>1. c \in OnKey(k)
    BY <1>1, <1>4
  <2>2. OnKey(k)' = {}
    BY <1>1, <1>2, <2>1 DEF Moves
  <2>3. k \in reactions <=> k \in reactionsCopy'
    BY <1>2, <1>4, <2>1 DEF ToggleReaction
  <2> QED
    BY <2>2, <2>3
<1> QED
  BY <1>3, <1>4

(* Likewise for the flags of a post.                                       *)
LEMMA StatusWritten ==
  ASSUME PostTypes, StatusInv, NEW c \in PostCalls, PinOrArchive(c)
  PROVE  StatusInv'
<1> DEFINE o == On(c)
<1>0. /\ Moves(c) /\ post'[c] = Copying /\ Op(c) \in StatusOps /\ post[c] # "mirror" /\ UNCHANGED <<statusCopy, mirrored>>
      /\ torn' = (IF Overlaps(c, StatusOps) = {} THEN torn ELSE torn \cup {o})
      /\ rows' = UpdateSignalStatus(o, Op(c) = "pin", Op(c) = "archive", FALSE)
  BY PostMoves DEF PinOrArchive, events, Starts, At
<1>1. o \in Articles /\ o \in StoredAtFirst /\ rows \in [Articles -> PostRows]
  BY <1>0, CallOf DEF PostTypes
<1> SUFFICES ASSUME mirrored, NEW p \in Articles
             PROVE  /\ statusCopy[p] # {} => p \in StoredAtFirst
                    /\ p \notin torn' =>
                         /\ \A d, q \in OnPost(p)' : d = q
                         /\ \A d \in OnPost(p)' : rows'[p].stored => Flags(rows'[p]) = Written(d)
                         /\ OnPost(p)' = {} /\ rows'[p].stored /\ statusCopy[p] # {} => statusCopy[p] = {Flags(rows'[p])}
  BY <1>0 DEF StatusInv, Written, Op, Exists, Flags
<1>2. /\ statusCopy[p] # {} => p \in StoredAtFirst
      /\ p \notin torn =>
           /\ \A d, q \in OnPost(p) : d = q
           /\ \A d \in OnPost(p) : rows[p].stored => Flags(rows[p]) = Written(d)
           /\ OnPost(p) = {} /\ rows[p].stored /\ statusCopy[p] # {} => statusCopy[p] = {Flags(rows[p])}
  BY DEF StatusInv, Exists
<1>3. \A d : (d \in OnPost(p)' <=> (d \in PostCalls /\ post'[d] = "mirror" /\ Op(d) \in StatusOps /\ On(d) = p))
             /\ (d \in OnPost(p) <=> (d \in PostCalls /\ post[d] = "mirror" /\ Op(d) \in StatusOps /\ On(d) = p))
  BY DEF OnPost, Between, Op, On
<1>4. CASE p # o
  <2>1. rows'[p] = rows[p]
    BY <1>0, <1>1, <1>4 DEF UpdateSignalStatus
  <2>2. OnPost(p)' = OnPost(p)
    BY <1>0, <1>3, <1>4 DEF Moves
  <2>3. p \notin torn' => p \notin torn
    BY <1>0
  <2> QED
    BY <1>2, <2>1, <2>2, <2>3
<1>5. CASE p = o /\ p \notin torn'
  <2>1. Overlaps(c, StatusOps) = {}
    BY <1>0, <1>5
  <2>2. \A q \in OnPost(p) : q = c
    BY <1>3, <1>5, <2>1 DEF Overlaps
  <2>3. OnPost(p)' = {c}
    BY <1>0, <1>3, <1>5, <2>2 DEF Moves, Copying
  <2>4. rows'[p].stored => Flags(rows'[p]) = Written(c)
    <3>1. rows[o] \in PostRows
      BY <1>1
    <3> DEFINE row == [rows[o] EXCEPT !.pinned = Op(c) = "pin", !.archived = Op(c) = "archive", !.draft = FALSE]
    <3>2. row.pinned = (Op(c) = "pin") /\ row.archived = (Op(c) = "archive")
      BY <3>1 DEF PostRows
    <3>3. rows' = (IF ~Exists(o) THEN rows ELSE [rows EXCEPT ![o] = row])
      BY <1>0 DEF UpdateSignalStatus
    <3> HIDE DEF row
    <3>4. CASE ~Exists(o)
      BY <1>5, <3>3, <3>4 DEF Exists
    <3>5. CASE Exists(o)
      BY <1>1, <1>5, <3>2, <3>3, <3>5 DEF Flags, Written
    <3> QED
      BY <3>4, <3>5
  <2> QED
    BY <1>2, <2>3, <2>4
<1>6. CASE p = o /\ p \in torn'
  BY <1>1, <1>6
<1> QED
  BY <1>4, <1>5, <1>6

(* ... and their copy, which is what was written: nobody else wrote since.  *)
LEMMA StatusCopied ==
  ASSUME PostTypes, StatusInv, NEW c \in PostCalls, MirrorStatus(c)
  PROVE  StatusInv'
<1> DEFINE o == On(c)
<1>0. /\ Moves(c) /\ post'[c] = "done" /\ post[c] = "mirror" /\ Op(c) \in StatusOps /\ UNCHANGED <<rows, mirrored, torn>>
      /\ statusCopy' = [statusCopy EXCEPT ![o] = {Written(c)}]
  BY PostMoves DEF MirrorStatus, events, Written
<1>1. o \in Articles /\ o \in StoredAtFirst /\ DOMAIN statusCopy = Articles
  BY <1>0, CallOf DEF PostTypes
<1>2. statusCopy'[o] = {Written(c)} /\ \A p \in Articles \ {o} : statusCopy'[p] = statusCopy[p]
  BY <1>0, <1>1
<1> SUFFICES ASSUME mirrored, NEW p \in Articles
             PROVE  /\ statusCopy'[p] # {} => p \in StoredAtFirst
                    /\ p \notin torn =>
                         /\ \A d, q \in OnPost(p)' : d = q
                         /\ \A d \in OnPost(p)' : rows[p].stored => Flags(rows[p]) = Written(d)
                         /\ OnPost(p)' = {} /\ rows[p].stored /\ statusCopy'[p] # {} => statusCopy'[p] = {Flags(rows[p])}
  BY <1>0 DEF StatusInv, Written, Op, Exists, Flags
<1>3. /\ statusCopy[p] # {} => p \in StoredAtFirst
      /\ p \notin torn =>
           /\ \A d, q \in OnPost(p) : d = q
           /\ \A d \in OnPost(p) : rows[p].stored => Flags(rows[p]) = Written(d)
           /\ OnPost(p) = {} /\ rows[p].stored /\ statusCopy[p] # {} => statusCopy[p] = {Flags(rows[p])}
  BY DEF StatusInv, Exists
<1>4. \A d : (d \in OnPost(p)' <=> (d \in PostCalls /\ post'[d] = "mirror" /\ Op(d) \in StatusOps /\ On(d) = p))
             /\ (d \in OnPost(p) <=> (d \in PostCalls /\ post[d] = "mirror" /\ Op(d) \in StatusOps /\ On(d) = p))
  BY DEF OnPost, Between, Op, On
<1>5. CASE p # o
  <2>1. OnPost(p)' = OnPost(p)
    BY <1>0, <1>4, <1>5 DEF Moves
  <2> QED
    BY <1>2, <1>3, <1>5, <2>1
<1>6. CASE p = o
  <2>1. c \in OnPost(p)
    BY <1>0, <1>4, <1>6
  <2>2. p \notin torn => OnPost(p)' = {}
    BY <1>0, <1>3, <1>4, <2>1 DEF Moves
  <2> QED
    BY <1>1, <1>2, <1>3, <1>6, <2>1, <2>2
<1> QED
  BY <1>5, <1>6

(* A comment is stored ...                                                 *)
LEMMA CommentWritten ==
  ASSUME PostTypes, CommentInv, NEW c \in PostCalls, AddNode(c)
  PROVE  CommentInv'
<1>1. /\ Moves(c) /\ post'[c] = Copying /\ Op(c) = "comment" /\ post[c] # "mirror"
      /\ comments' = comments \cup {Comment(c)} /\ UNCHANGED <<commentsCopy, mirrored, torn>>
  BY PostMoves DEF AddNode, events, At, CreateNode
<1> SUFFICES ASSUME NEW m \in comments'
             PROVE  \E d \in PostCalls :
                      /\ Op(d) = "comment" /\ m = Comment(d)
                      /\ mirrored => post'[d] = "mirror" \/ d \in torn \/ HasCopy(d)
  BY <1>1 DEF CommentInv, HasCopy, Op, Comment, On, By
<1>2. CASE m = Comment(c)
  BY <1>1, <1>2 DEF Copying
<1>3. CASE m \in comments
  <2>1. PICK d \in PostCalls :
          /\ Op(d) = "comment" /\ m = Comment(d)
          /\ mirrored => post[d] = "mirror" \/ d \in torn \/ HasCopy(d)
    BY <1>3 DEF CommentInv
  <2> QED
    BY <1>1, <2>1 DEF Moves
<1> QED
  BY <1>1, <1>2, <1>3

(* Every step of the posts keeps it.                                        *)
LEMMA CopyKept ==
  ASSUME PostTypes, CopyInv, NEW c \in PostCalls, PostStep(c)
  PROVE  CopyInv'
<1>0. ReactionInv /\ StatusInv /\ CommentInv
  BY DEF CopyInv
<1>1. CASE \/ Broadcast(c) \/ Compare(c) \/ Register(c) \/ CreateSignal(c)
           \/ CreateWavePool(c) \/ Announce(c) \/ PublishUnheeded(c) \/ Answered(c)
  <2>1. /\ Moves(c) /\ post[c] # "mirror" /\ post'[c] # "mirror"
        /\ UNCHANGED <<statusCopy, reactions, reactionsCopy, comments, commentsCopy, mirrored>> /\ torn \subseteq torn'
        /\ \A p \in StoredAtFirst : rows'[p] = rows[p]
    BY <1>1, BroadcastTypes DEF reactionRows, commentRows
  <2> QED
    BY <1>0, <2>1, ReactionFrame, StatusFrame, CommentFrame DEF CopyInv
<1>2. CASE \/ GetSignal(c) \/ View(c) \/ GetPost(c) \/ GetComments(c) \/ DeleteComment(c) \/ DeleteNode(c)
           \/ Own(c) \/ VoteWave(c) \/ ShareSignal(c) \/ UpdateSignal(c) \/ DeleteSignal(c) \/ ScheduleSignal(c)
  <2>1. /\ Moves(c) /\ post[c] # "mirror" /\ post'[c] # "mirror" /\ SameFlags
        /\ UNCHANGED <<statusCopy, reactions, reactionsCopy, commentsCopy, mirrored, torn>> /\ comments' \subseteq comments
    BY <1>2, PlainTypes DEF reactionRows, events
  <2>2. \A p \in StoredAtFirst : rows'[p].stored => rows[p].stored /\ Flags(rows'[p]) = Flags(rows[p])
    BY <2>1, PostsAssumption DEF SameFlags, PostsAssumption
  <2> QED
    BY <1>0, <2>1, <2>2, ReactionFrame, StatusFrame, CommentFrame DEF CopyInv
<1>3. CASE AmplifySignal(c) \/ RemoveResonance(c) \/ AddNode(c) \/ PinOrArchive(c)
  <2>1. /\ Moves(c) /\ post[c] # "mirror" /\ post'[c] \in {"refused", Copying}
        /\ UNCHANGED <<statusCopy, reactionsCopy, commentsCopy, mirrored>> /\ torn \subseteq torn'
    BY <1>3, FirstWriteTypes DEF events
  <2>2. CASE AmplifySignal(c) \/ RemoveResonance(c)
    <3>1. Op(c) \in Liking /\ Op(c) \notin StatusOps /\ Op(c) # "comment" /\ UNCHANGED <<rows, comments>>
      BY <2>2 DEF AmplifySignal, RemoveResonance, At, Liking, StatusOps, postRows, commentRows
    <3>2. StatusInv' /\ CommentInv'
      BY <1>0, <2>1, <3>1, StatusFrame, CommentFrame
    <3>3. ReactionInv'
      <4>1. CASE post'[c] = "refused" /\ UNCHANGED reactions
        BY <1>0, <2>1, <4>1, ReactionFrame
      <4>2. CASE ~(post'[c] = "refused" /\ UNCHANGED reactions)
        <5>1. /\ post'[c] = Copying /\ torn' = TornReaction(c)
              /\ reactions' = IF Op(c) = "like" THEN InsertReaction(Key(c)) ELSE DeleteReaction(Key(c))
          BY <2>2, <4>2, PostMoves DEF AmplifySignal, RemoveResonance, At
        <5> QED
          BY <1>0, <2>1, <3>1, <5>1, ReactionWritten
      <4> QED
        BY <4>1, <4>2
    <3> QED
      BY <3>2, <3>3 DEF CopyInv
  <2>3. CASE AddNode(c)
    <3>1. Op(c) = "comment" /\ Op(c) \notin Liking /\ Op(c) \notin StatusOps /\ UNCHANGED <<rows, reactions>>
      BY <2>3 DEF AddNode, At, Liking, StatusOps, postRows, reactionRows
    <3> QED
      BY <1>0, <2>1, <2>3, <3>1, ReactionFrame, StatusFrame, CommentWritten DEF CopyInv
  <2>4. CASE PinOrArchive(c)
    <3>1. Op(c) \in StatusOps /\ Op(c) \notin Liking /\ Op(c) # "comment" /\ UNCHANGED <<reactions, comments>>
      BY <2>4 DEF PinOrArchive, Liking, StatusOps, reactionRows, commentRows
    <3> QED
      BY <1>0, <2>1, <2>4, <3>1, ReactionFrame, StatusWritten, CommentFrame DEF CopyInv
  <2> QED
    BY <1>3, <2>2, <2>3, <2>4
<1>4. CASE MirrorResonance(c) \/ MirrorRemoval(c) \/ MirrorNode(c) \/ MirrorStatus(c)
  <2>1. /\ Moves(c) /\ post[c] = "mirror" /\ post'[c] = "done"
        /\ UNCHANGED <<rows, reactions, comments, mirrored, torn>>
    BY <1>4, SecondWriteTypes DEF events
  <2>2. CASE MirrorResonance(c) \/ MirrorRemoval(c)
    <3>1. /\ Op(c) \in Liking /\ Op(c) \notin StatusOps /\ Op(c) # "comment" /\ UNCHANGED <<statusCopy, commentsCopy>>
          /\ ToggleReaction(Key(c), Op(c) = "like")
      BY <2>2 DEF MirrorResonance, MirrorRemoval, At, Liking, StatusOps, postRows, commentRows
    <3> QED
      BY <1>0, <2>1, <3>1, StatusFrame, CommentFrame, ReactionCopied DEF CopyInv
  <2>3. CASE MirrorNode(c)
    <3>1. Op(c) = "comment" /\ Op(c) \notin Liking /\ Op(c) \notin StatusOps /\ UNCHANGED <<statusCopy, reactionsCopy>>
      BY <2>3 DEF MirrorNode, At, Liking, StatusOps, postRows, reactionRows
    <3>2. commentsCopy \subseteq commentsCopy' /\ HasCopy(c)'
      <4>1. commentsCopy' = commentsCopy \cup {Copy(c)}
        BY <2>3 DEF MirrorNode, CopyNode
      <4>2. Copy(c).id[1] = c /\ Copy(c).post = On(c)
        BY DEF Copy
      <4>3. On(c)' = On(c)
        BY DEF On
      <4> QED
        BY <4>1, <4>2, <4>3 DEF HasCopy
    <3> QED
      BY <1>0, <2>1, <3>1, <3>2, ReactionFrame, StatusFrame, CommentFrame DEF CopyInv
  <2>4. CASE MirrorStatus(c)
    <3>1. Op(c) \in StatusOps /\ Op(c) \notin Liking /\ Op(c) # "comment" /\ UNCHANGED <<reactionsCopy, commentsCopy>>
      BY <2>4 DEF MirrorStatus, Liking, StatusOps, reactionRows, commentRows
    <3> QED
      BY <1>0, <2>1, <2>4, <3>1, ReactionFrame, StatusCopied, CommentFrame DEF CopyInv
  <2> QED
    BY <1>4, <2>2, <2>3, <2>4
<1>5. CASE PostFails(c)
  <2>1. /\ Moves(c) /\ post'[c] = "failed" /\ torn \subseteq torn'
        /\ UNCHANGED <<rows, statusCopy, reactions, reactionsCopy, comments, commentsCopy, mirrored>>
        /\ post[c] = "mirror" => IF Op(c) = "comment" THEN c \in torn'
                                  ELSE IF Op(c) \in StatusOps THEN On(c) \in torn' ELSE Key(c) \in torn'
    BY <1>5, FailTypes DEF postRows, reactionRows, commentRows, events
  <2>2. Liking \cap StatusOps = {} /\ "comment" \notin Liking \cup StatusOps
    BY DEF Liking, StatusOps
  <2> QED
    BY <1>0, <2>1, <2>2, ReactionFrame, StatusFrame, CommentFrame DEF CopyInv
<1> QED
  BY <1>1, <1>2, <1>3, <1>4, <1>5 DEF PostStep

(* What is listed for readers holds every comment that is not on its way.  *)
LEMMA CopiesSuffice ==
  ASSUME PostTypes, CopyInv
  PROVE  CopiesAgree
<1> SUFFICES ASSUME mirrored, NEW p \in Articles \ Mirroring
             PROVE  /\ \A u \in Users : <<u, p>> \notin torn => (<<u, p>> \in reactions <=> <<u, p>> \in reactionsCopy)
                    /\ Exists(p) /\ p \notin torn /\ statusCopy[p] # {} => statusCopy[p] = {Flags(rows[p])}
                    /\ Calls(GetNodesForSignal(p)) \ torn \subseteq Calls(GetSignalNodes(p) \cup OldCopies(p))
  BY DEF CopiesAgree
<1>0. ReactionInv /\ StatusInv /\ CommentInv
  BY DEF CopyInv
<1>1. \A c \in PostCalls : post[c] = "mirror" => On(c) # p
  BY DEF Mirroring
<1>2. ASSUME NEW u \in Users, <<u, p>> \notin torn
      PROVE  <<u, p>> \in reactions <=> <<u, p>> \in reactionsCopy
  <2>1. OnKey(<<u, p>>) = {}
    BY <1>1 DEF OnKey, Between, Key
  <2>2. <<u, p>> \in Users \X Articles
    OBVIOUS
  <2> QED
    BY <1>0, <1>2, <2>1, <2>2 DEF ReactionInv
<1>3. ASSUME Exists(p), p \notin torn, statusCopy[p] # {}
      PROVE  statusCopy[p] = {Flags(rows[p])}
  <2>1. OnPost(p) = {}
    BY <1>1 DEF OnPost, Between
  <2> QED
    BY <1>0, <1>3, <2>1 DEF StatusInv
<1>4. ASSUME NEW m \in GetNodesForSignal(p), m.id[1] \notin torn
      PROVE  \E n \in GetSignalNodes(p) \cup OldCopies(p) : n.id[1] = m.id[1]
  <2>1. m \in comments /\ m.post = p
    BY DEF GetNodesForSignal, CommentsOn
  <2>2. PICK c \in PostCalls :
          m = Comment(c) /\ (post[c] = "mirror" \/ c \in torn \/ HasCopy(c))
    BY <1>0, <2>1 DEF CommentInv
  <2>3. m.id[1] = c /\ On(c) = p
    BY <2>1, <2>2 DEF Comment
  <2>4. PICK n \in CommentsOn(p, commentsCopy) : n.id[1] = c
    BY <1>1, <1>4, <2>2, <2>3 DEF CommentsOn, HasCopy
  <2>5. n \in GetCopiesForSignal(p) \/ n \in OldCopies(p)
    BY <2>4 DEF GetCopiesForSignal, OldCopies
  <2> QED
    BY <2>3, <2>4, <2>5 DEF GetSignalNodes
<1>5. Calls(GetNodesForSignal(p)) \ torn \subseteq Calls(GetSignalNodes(p) \cup OldCopies(p))
  BY <1>4 DEF Calls
<1> QED
  BY <1>2, <1>3, <1>5

-----------------------------------------------------------------------------
(* Privacy                                                                  *)

(* Nobody follows a private account that has not accepted it.              *)
FollowsAreAgreed == \A p \in follows : p[2] \in PrivateUsers => p \in agreed

Trusted(c) == Entrusted(By(c), Author[On(c)], Audience[On(c)])

(* A call that has looked may know the post, now and later on.             *)
PostPrivacy ==
  /\ \A c \in PostCalls : Op(c) \in Guarded /\ post[c] \in {"write", "list"} => Trusted(c)
  /\ \A r \in reactions : Entrusted(r[1], Author[r[2]], Audience[r[2]])
  /\ \A m \in comments : Entrusted(m.author, Author[m.post], Audience[m.post])
  /\ \A s \in shown : Entrusted(s[1], s[2].author, Audience[s[2].id])

TalePrivacy == \A v \in views \cup storyReactions : Entrusted(v[1], Teller[v[2]], AudienceOf(v[2]))

(* Trust is not taken back: an acceptance stays one.                       *)
LEMMA TrustStays ==
  ASSUME agreed \subseteq agreed', NEW u, NEW a, NEW audience, Entrusted(u, a, audience)
  PROVE  Entrusted(u, a, audience)'
BY DEF Entrusted

(* What others may see stays as it was while more is accepted.              *)
LEMMA TrustFrame ==
  ASSUME agreed \subseteq agreed', UNCHANGED <<post, reactions, comments, shown, views, storyReactions>>
  PROVE  (PostPrivacy => PostPrivacy') /\ (TalePrivacy => TalePrivacy')
BY DEF PostPrivacy, TalePrivacy, Entrusted, Trusted, By, On, Op, AudienceOf

(* A follower, once accepted, may know what is for the followers.          *)
LEMMA FollowersAreTrusted ==
  ASSUME FollowsAreAgreed, NEW u, NEW a, <<u, a>> \in follows
  PROVE  Entrusted(u, a, "followers")
BY DEF FollowsAreAgreed, Entrusted

(* CanViewSignal lets in whoever is trusted with the post.                  *)
LEMMA ViewersAreTrusted ==
  ASSUME FollowsAreAgreed, NEW u, NEW p, CanView(u, p)
  PROVE  Entrusted(u, Author[p], Audience[p])
BY FollowersAreTrusted DEF CanView, Follows, Entrusted

(* What a step of a call adds for others to see is of its own user and its *)
(* own post, and it has looked at that post.                               *)
LEMMA PrivacyFrame ==
  ASSUME PostPrivacy, NEW c \in PostCalls, Moves(c), UNCHANGED agreed,
         Op(c) \in Guarded /\ post'[c] \in {"write", "list"} => Trusted(c),
         \A r \in reactions' \ reactions : r = Key(c) /\ Trusted(c),
         \A m \in comments' \ comments : m = Comment(c) /\ Trusted(c),
         \A s \in shown' \ shown : s = <<By(c), Signal(On(c))>> /\ Trusted(c)
  PROVE  PostPrivacy'
<1>1. \A u, a, audience : Entrusted(u, a, audience)' <=> Entrusted(u, a, audience)
  BY DEF Entrusted
<1>2. ASSUME NEW d \in PostCalls, Op(d) \in Guarded, post'[d] \in {"write", "list"}
      PROVE  Trusted(d)'
  <2>1. Trusted(d)
    BY <1>2 DEF Moves, PostPrivacy
  <2> QED
    BY <2>1 DEF Trusted, Entrusted, By, On
<1>3. ASSUME NEW r \in reactions'
      PROVE  Entrusted(r[1], Author[r[2]], Audience[r[2]])
  BY DEF PostPrivacy, Key, Trusted
<1>4. ASSUME NEW m \in comments'
      PROVE  Entrusted(m.author, Author[m.post], Audience[m.post])
  BY DEF PostPrivacy, Comment, Trusted
<1>5. ASSUME NEW s \in shown'
      PROVE  Entrusted(s[1], s[2].author, Audience[s[2].id])
  BY DEF PostPrivacy, Signal, Trusted
<1> QED
  BY <1>1, <1>2, <1>3, <1>4, <1>5 DEF PostPrivacy, Op

(* Every step of the posts keeps it.                                        *)
LEMMA PrivacyKept ==
  ASSUME PostTypes, PostPrivacy, FollowsAreAgreed, UNCHANGED agreed, NEW c \in PostCalls, PostStep(c)
  PROVE  PostPrivacy'
<1>1. CASE \/ Broadcast(c) \/ Compare(c) \/ Register(c) \/ CreateSignal(c)
           \/ CreateWavePool(c) \/ Announce(c) \/ PublishUnheeded(c) \/ Answered(c)
  <2>1. Moves(c) /\ Op(c) = "broadcast" /\ UNCHANGED <<reactions, comments, shown>>
    BY <1>1, BroadcastTypes DEF reactionRows, commentRows
  <2>2. Op(c) \notin Guarded
    BY <2>1 DEF Guarded, Reads
  <2> QED
    BY <2>1, <2>2, PrivacyFrame
<1>2. CASE \/ GetSignal(c) \/ View(c) \/ GetPost(c) \/ GetComments(c) \/ DeleteComment(c) \/ DeleteNode(c)
           \/ Own(c) \/ VoteWave(c) \/ ShareSignal(c) \/ UpdateSignal(c) \/ DeleteSignal(c) \/ ScheduleSignal(c)
  <2>1. Moves(c) /\ UNCHANGED reactions /\ comments' \subseteq comments
    BY <1>2, PlainTypes DEF reactionRows
  <2>2. CASE View(c)
    <3>1. post'[c] \in {"write", "list"} => CanView(By(c), On(c))
      BY <2>2, PostMoves DEF View
    <3>2. post'[c] \in {"write", "list"} => Trusted(c)
      BY <3>1, ViewersAreTrusted DEF Trusted
    <3> QED
      BY <2>1, <2>2, <3>2, PrivacyFrame DEF View, commentRows
  <2>3. CASE GetPost(c) \/ GetComments(c)
    <3>1. Trusted(c) /\ post'[c] = "done"
      BY <2>3, PostMoves DEF GetPost, GetComments, PostPrivacy, At, Guarded, Reads
    <3>2. \A s \in shown' \ shown : s = <<By(c), Signal(On(c))>>
      BY <2>3 DEF GetPost, GetComments, GetSignalNodes, GetCopiesForSignal, GetNodesForSignal, CommentsOn
    <3> QED
      BY <2>1, <3>1, <3>2, PrivacyFrame
  <2>4. CASE DeleteComment(c)
    <3>1. Trusted(c) /\ UNCHANGED shown
      BY <2>4 DEF DeleteComment, PostPrivacy, At, Guarded
    <3> QED
      BY <2>1, <3>1, PrivacyFrame
  <2>5. CASE GetSignal(c) \/ DeleteNode(c) \/ Own(c) \/ VoteWave(c)
    <3>1. UNCHANGED shown /\ (Op(c) \in Guarded => post'[c] \notin {"write", "list"})
      BY <2>5, PostMoves DEF GetSignal, DeleteNode, Own, VoteWave, commentRows, Guarded, Reads, Starts, At
    <3> QED
      BY <2>1, <3>1, PrivacyFrame
  <2>6. CASE ShareSignal(c) \/ UpdateSignal(c) \/ DeleteSignal(c) \/ ScheduleSignal(c)
    <3>1. UNCHANGED shown /\ post'[c] = "done"
      BY <2>6, PostMoves DEF ShareSignal, UpdateSignal, DeleteSignal, ScheduleSignal, commentRows
    <3> QED
      BY <2>1, <3>1, PrivacyFrame
  <2> QED
    BY <1>2, <2>2, <2>3, <2>4, <2>5, <2>6
<1>3. CASE AmplifySignal(c) \/ RemoveResonance(c) \/ AddNode(c) \/ PinOrArchive(c)
  <2>1. Moves(c) /\ post'[c] \in {"refused", "mirror", "done"} /\ UNCHANGED shown
    BY <1>3, FirstWriteTypes
  <2>2. Op(c) \in Guarded /\ post[c] = "write" => Trusted(c)
    BY DEF PostPrivacy
  <2>3. \A r \in reactions' \ reactions : r = Key(c) /\ Trusted(c)
    BY <1>3, <2>2 DEF AmplifySignal, RemoveResonance, AddNode, PinOrArchive, At, Guarded, InsertReaction, DeleteReaction, reactionRows
  <2>4. \A m \in comments' \ comments : m = Comment(c) /\ Trusted(c)
    BY <1>3, <2>2 DEF AmplifySignal, RemoveResonance, AddNode, PinOrArchive, At, Guarded, CreateNode, commentRows
  <2> QED
    BY <2>1, <2>3, <2>4, PrivacyFrame
<1>4. CASE MirrorResonance(c) \/ MirrorRemoval(c) \/ MirrorNode(c) \/ MirrorStatus(c)
  <2>1. Moves(c) /\ post'[c] = "done" /\ UNCHANGED <<reactions, comments, shown>>
    BY <1>4, SecondWriteTypes
  <2> QED
    BY <2>1, PrivacyFrame
<1>5. CASE PostFails(c)
  <2>1. Moves(c) /\ post'[c] = "failed" /\ UNCHANGED <<reactions, comments, shown>>
    BY <1>5, FailTypes DEF reactionRows, commentRows
  <2> QED
    BY <2>1, PrivacyFrame
<1> QED
  BY <1>1, <1>2, <1>3, <1>4, <1>5 DEF PostStep

(* Every step of the stories keeps it: the statement that writes has looked *)
(* itself.                                                                  *)
LEMMA TalesKept ==
  ASSUME TalePrivacy, FollowsAreAgreed, UNCHANGED agreed,
         (\E c \in StoryCalls : StoryStep(c)) \/ \E t \in Tales : Expire(t)
  PROVE  TalePrivacy'
<1>1. \A u, a, audience : Entrusted(u, a, audience)' <=> Entrusted(u, a, audience)
  BY DEF Entrusted
<1>2. \A u, t : Available(u, t) => Entrusted(u, Teller[t], AudienceOf(t))
  BY FollowersAreTrusted DEF Available, Entrusted, AudienceOf
<1>3. ASSUME NEW v \in (views \cup storyReactions)'
      PROVE  v \in views \cup storyReactions \/ Available(v[1], v[2])
  BY DEF StoryStep, CreateStory, RecordView, ReactToStory, Expire
<1> QED
  BY <1>1, <1>2, <1>3 DEF TalePrivacy, AudienceOf

(* The feed and the list of stories show what the follows allow.            *)
LEMMA PrivacySuffices ==
  ASSUME PostPrivacy, TalePrivacy, FollowsAreAgreed
  PROVE  PrivateStaysPrivate
<1>1. ASSUME NEW u \in Users, NEW t \in GetActiveStories(u)
      PROVE  Entrusted(u, Teller[t], AudienceOf(t))
  BY FollowersAreTrusted DEF GetActiveStories, Available, Entrusted, AudienceOf
<1>2. ASSUME NEW u \in Users, NEW s \in GetStream(u)
      PROVE  Entrusted(u, s.author, FeedAudience(s.id))
  <2>1. PICK p \in Articles : s = Signal(p) /\ (Follows(u, Author[p]) \/ Audience[p] = "public")
    BY DEF GetStream, GetFeed
  <2>2. s.id = p /\ s.author = Author[p]
    BY <2>1 DEF Signal
  <2>3. CASE Audience[p] = "public"
    BY <2>2, <2>3 DEF FeedAudience, Entrusted
  <2>4. CASE Audience[p] # "public"
    BY <2>1, <2>2, <2>4, FollowersAreTrusted DEF Follows, FeedAudience
  <2> QED
    BY <2>3, <2>4
<1> QED
  BY <1>1, <1>2 DEF PostPrivacy, TalePrivacy, PrivateStaysPrivate

-----------------------------------------------------------------------------
(* Content                                                                  *)

(* The graph, the posts and the stories together.                          *)
ContentInv == SocialInv /\ PostTypes /\ TextInv /\ CopyInv /\ PostPrivacy /\ TalePrivacy

(* Nothing is under way, and nothing copied yet.                           *)
LEMMA ContentInitially == ContentInit => ContentInv
<1> SUFFICES ASSUME ContentInit PROVE ContentInv
  OBVIOUS
<1>1. SocialInv
  BY SocialInitially DEF ContentInit
<1>2. PostsInit /\ StoriesInit
  BY DEF ContentInit
<1>3. PostTypes
  <2>1. rows \in [Articles -> PostRows]
    <3>1. New \in PostRows /\ [New EXCEPT !.stored = FALSE] \in PostRows
      BY DEF New, PostRows
    <3> HIDE DEF New
    <3> QED
      BY <1>2, <3>1 DEF PostsInit
  <2> QED
    BY <1>2, <2>1 DEF PostsInit, PostTypes, PostPlaces
<1>4. TextInv
  BY <1>2 DEF PostsInit, TextInv, Registering, Registered
<1>5. CopyInv
  <2>1. Between(Liking) = {} /\ Between(StatusOps) = {}
    BY <1>2 DEF PostsInit, Between
  <2> QED
    BY <1>2, <2>1 DEF PostsInit, CopyInv, ReactionInv, StatusInv, CommentInv, OnKey, OnPost
<1>6. PostPrivacy /\ TalePrivacy
  BY <1>2 DEF PostsInit, StoriesInit, PostPrivacy, TalePrivacy
<1> QED
  BY <1>1, <1>3, <1>4, <1>5, <1>6 DEF ContentInv

(* An acceptance is never taken back.                                      *)
LEMMA AgreedGrows == ASSUME NEW c \in SocialCalls, SocialStep(c) PROVE agreed \subseteq agreed'
BY DEF SocialStep, Follow, Track, InsertFollow, Unfollow, RequestFollow, Ask, SendFollowRequest, HandleFollowRequest,
       Look, ShowProfile, ShowFollowers, ShowFollowing, Block, SocialFails

(* While the posts stand still, so does what is known of them.             *)
LEMMA PostsAtRest ==
  ASSUME UNCHANGED contentVars
  PROVE  (PostTypes => PostTypes') /\ (TextInv => TextInv') /\ (CopyInv => CopyInv')
<1>1. /\ UNCHANGED <<rows, statusCopy, polls, fingerprints, reactions, reactionsCopy, comments, commentsCopy>>
      /\ UNCHANGED <<post, announced, unheard, mirrored, shown, torn>>
  BY DEF contentVars
<1>2. PostTypes => PostTypes'
  BY <1>1 DEF PostTypes, Op
<1>3. TextInv => TextInv'
  BY <1>1 DEF TextInv, Registering, Registered, PollDone, Op, On
<1>4. ReactionInv => ReactionInv'
  BY <1>1 DEF ReactionInv, OnKey, Between, Key, By, On, Op
<1>5. StatusInv => StatusInv'
  BY <1>1 DEF StatusInv, OnPost, Between, On, Op, Exists, Flags, Written
<1>6. CommentInv => CommentInv'
  BY <1>1 DEF CommentInv, HasCopy, Comment, On, Op, By
<1> QED
  BY <1>2, <1>3, <1>4, <1>5, <1>6 DEF CopyInv

(* The calls of the three modules interleave: a step of one leaves the     *)
(* rows of the others alone, and only adds to what was agreed.             *)
LEMMA ContentStep == ContentInv /\ [ContentNext]_allContentVars => ContentInv'
<1> SUFFICES ASSUME ContentInv, [ContentNext]_allContentVars PROVE ContentInv'
  OBVIOUS
<1>1. SocialInv /\ PostTypes /\ TextInv /\ CopyInv /\ PostPrivacy /\ TalePrivacy /\ FollowsAreAgreed
  BY DEF ContentInv, SocialInv, FollowInv, FollowsAreAgreed
<1>2. CASE (\E c \in SocialCalls : SocialStep(c)) /\ UNCHANGED <<contentVars, storyVars>>
  <2>1. SocialInv' /\ agreed \subseteq agreed'
    BY <1>1, <1>2, SocialStepKeeps, AgreedGrows DEF SocialNext
  <2>2. UNCHANGED <<post, reactions, comments, shown, views, storyReactions>>
    BY <1>2 DEF contentVars, storyVars
  <2> QED
    BY <1>1, <1>2, <2>1, <2>2, PostsAtRest, TrustFrame DEF ContentInv
<1>3. CASE (\E c \in PostCalls : PostStep(c)) /\ UNCHANGED <<socialVars, storyVars>>
  <2>1. PICK c \in PostCalls : PostStep(c)
    BY <1>3
  <2>2. SocialInv' /\ UNCHANGED agreed
    BY <1>1, <1>3, SocialStepKeeps DEF socialVars
  <2>3. PostTypes'
    BY <1>1, <2>1, BroadcastTypes, PlainTypes, FirstWriteTypes, SecondWriteTypes, FailTypes DEF PostStep
  <2>4. TextInv' /\ CopyInv' /\ PostPrivacy'
    BY <1>1, <2>1, <2>2, TextKept, CopyKept, PrivacyKept
  <2>5. TalePrivacy'
    BY <1>1, <1>3, <2>2 DEF storyVars, TalePrivacy, Entrusted, AudienceOf
  <2> QED
    BY <2>2, <2>3, <2>4, <2>5 DEF ContentInv
<1>4. CASE /\ (\E c \in StoryCalls : StoryStep(c)) \/ \E t \in Tales : Expire(t)
           /\ UNCHANGED <<socialVars, contentVars>>
  <2>1. SocialInv' /\ UNCHANGED agreed
    BY <1>1, <1>4, SocialStepKeeps DEF socialVars
  <2>2. PostPrivacy'
    BY <1>1, <1>4, <2>1 DEF contentVars, PostPrivacy, Trusted, Entrusted, By, On, Op
  <2> QED
    BY <1>1, <1>4, <2>1, <2>2, PostsAtRest, TalesKept DEF ContentInv
<1>5. CASE UNCHANGED allContentVars
  <2>1. UNCHANGED <<socialVars, contentVars, storyVars>>
    BY <1>5 DEF allContentVars
  <2>2. SocialInv' /\ UNCHANGED <<agreed, post, reactions, comments, shown, views, storyReactions>>
    BY <1>1, <2>1, SocialStepKeeps DEF socialVars, contentVars, storyVars
  <2> QED
    BY <1>1, <2>1, <2>2, PostsAtRest, TrustFrame DEF ContentInv
<1>6. \A calls, at, open : Going(calls, at, open) \subseteq calls
  BY DEF Going
<1>7. ASSUME ContentNext
      PROVE  \/ (\E c \in SocialCalls : SocialStep(c)) /\ UNCHANGED <<contentVars, storyVars>>
             \/ (\E c \in PostCalls : PostStep(c)) /\ UNCHANGED <<socialVars, storyVars>>
             \/ /\ (\E c \in StoryCalls : StoryStep(c)) \/ \E t \in Tales : Expire(t)
                /\ UNCHANGED <<socialVars, contentVars>>
  BY <1>6, <1>7, Zenon DEF ContentNext
<1> QED
  BY <1>2, <1>3, <1>4, <1>5, <1>7

(* The invariant holds in every behaviour.                                  *)
LEMMA ContentAlways == ContentSpec => []ContentInv
  BY ContentInitially, ContentStep, PTL DEF ContentSpec

(* Of any number of calls on any posts, the copies in ScyllaDB say what    *)
(* the rows of PostgreSQL say of reactions, flags and comments, but for    *)
(* what two calls wrote at a time or a failed copy left, and for comments  *)
(* whose copy is older than the newest CommentsShown: the two writes of    *)
(* AmplifySignal, RemoveResonance, PinSignal, ArchiveSignal and AddNode.   *)
THEOREM CopiesAgreeAlways == ContentSpec => []CopiesAgree
<1>1. ContentInv => CopiesAgree
  BY CopiesSuffice DEF ContentInv
<1> QED
  BY <1>1, ContentAlways, PTL

(* VerifyOriginality lets a text pass twice only for calls that compared   *)
(* it before either registered it, and BroadcastSignal answers with        *)
(* success when the poll is whole and, with a mirror, the event out.       *)
THEOREM OriginalsAreSingleAlways == ContentSpec => []OriginalsAreSingle
<1>1. TextInv => OriginalsAreSingle
  BY DEF TextInv, OriginalsAreSingle, Published, Registering
<1>2. ContentInv => OriginalsAreSingle
  BY <1>1 DEF ContentInv
<1> QED
  BY <1>2, ContentAlways, PTL

(* Whatever follows, requests, blocks, expiries and other calls come       *)
(* between the statement that looks at a post or a story and the one that  *)
(* shows or writes, nobody is in on it who was not trusted with it; and    *)
(* the feed shows nothing but what is public or, be it for the author      *)
(* alone, to whom the followers' posts are shown.  Search is not in it.    *)
THEOREM PrivateStaysPrivateAlways == ContentSpec => []PrivateStaysPrivate
<1>1. ContentInv => PrivateStaysPrivate
  BY PrivacySuffices DEF ContentInv, SocialInv, FollowInv, FollowsAreAgreed
<1> QED
  BY <1>1, ContentAlways, PTL
=============================================================================
