----------------------------- MODULE SocialGraph -----------------------------
(***************************************************************************)
(* backend/internal/modules/social: who follows whom, the requests to      *)
(* follow a private account, and blocks.  Each call is one or several      *)
(* statements, and each statement is atomic in PostgreSQL.                 *)
(*                                                                         *)
(* A pair is <<follower, followed>>; the call of a block is the pair       *)
(* <<blocker, blocked>>.                                                   *)
(***************************************************************************)
EXTENDS Naturals, FiniteSets

CONSTANTS
  Users,
  PrivateUsers,    \* users.is_private, which no operation of the program changes
  SocialCalls,     \* the calls that are made
  SocialCall,      \* of each: op, pair, and the status of an answer to a request
  FollowsAtFirst, BlocksAtFirst

SocialOps == {"follow", "unfollow", "request", "respond", "block", "profile", "followers", "following"}

ASSUME SocialAssumption ==
  /\ PrivateUsers \subseteq Users
  /\ SocialCall \in [SocialCalls -> [op: SocialOps, pair: Users \X Users,
                                     status: {"accepted", "rejected", "cancelled"}]]
  /\ FollowsAtFirst \subseteq Users \X Users /\ BlocksAtFirst \subseteq Users \X Users
  /\ \A p \in FollowsAtFirst : p[2] \notin PrivateUsers

VARIABLES
  follows,   \* the accepted rows of follows
  requests,  \* follow_requests: the pairs that have a row, with its status
  blocks,    \* the rows of blocks
  denied,    \* the rows of neural_connections whose type is "blocked"
  social,    \* where each call is
  known,     \* history: who was shown, of whose profile and lists, which pairs
  agreed,    \* history: the pairs whose followed user has accepted a request
  ended      \* history: the pairs parted, or whose acceptance failed, since then

socialVars == <<follows, requests, blocks, denied, social, known, agreed, ended>>

SocialInit ==
  /\ follows = FollowsAtFirst /\ blocks = BlocksAtFirst
  /\ requests = [p \in Users \X Users |-> "none"] /\ denied = {}
  /\ social = [c \in SocialCalls |-> "idle"]
  /\ known = {} /\ agreed = {} /\ ended = {}

Pair(c) == SocialCall[c].pair
Follower(c) == Pair(c)[1]
Followed(c) == Pair(c)[2]
Turned(p) == <<p[2], p[1]>>

SocialGoto(c, l) == social' = [social EXCEPT ![c] = l]
Begins(c, op) == social[c] = "idle" /\ SocialCall[c].op = op

(* The subquery on blocks that the statements share.                       *)
Apart(p) == p \in blocks \/ Turned(p) \in blocks

-----------------------------------------------------------------------------
(* Follow                                                                  *)

IsPrivateUser(u) == u \in PrivateUsers
FollowUser(p) == IF Apart(p) THEN follows ELSE follows \cup {p}
UnfollowUser(p) == follows \ {p}

(* Mutant: a private account is followed like another.                     *)
FollowAnyone(c) ==
  /\ Begins(c, "follow") /\ SocialGoto(c, "track")
  /\ UNCHANGED <<follows, requests, blocks, denied, known, agreed, ended>>

Follow(c) ==
  /\ Begins(c, "follow")
  /\ SocialGoto(c, IF IsPrivateUser(Followed(c)) THEN "refused" ELSE "track")
  /\ UNCHANGED <<follows, requests, blocks, denied, known, agreed, ended>>

(* TrackInteraction of the guard refuses more than fifty in five minutes;  *)
(* how many there were is left out.                                        *)
Track(c) ==
  /\ social[c] = "track" /\ \E tooMany \in BOOLEAN : SocialGoto(c, IF tooMany THEN "refused" ELSE "insert")
  /\ UNCHANGED <<follows, requests, blocks, denied, known, agreed, ended>>

(* INSERT INTO follows ... ON CONFLICT, unless there is a block.           *)
InsertFollow(c) ==
  /\ social[c] = "insert"
  /\ SocialGoto(c, IF Apart(Pair(c)) THEN "refused" ELSE "done")
  /\ follows' = FollowUser(Pair(c))
  /\ ended' = IF Apart(Pair(c)) THEN ended \cup {Pair(c)} ELSE ended
  /\ UNCHANGED <<requests, blocks, denied, known, agreed>>

Unfollow(c) ==
  /\ Begins(c, "unfollow") /\ SocialGoto(c, "done")
  /\ follows' = UnfollowUser(Pair(c)) /\ ended' = ended \cup {Pair(c)}
  /\ UNCHANGED <<requests, blocks, denied, known, agreed>>

-----------------------------------------------------------------------------
(* Requests                                                                *)

RequestFollow(c) ==
  /\ Begins(c, "request")
  /\ SocialGoto(c, IF IsPrivateUser(Followed(c)) THEN "ask" ELSE "refused")
  /\ UNCHANGED <<follows, requests, blocks, denied, known, agreed, ended>>

(* IsBlocked looks at one direction only.                                  *)
IsBlocked(p) == p \in blocks
Ask(c) ==
  /\ social[c] = "ask" /\ SocialGoto(c, IF IsBlocked(Pair(c)) THEN "refused" ELSE "send")
  /\ UNCHANGED <<follows, requests, blocks, denied, known, agreed, ended>>

SendFollowRequest(c) ==
  /\ social[c] = "send" /\ SocialGoto(c, "done")
  /\ requests' = [requests EXCEPT ![Pair(c)] = "pending"]
  /\ UNCHANGED <<follows, blocks, denied, known, agreed, ended>>

(* UPDATE follow_requests ... WHERE status = 'pending'.                    *)
Respond(p, status) ==
  IF requests[p] = "pending" /\ ~Apart(p) THEN [requests EXCEPT ![p] = status] ELSE requests

(* Mutant: the request is answered, and the follow left to another call.   *)
AnswerOnly(c) ==
  LET accepts == requests' # requests /\ SocialCall[c].status = "accepted"
  IN  /\ Begins(c, "respond") /\ requests' = Respond(Pair(c), SocialCall[c].status)
      /\ SocialGoto(c, "done")
      /\ agreed' = IF accepts THEN agreed \cup {Pair(c)} ELSE agreed
      /\ ended' = IF accepts THEN ended \ {Pair(c)} ELSE ended
      /\ UNCHANGED <<follows, blocks, denied, known>>

(* No row is an error; the follow is inserted by a second statement.       *)
HandleFollowRequest(c) ==
  LET found == requests' # requests
      accepts == found /\ SocialCall[c].status = "accepted"
  IN  /\ Begins(c, "respond") /\ requests' = Respond(Pair(c), SocialCall[c].status)
      /\ SocialGoto(c, IF accepts THEN "insert" ELSE IF found THEN "done" ELSE "refused")
      /\ agreed' = IF accepts THEN agreed \cup {Pair(c)} ELSE agreed
      /\ ended' = IF accepts THEN ended \ {Pair(c)} ELSE ended
      /\ UNCHANGED <<follows, blocks, denied, known>>

-----------------------------------------------------------------------------
(* What others are shown                                                   *)

CanViewProfile(viewer, target) ==
  /\ viewer = target \/ ~IsPrivateUser(target) \/ <<viewer, target>> \in follows
  /\ ~Apart(<<viewer, target>>)

GetFollowers(u) == {p \in follows : p[2] = u}
GetFollowing(u) == {p \in follows : p[1] = u}

(* The question and the list are two statements.                           *)
Look(c) ==
  /\ \E op \in {"profile", "followers", "following"} : Begins(c, op)
  /\ SocialGoto(c, IF CanViewProfile(Follower(c), Followed(c)) THEN "show" ELSE "refused")
  /\ UNCHANGED <<follows, requests, blocks, denied, known, agreed, ended>>

Shows(c, op) == social[c] = "show" /\ SocialCall[c].op = op /\ SocialGoto(c, "done")
Known(c, set) == known \cup {<<Follower(c), Followed(c), p>> : p \in set}

ShowProfile(c) ==
  /\ Shows(c, "profile") /\ known' = Known(c, {<<Followed(c), Followed(c)>>})
  /\ UNCHANGED <<follows, requests, blocks, denied, agreed, ended>>

ShowFollowers(c) ==
  /\ Shows(c, "followers") /\ known' = Known(c, GetFollowers(Followed(c)))
  /\ UNCHANGED <<follows, requests, blocks, denied, agreed, ended>>

ShowFollowing(c) ==
  /\ Shows(c, "following") /\ known' = Known(c, GetFollowing(Followed(c)))
  /\ UNCHANGED <<follows, requests, blocks, denied, agreed, ended>>

-----------------------------------------------------------------------------
(* BlockUserAtomically: one statement takes away both directions and       *)
(* writes the deny edge, into neural_connections.                          *)
Block(c) ==
  LET both == {Pair(c), Turned(Pair(c))}
  IN  /\ Begins(c, "block") /\ SocialGoto(c, "done")
      /\ follows' = follows \ both /\ ended' = ended \cup both
      /\ denied' = denied \cup {Pair(c)}
      /\ UNCHANGED <<requests, blocks, known, agreed>>

(* A statement fails, or the process dies before it.                       *)
SocialFails(c) ==
  /\ social[c] \in {"track", "insert", "ask", "send", "show"} /\ SocialGoto(c, "failed")
  /\ ended' = IF social[c] = "insert" THEN ended \cup {Pair(c)} ELSE ended
  /\ UNCHANGED <<follows, requests, blocks, denied, known, agreed>>

SocialStep(c) ==
  \/ Follow(c) \/ Track(c) \/ InsertFollow(c) \/ Unfollow(c)
  \/ RequestFollow(c) \/ Ask(c) \/ SendFollowRequest(c) \/ HandleFollowRequest(c)
  \/ Look(c) \/ ShowProfile(c) \/ ShowFollowers(c) \/ ShowFollowing(c) \/ Block(c) \/ SocialFails(c)

SocialNext == \E c \in SocialCalls : SocialStep(c)

SocialSpec == SocialInit /\ [][SocialNext]_socialVars

-----------------------------------------------------------------------------
(* Correctness                                                             *)

Accepting(p) == \E c \in SocialCalls : social[c] = "insert" /\ Pair(c) = p

(* The followers of a private account are those it has accepted: no other  *)
(* call makes one, and an accepted one is missing only while its second    *)
(* statement is to come, has failed, or the two have parted since.  Only   *)
(* they were shown its profile, or whom it follows and is followed by.     *)
FollowersAreAccepted ==
  /\ \A p \in follows : p[2] \in PrivateUsers => p \in agreed
  /\ \A p \in agreed \ (follows \cup ended) : Accepting(p)
  /\ \A k \in known : k[2] \in PrivateUsers => k[1] = k[2] \/ <<k[1], k[2]>> \in agreed
=============================================================================
