-------------------------------- MODULE Posts --------------------------------
(***************************************************************************)
(* backend/internal/modules/content: posts, reactions and comments, kept   *)
(* in PostgreSQL and copied to ScyllaDB by the same handler afterwards.    *)
(* Who may see a post depends on the rows of SocialGraph, and is asked     *)
(* once, before the statements that rely on it.                            *)
(***************************************************************************)
EXTENDS SocialGraph

CONSTANTS
  Articles,          \* the posts, those already stored and those to be created
  Author, Audience,  \* of each: "public", "followers" or "private"
  Text,              \* of each, as the guard fingerprints it
  PollOptions,       \* of each: 0 for none, else 2 or more
  StoredAtFirst,
  CommentsShown,     \* of the copies, the newest: 100
  PostCalls, PostCall   \* the calls: op, by, post

PostOps == {"broadcast", "like", "unlike", "repost", "comment", "uncomment", "read", "comments",
            "analytics", "edit", "delete", "pin", "archive", "schedule", "vote"}

(* normalizeVisibility; none named is "public".                            *)
Audiences == {"public", "followers", "private"}

ASSUME PostsAssumption ==
  /\ Author \in [Articles -> Users] /\ StoredAtFirst \subseteq Articles
  /\ Audience \in [Articles -> Audiences]
  /\ PollOptions \in [Articles -> Nat \ {1}] /\ CommentsShown \in Nat \ {0}
  /\ PostCall \in [PostCalls -> [op: PostOps, by: Users, post: Articles]]
  /\ \A c \in PostCalls :
       IF PostCall[c].op = "broadcast"
       THEN PostCall[c].by = Author[PostCall[c].post] /\ PostCall[c].post \notin StoredAtFirst
       ELSE PostCall[c].post \in StoredAtFirst \/ PostCall[c].op = "vote"

VARIABLES
  rows,         \* posts: each row, if stored
  statusCopy,   \* signal_by_id: the status that was mirrored, if any was
  polls,        \* rows of polls and poll_options of each post
  votes,        \* poll_votes: the option of each user and post, 0 for none
  fingerprints, \* the guard's texts; it forgets none while the process lives
  reactions, reactionsCopy,  \* pairs of a user and a post
  comments, commentsCopy,    \* their rows; a copy has an id and a time of its own
  post,         \* where each call is
  chosen,       \* of a deletion, the comment and the store whose id was listed
  announced,    \* posts whose SIGNAL_BROADCASTED was published
  unheard,      \* ... or whose event was lost, and nobody asked
  mirrored,     \* whether there is a ScyllaDB, and so which service there is
  shown,        \* history: users, and the posts and comments they were shown
  torn          \* history: what two calls wrote at a time, or a mirror missed

contentVars == <<rows, statusCopy, polls, votes, fingerprints, reactions,
                 reactionsCopy, comments, commentsCopy, post, chosen, announced, unheard, mirrored,
                 shown, torn>>
pollRows == <<polls, votes>>
reactionRows == <<reactions, reactionsCopy>>
commentRows == <<comments, commentsCopy, chosen, shown>>
events == <<announced, unheard, mirrored>>
postRows == <<rows, statusCopy>>

New == [stored |-> TRUE, pinned |-> FALSE, archived |-> FALSE, draft |-> FALSE, edited |-> FALSE,
        shares |-> 0]

PostsInit ==
  /\ rows = [p \in Articles |-> IF p \in StoredAtFirst THEN New ELSE [New EXCEPT !.stored = FALSE]]
  /\ statusCopy = [p \in Articles |-> {}]
  /\ polls = [p \in Articles |-> 0] /\ votes = [u \in Users |-> [p \in Articles |-> 0]]
  /\ fingerprints = {}
  /\ reactions = {} /\ reactionsCopy = {} /\ comments = {} /\ commentsCopy = {}
  /\ post = [c \in PostCalls |-> "idle"] /\ chosen = {} /\ announced = {} /\ torn = {}
  /\ unheard = {} /\ shown = {} /\ mirrored \in BOOLEAN

By(c) == PostCall[c].by
On(c) == PostCall[c].post
Op(c) == PostCall[c].op
PostGoto(c, l) == post' = [post EXCEPT ![c] = l]
At(c, op, l) == Op(c) = op /\ post[c] = l
Starts(c, op) == At(c, op, "idle")
Exists(p) == rows[p].stored

(* Where a call goes when PostgreSQL has what it wrote.                    *)
Copying == IF mirrored THEN "mirror" ELSE "done"

-----------------------------------------------------------------------------
(* BroadcastSignal                                                         *)

(* DetectBotPattern refuses more than ten posts in a minute; how many      *)
(* there were is left out.                                                 *)
Broadcast(c) ==
  /\ Starts(c, "broadcast") /\ \E tooMany \in BOOLEAN : PostGoto(c, IF tooMany THEN "refused" ELSE "compare")
  /\ UNCHANGED <<postRows, pollRows, fingerprints, reactionRows, commentRows, events, torn>>

(* The broadcasts of the same text that are past their comparison.         *)
SameText(c) == {<<c, q>> : q \in {q \in PostCalls : At(q, "broadcast", "register") /\ Text[On(q)] = Text[On(c)]}}

(* Mutant: the fingerprints are not looked at.                             *)
CompareNothing(c) ==
  /\ At(c, "broadcast", "compare") /\ PostGoto(c, "register")
  /\ torn' = torn \cup SameText(c)
  /\ UNCHANGED <<postRows, pollRows, fingerprints, reactionRows, commentRows, events>>

(* VerifyOriginality, under the read lock; two calls may both get past it. *)
Compare(c) ==
  /\ At(c, "broadcast", "compare")
  /\ PostGoto(c, IF Text[On(c)] \in fingerprints THEN "duplicate" ELSE "register")
  /\ torn' = torn \cup SameText(c)
  /\ UNCHANGED <<postRows, pollRows, fingerprints, reactionRows, commentRows, events>>

(* ... and under the write lock.  The fingerprint stays, whatever becomes  *)
(* of the post.                                                            *)
Register(c) ==
  /\ At(c, "broadcast", "register") /\ PostGoto(c, "insert")
  /\ fingerprints' = fingerprints \cup {Text[On(c)]}
  /\ UNCHANGED <<postRows, pollRows, reactionRows, commentRows, events, torn>>

CreateSignal(c) ==
  /\ At(c, "broadcast", "insert") /\ PostGoto(c, "group")
  /\ rows' = [rows EXCEPT ![On(c)] = New]
  /\ UNCHANGED <<statusCopy, pollRows, fingerprints, reactionRows, commentRows, events, torn>>

(* The group of goroutines.  CreateWavePool inserts the poll and then one  *)
(* option after the other, in no transaction.                              *)
PollDone(p) == polls[p] = IF PollOptions[p] = 0 THEN 0 ELSE PollOptions[p] + 1
CreateWavePool(c) ==
  /\ At(c, "broadcast", "group") /\ ~PollDone(On(c))
  /\ polls' = [polls EXCEPT ![On(c)] = @ + 1]
  /\ UNCHANGED <<postRows, votes, fingerprints, reactionRows, commentRows, post, events, torn>>

Announce(c) ==
  /\ At(c, "broadcast", "group") /\ On(c) \notin announced \cup unheard
  /\ announced' = announced \cup {On(c)}
  /\ UNCHANGED <<postRows, pollRows, fingerprints, reactionRows, commentRows, post, unheard, mirrored, torn>>

(* The service without a mirror does not look at what Publish returns.     *)
PublishUnheeded(c) ==
  /\ At(c, "broadcast", "group") /\ ~mirrored /\ On(c) \notin announced \cup unheard
  /\ unheard' = unheard \cup {On(c)}
  /\ UNCHANGED <<postRows, pollRows, fingerprints, reactionRows, commentRows, post, announced, mirrored, torn>>

Answered(c) ==
  /\ At(c, "broadcast", "group") /\ PollDone(On(c)) /\ On(c) \in announced \cup unheard
  /\ PostGoto(c, "done")
  /\ UNCHANGED <<postRows, pollRows, fingerprints, reactionRows, commentRows, events, torn>>

-----------------------------------------------------------------------------
(* What may be seen                                                        *)

Follows(u, a) == <<u, a>> \in follows

(* CanViewSignal                                                           *)
CanView(u, p) ==
  /\ Exists(p) /\ ~rows[p].archived
  /\ \/ Author[p] = u \/ Audience[p] = "public"
     \/ Audience[p] = "followers" /\ Follows(u, Author[p])

(* A draft is not left out.                                                *)
GetFeed(u) ==
  {p \in Articles : /\ Exists(p) /\ ~rows[p].archived
                    /\ Follows(u, Author[p]) \/ Audience[p] = "public"}

(* What the stream is made of, and every answer that holds a post: neither *)
(* statement reads the flags or the counts.                                *)
Signal(p) == [id |-> p, author |-> Author[p]]
GetStream(u) == {Signal(p) : p \in GetFeed(u)}
GetSignalByID(p) == IF Exists(p) THEN {Signal(p)} ELSE {}

Reads == {"read", "comments", "analytics"}
Guarded == {"like", "unlike", "repost", "comment", "uncomment"} \cup Reads

(* requireVisiblePost: GetSignal, and then CanViewSignal.                  *)
GetSignal(c) ==
  /\ Op(c) \in Guarded /\ Starts(c, Op(c))
  /\ PostGoto(c, IF GetSignalByID(On(c)) # {} THEN "view" ELSE "refused")
  /\ UNCHANGED <<postRows, pollRows, fingerprints, reactionRows, commentRows, events, torn>>

View(c) ==
  /\ post[c] = "view"
  /\ PostGoto(c, IF ~CanView(By(c), On(c)) THEN "refused" ELSE IF Op(c) = "uncomment" THEN "list" ELSE "write")
  /\ UNCHANGED <<postRows, pollRows, fingerprints, reactionRows, commentRows, events, torn>>

(* GetPost and GetPostAnalytics answer with the post that was read before  *)
(* the question was asked.                                                 *)
GetPost(c) ==
  /\ Op(c) \in {"read", "analytics"} /\ post[c] = "write" /\ PostGoto(c, "done")
  /\ shown' = shown \cup {<<By(c), Signal(On(c))>>}
  /\ UNCHANGED <<postRows, pollRows, fingerprints, reactionRows, comments, commentsCopy, chosen, events, torn>>

-----------------------------------------------------------------------------
(* Reactions: a row each in PostgreSQL, then in ScyllaDB                   *)

Key(c) == <<By(c), On(c)>>

(* Calls on the same row that are between their two writes.                *)
Overlaps(c, ops) == {q \in PostCalls \ {c} : post[q] = "mirror" /\ Op(q) \in ops /\ On(q) = On(c)}
TornReaction(c) ==
  IF \E q \in Overlaps(c, {"like", "unlike"}) : By(q) = By(c) THEN torn \cup {Key(c)} ELSE torn

InsertReaction(k) == reactions \cup {k}
DeleteReaction(k) == reactions \ {k}

(* AmplifySignal, which the guard refuses after fifty in five minutes.     *)
AmplifySignal(c) ==
  /\ At(c, "like", "write")
  /\ \/ PostGoto(c, "refused") /\ UNCHANGED <<reactions, torn>>
     \/ PostGoto(c, Copying) /\ reactions' = InsertReaction(Key(c)) /\ torn' = TornReaction(c)
  /\ UNCHANGED <<postRows, pollRows, fingerprints, reactionsCopy, commentRows, events>>

(* Mutant: the removal is left to PostgreSQL.                              *)
RemoveFromPrimary(c) ==
  /\ At(c, "unlike", "write") /\ PostGoto(c, "done")
  /\ reactions' = DeleteReaction(Key(c)) /\ torn' = TornReaction(c)
  /\ UNCHANGED <<postRows, pollRows, fingerprints, reactionsCopy, commentRows, events>>

RemoveResonance(c) ==
  /\ At(c, "unlike", "write") /\ PostGoto(c, Copying)
  /\ reactions' = DeleteReaction(Key(c)) /\ torn' = TornReaction(c)
  /\ UNCHANGED <<postRows, pollRows, fingerprints, reactionsCopy, commentRows, events>>

ToggleReaction(k, add) == reactionsCopy' = IF add THEN reactionsCopy \cup {k} ELSE reactionsCopy \ {k}

MirrorResonance(c) ==
  /\ At(c, "like", "mirror") /\ PostGoto(c, "done") /\ ToggleReaction(Key(c), TRUE)
  /\ UNCHANGED <<postRows, pollRows, fingerprints, reactions, commentRows, events, torn>>

MirrorRemoval(c) ==
  /\ At(c, "unlike", "mirror") /\ PostGoto(c, "done") /\ ToggleReaction(Key(c), FALSE)
  /\ UNCHANGED <<postRows, pollRows, fingerprints, reactions, commentRows, events, torn>>

(* UpdateSignalMetrics sets the counts, it does not add to them.           *)
UpdateSignalMetrics(p, shares) == IF Exists(p) THEN [rows EXCEPT ![p].shares = shares] ELSE rows
ShareSignal(c) ==
  /\ At(c, "repost", "write") /\ PostGoto(c, "done")
  /\ rows' = UpdateSignalMetrics(On(c), 1)
  /\ UNCHANGED <<statusCopy, pollRows, fingerprints, reactionRows, commentRows, events, torn>>

-----------------------------------------------------------------------------
(* Comments: the copy has an id of its own, and the time it was made       *)

Comment(c) == [id |-> <<c, "primary">>, post |-> On(c), author |-> By(c)]
Copy(c) == [id |-> <<c, "copy">>, post |-> On(c), author |-> By(c), at |-> Cardinality(commentsCopy)]
CreateNode(c) == comments \cup {Comment(c)}
CopyNode(c) == commentsCopy \cup {Copy(c)}

AddNode(c) ==
  /\ At(c, "comment", "write") /\ PostGoto(c, Copying)
  /\ comments' = CreateNode(c)
  /\ UNCHANGED <<postRows, pollRows, fingerprints, reactionRows, commentsCopy, chosen, shown, events, torn>>

MirrorNode(c) ==
  /\ At(c, "comment", "mirror") /\ PostGoto(c, "done")
  /\ commentsCopy' = CopyNode(c)
  /\ UNCHANGED <<postRows, pollRows, fingerprints, reactionRows, comments, chosen, shown, events, torn>>

(* GetNodesForSignal, of either store: all the rows of PostgreSQL, but of  *)
(* the copies the newest CommentsShown, those of deleted comments counted. *)
CommentsOn(p, store) == {m \in store : m.post = p}
GetNodesForSignal(p) == CommentsOn(p, comments)
BeyondLimit(m) == Cardinality({n \in CommentsOn(m.post, commentsCopy) : n.at > m.at}) >= CommentsShown
GetCopiesForSignal(p) == {m \in CommentsOn(p, commentsCopy) : ~BeyondLimit(m)}

(* GetSignalNodes: the copies if there are any.                            *)
GetSignalNodes(p) ==
  IF mirrored /\ GetCopiesForSignal(p) # {} THEN GetCopiesForSignal(p) ELSE GetNodesForSignal(p)

GetComments(c) ==
  /\ At(c, "comments", "write") /\ PostGoto(c, "done")
  /\ shown' = shown \cup {<<By(c), Signal(m.post)>> : m \in GetSignalNodes(On(c))}
  /\ UNCHANGED <<postRows, pollRows, fingerprints, reactionRows, comments, commentsCopy, chosen, events, torn>>

(* DeleteComment: the id must be listed, and be a comment of the user.     *)
DeleteComment(c) ==
  /\ At(c, "uncomment", "list")
  /\ \/ \E m \in GetSignalNodes(On(c)) : m.author = By(c) /\ chosen' = chosen \cup {<<c, m.id>>} /\ PostGoto(c, "write")
     \/ PostGoto(c, "refused") /\ UNCHANGED chosen
  /\ UNCHANGED <<postRows, pollRows, fingerprints, reactionRows, comments, commentsCopy, shown, events, torn>>

(* DELETE FROM comments: the id of a copy matches no row.                  *)
DeleteNode(c) ==
  /\ At(c, "uncomment", "write") /\ PostGoto(c, "done")
  /\ comments' = {m \in comments : <<c, m.id>> \notin chosen}
  /\ UNCHANGED <<postRows, pollRows, fingerprints, reactionRows, commentsCopy, chosen, shown, events, torn>>

-----------------------------------------------------------------------------
(* The author's calls, and those of the service that have no route         *)

(* UpdatePost and DeletePost read the row, compare the author, and write.  *)
Own(c) ==
  /\ Op(c) \in {"edit", "delete"} /\ Starts(c, Op(c))
  /\ PostGoto(c, IF \E row \in GetSignalByID(On(c)) : row.author = By(c) THEN "write" ELSE "refused")
  /\ UNCHANGED <<postRows, pollRows, fingerprints, reactionRows, commentRows, events, torn>>

UpdateSignal(c) ==
  /\ At(c, "edit", "write") /\ PostGoto(c, "done")
  /\ rows' = IF Exists(On(c)) THEN [rows EXCEPT ![On(c)].edited = TRUE] ELSE rows
  /\ UNCHANGED <<statusCopy, pollRows, fingerprints, reactionRows, commentRows, events, torn>>

DeleteSignal(c) ==
  /\ At(c, "delete", "write") /\ PostGoto(c, "done")
  /\ rows' = [rows EXCEPT ![On(c)].stored = FALSE]
  /\ UNCHANGED <<statusCopy, pollRows, fingerprints, reactionRows, commentRows, events, torn>>

StatusOps == {"pin", "archive"}
Flags(row) == [pinned |-> row.pinned, archived |-> row.archived]
UpdateSignalStatus(p, pinned, archived, draft) ==
  IF ~Exists(p) THEN rows
  ELSE [rows EXCEPT ![p] = [@ EXCEPT !.pinned = pinned, !.archived = archived, !.draft = draft]]

(* PinSignal and ArchiveSignal write all three flags.                      *)
PinOrArchive(c) ==
  /\ Op(c) \in StatusOps /\ Starts(c, Op(c)) /\ PostGoto(c, Copying)
  /\ rows' = UpdateSignalStatus(On(c), Op(c) = "pin", Op(c) = "archive", FALSE)
  /\ torn' = IF Overlaps(c, StatusOps) = {} THEN torn ELSE torn \cup {On(c)}
  /\ UNCHANGED <<statusCopy, pollRows, fingerprints, reactionRows, commentRows, events>>

MirrorStatus(c) ==
  /\ post[c] = "mirror" /\ Op(c) \in StatusOps /\ PostGoto(c, "done")
  /\ statusCopy' = [statusCopy EXCEPT ![On(c)] = {[pinned |-> Op(c) = "pin", archived |-> Op(c) = "archive"]}]
  /\ UNCHANGED <<rows, pollRows, fingerprints, reactionRows, commentRows, events, torn>>

(* ScheduleSignal touches the draft flag, in PostgreSQL only.              *)
ScheduleSignal(c) ==
  /\ Starts(c, "schedule") /\ PostGoto(c, "done")
  /\ rows' = IF Exists(On(c)) THEN [rows EXCEPT ![On(c)].draft = TRUE] ELSE rows
  /\ UNCHANGED <<statusCopy, pollRows, fingerprints, reactionRows, commentRows, events, torn>>

(* VoteWave: the option must belong to the poll; a vote replaces another.  *)
VoteWave(c) ==
  /\ Starts(c, "vote")
  /\ \E o \in 1..PollOptions[On(c)] :
       IF o + 1 <= polls[On(c)]
       THEN PostGoto(c, "done") /\ votes' = [votes EXCEPT ![By(c)][On(c)] = o]
       ELSE PostGoto(c, "refused") /\ UNCHANGED votes
  /\ UNCHANGED <<postRows, polls, fingerprints, reactionRows, commentRows, events, torn>>

-----------------------------------------------------------------------------

(* A statement fails or the process dies; an error of the mirror is only   *)
(* logged.                                                                 *)
PostFails(c) ==
  /\ post[c] \in {"compare", "register", "insert", "group", "view", "write", "list", "mirror"}
  /\ PostGoto(c, "failed")
  /\ torn' = IF post[c] # "mirror" THEN torn
             ELSE torn \cup {IF Op(c) = "comment" THEN c ELSE IF Op(c) \in StatusOps THEN On(c) ELSE Key(c)}
  /\ UNCHANGED <<postRows, pollRows, fingerprints, reactionRows, commentRows, events>>

PostStep(c) ==
  \/ Broadcast(c) \/ Compare(c) \/ Register(c) \/ CreateSignal(c) \/ CreateWavePool(c)
  \/ Announce(c) \/ PublishUnheeded(c) \/ Answered(c) \/ GetSignal(c) \/ View(c) \/ GetPost(c)
  \/ AmplifySignal(c) \/ RemoveResonance(c) \/ MirrorResonance(c) \/ MirrorRemoval(c)
  \/ ShareSignal(c) \/ AddNode(c) \/ MirrorNode(c) \/ GetComments(c) \/ DeleteComment(c)
  \/ DeleteNode(c) \/ Own(c) \/ UpdateSignal(c) \/ DeleteSignal(c) \/ PinOrArchive(c)
  \/ MirrorStatus(c) \/ ScheduleSignal(c) \/ VoteWave(c) \/ PostFails(c)

-----------------------------------------------------------------------------
(* Correctness                                                             *)
Mirroring == {On(c) : c \in {c \in PostCalls : post[c] = "mirror"}}

(* The comments, by the calls that made them.                              *)
Calls(nodes) == {m.id[1] : m \in nodes}
OldCopies(p) == {m \in CommentsOn(p, commentsCopy) : BeyondLimit(m)}

(* The copies say what the rows say, but for what two calls wrote at the   *)
(* same time and what a mirror has missed: of a reaction, of the status of *)
(* a post, and of the comments that readers are shown, from which a        *)
(* comment is also missing once CommentsShown copies of the post are newer *)
(* than its own: PostgreSQL would show it, the mirror no longer does.      *)
CopiesAgree ==
  mirrored => \A p \in Articles \ Mirroring :
    /\ \A u \in Users : <<u, p>> \notin torn => (<<u, p>> \in reactions <=> <<u, p>> \in reactionsCopy)
    /\ Exists(p) /\ p \notin torn /\ statusCopy[p] # {} => statusCopy[p] = {Flags(rows[p])}
    /\ Calls(GetNodesForSignal(p)) \ torn \subseteq Calls(GetSignalNodes(p) \cup OldCopies(p))

Published == {c \in PostCalls : post[c] = "done" /\ Op(c) = "broadcast"}

(* A text is broadcast twice only by calls that both compared it before    *)
(* either registered it, and a broadcast that succeeds is whole: its poll  *)
(* with all the options, and, where the service asks for it, its event.    *)
OriginalsAreSingle ==
  \A c \in Published :
    /\ PollDone(On(c)) /\ (mirrored => On(c) \in announced)
    /\ \A q \in Published \ {c} : Text[On(q)] = Text[On(c)] => {<<c, q>>, <<q, c>>} \cap torn # {}
=============================================================================
