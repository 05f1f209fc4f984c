------------------------------ MODULE MCContent ------------------------------
(* Three users, of whom ann has a private account; bob follows cyd at       *)
(* first.  Three calls of thirty are made, in any order: of those on the    *)
(* graph and on what ann posts and tells, or of those on posts, with a      *)
(* block.                                                                   *)
EXTENDS Content, TLC

CONSTANTS
  ann, bob, cyd, s1, s2, s3, s4, s5, s6, s7, s8, s9, r1,
  p1, p2, p3, p4, t1, c1, c2, c3, c4, c5, c6, c7, c8, c9, d1, d2, d3, d4, d5, d6, d7, d8, q1, q2, h1, h2, h3

SC(op, f, t, st) == [op |-> op, pair |-> <<f, t>>, status |-> st]
MCSocialCall ==
  s1 :> SC("request", bob, ann, "accepted") @@ s2 :> SC("respond", bob, ann, "accepted") @@
  s3 :> SC("respond", bob, ann, "rejected") @@ s4 :> SC("follow", bob, ann, "accepted") @@
  s5 :> SC("unfollow", bob, ann, "accepted") @@ s6 :> SC("block", cyd, bob, "accepted") @@
  s7 :> SC("follow", bob, cyd, "accepted") @@ s8 :> SC("profile", bob, ann, "accepted") @@
  s9 :> SC("followers", bob, ann, "accepted") @@ r1 :> SC("following", bob, ann, "accepted")
MCFollows == {<<bob, cyd>>}
MCBlocks == {<<cyd, ann>>}

PC(op, u, p) == [op |-> op, by |-> u, post |-> p]
MCPostCall ==
  c1 :> PC("broadcast", ann, p2) @@ c2 :> PC("broadcast", bob, p3) @@ c3 :> PC("like", bob, p1) @@
  c4 :> PC("unlike", bob, p1) @@ c5 :> PC("comment", bob, p1) @@ c6 :> PC("uncomment", bob, p1) @@
  c7 :> PC("repost", bob, p1) @@ c8 :> PC("edit", cyd, p1) @@ c9 :> PC("delete", cyd, p1) @@
  d1 :> PC("pin", cyd, p1) @@ d2 :> PC("archive", cyd, p1) @@ d3 :> PC("schedule", cyd, p1) @@
  d4 :> PC("vote", bob, p2) @@ d5 :> PC("like", bob, p4) @@
  d6 :> PC("read", bob, p4) @@ d7 :> PC("comments", bob, p1) @@ d8 :> PC("comment", cyd, p1)
MCAuthor == p1 :> cyd @@ p2 :> ann @@ p3 :> bob @@ p4 :> ann
MCAudience == p1 :> "followers" @@ p2 :> "private" @@ p3 :> "public" @@ p4 :> "followers"
MCText == p1 :> p1 @@ p2 :> t1 @@ p3 :> t1 @@ p4 :> p4
MCPoll == p1 :> 0 @@ p2 :> 2 @@ p3 :> 0 @@ p4 :> 0

HC(op, u, t) == [op |-> op, by |-> u, story |-> t]
MCStoryCall == h1 :> HC("tell", ann, q2) @@ h2 :> HC("view", bob, q1) @@ h3 :> HC("react", bob, q1)
MCTeller == q1 :> ann @@ q2 :> ann

MCScenes ==
  {{s1, s2, s3, s4, s5, s6, s7, s8, s9, r1, d5, d6, h1, h2, h3},
   {s6, c1, c2, c3, c4, c5, c6, c7, c8, c9, d1, d2, d3, d4, d7, d8}}
==============================================================================
