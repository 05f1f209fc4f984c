SPECIFICATION ContentSpec
CONSTANTS
  ann = ann  bob = bob  cyd = cyd
  s1 = s1  s2 = s2  s3 = s3  s4 = s4  s5 = s5  s6 = s6  s7 = s7  s8 = s8  s9 = s9  r1 = r1
  p1 = p1  p2 = p2  p3 = p3  p4 = p4  t1 = t1
  c1 = c1  c2 = c2  c3 = c3  c4 = c4  c5 = c5  c6 = c6  c7 = c7  c8 = c8  c9 = c9
  d1 = d1  d2 = d2  d3 = d3  d4 = d4  d5 = d5  d6 = d6  d7 = d7  d8 = d8
  q1 = q1  q2 = q2  h1 = h1  h2 = h2  h3 = h3
  Users = {ann, bob, cyd}  PrivateUsers = {ann}
  SocialCalls = {s1, s2, s3, s4, s5, s6, s7, s8, s9, r1}  SocialCall <- MCSocialCall
  FollowsAtFirst <- MCFollows  BlocksAtFirst <- MCBlocks
  Articles = {p1, p2, p3, p4}  Author <- MCAuthor  Audience <- MCAudience
  Text <- MCText  PollOptions <- MCPoll  StoredAtFirst = {p1, p4}
  CommentsShown = 1
  PostCalls = {c1, c2, c3, c4, c5, c6, c7, c8, c9, d1, d2, d3, d4, d5, d6, d7, d8}  PostCall <- MCPostCall
  Tales = {q1, q2}  Teller <- MCTeller  TalesAtFirst = {q1}  PublicTales = {}
  StoryCalls = {h1, h2, h3}  StoryCall <- MCStoryCall
  MaxCalls = 3  Scenes <- MCScenes
INVARIANTS FollowersAreAccepted CopiesAgree OriginalsAreSingle PrivateStaysPrivate
CHECK_DEADLOCK FALSE
