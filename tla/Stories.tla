------------------------------- MODULE Stories -------------------------------
(***************************************************************************)
(* backend/internal/modules/stories: stories that expire, with their views *)
(* and reactions.  Who may see one is asked in the statement that writes,  *)
(* of the rows of SocialGraph as they are at that moment.                  *)
(***************************************************************************)
EXTENDS SocialGraph

CONSTANTS
  Tales, Teller,         \* the stories, and the author of each
  TalesAtFirst,          \* those there already
  PublicTales,           \* some of these: no call writes a visibility
  StoryCalls, StoryCall  \* the calls: op, by, story

ASSUME StoriesAssumption ==
  /\ Teller \in [Tales -> Users] /\ PublicTales \subseteq TalesAtFirst /\ TalesAtFirst \subseteq Tales
  /\ StoryCall \in [StoryCalls -> [op: {"tell", "view", "react"}, by: Users, story: Tales]]
  /\ \A c \in StoryCalls :
       StoryCall[c].op = "tell" => /\ StoryCall[c].by = Teller[StoryCall[c].story]
                                   /\ StoryCall[c].story \notin TalesAtFirst

VARIABLES
  told,     \* the rows of stories
  expired,  \* those whose expires_at has come
  views, storyReactions,  \* pairs of a user and a story
  story     \* where each call is

storyVars == <<told, expired, views, storyReactions, story>>

StoriesInit ==
  /\ told = TalesAtFirst /\ expired = {} /\ views = {} /\ storyReactions = {}
  /\ story = [c \in StoryCalls |-> "idle"]

Viewer(c) == StoryCall[c].by
Tale(c) == StoryCall[c].story
Tells(c, op) == StoryCall[c].op = op /\ story[c] = "idle"
StoryGoto(c, l) == story' = [story EXCEPT ![c] = l]

(* The WHERE clause that all the statements share; nothing archives a      *)
(* story.                                                                  *)
Available(u, t) ==
  /\ t \in told \ expired
  /\ Teller[t] = u \/ t \in PublicTales \/ <<u, Teller[t]>> \in follows

CreateStory(c) ==
  /\ Tells(c, "tell") /\ StoryGoto(c, "done")
  /\ told' = told \cup {Tale(c)}
  /\ UNCHANGED <<expired, views, storyReactions>>

(* No row inserted is an error.                                            *)
RecordView(c) ==
  /\ Tells(c, "view")
  /\ IF Available(Viewer(c), Tale(c))
     THEN StoryGoto(c, "done") /\ views' = views \cup {<<Viewer(c), Tale(c)>>}
     ELSE StoryGoto(c, "refused") /\ UNCHANGED views
  /\ UNCHANGED <<told, expired, storyReactions>>

ReactToStory(c) ==
  /\ Tells(c, "react")
  /\ IF Available(Viewer(c), Tale(c))
     THEN StoryGoto(c, "done") /\ storyReactions' = storyReactions \cup {<<Viewer(c), Tale(c)>>}
     ELSE StoryGoto(c, "refused") /\ UNCHANGED storyReactions
  /\ UNCHANGED <<told, expired, views>>

Expire(t) ==
  /\ t \in told \ expired /\ expired' = expired \cup {t}
  /\ UNCHANGED <<told, views, storyReactions, story>>

StoryStep(c) == CreateStory(c) \/ RecordView(c) \/ ReactToStory(c)

-----------------------------------------------------------------------------
(* What is shown                                                           *)

GetActiveStories(u) == {t \in Tales : Available(u, t)}

(* Of one author; it answers the latest of these.                          *)
GetLatestStoryForUser(author, u) == {t \in GetActiveStories(u) : Teller[t] = author}

(* To the author only, and after the story has expired as well.            *)
GetStoryViewers(t, u) == {v \in Users : t \in told /\ Teller[t] = u /\ <<v, t>> \in views}
=============================================================================
