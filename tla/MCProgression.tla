---------------------------- MODULE MCProgression ----------------------------
(* Two posts and a message, of which the first message unlocks an          *)
(* achievement, a daily quest for one post and a weekly one for two.       *)
EXTENDS Progression, TLC

CONSTANTS e1, e2, e3, c1, c2

daily == [action |-> "post", target |-> 1, reward |-> 5, cadence |-> "daily"]
weekly == [action |-> "post", target |-> 2, reward |-> 9, cadence |-> "weekly"]
MCQuests == {daily, weekly}

MCKeyOf == [e \in Events |-> e]
MCActionOf == [e \in Events |-> IF e = e3 THEN "message" ELSE "post"]
MCQuestOf == [c \in Claims |-> daily]

FirstMessage == {[metric |-> "message", threshold |-> 1]}
=============================================================================
