SPECIFICATION Spec
CONSTANTS
  e1 = e1 e2 = e2 e3 = e3 c1 = c1 c2 = c2 Free = Free Reader = Reader
  Events = {e1} KeyOf <- MCKeyOf ActionOf <- MCActionOf
  Claims = {c1, c2} QuestOf <- MCQuestOf Quests <- MCQuests
  Achievements <- FirstMessage Awards = {1} MaxDay = 1 MaxShields = 0 Errors = FALSE
INVARIANTS ClaimedOnce
