SPECIFICATION FairSpec
CONSTANTS
  e1 = e1 e2 = e2 e3 = e3 c1 = c1 c2 = c2 Free = Free Reader = Reader
  Events = {e1, e2, e3} KeyOf <- MCKeyOf ActionOf <- MCActionOf
  Claims = {c1} QuestOf <- MCQuestOf Quests <- MCQuests
  Achievements <- FirstMessage Awards = {1} MaxDay = 2 MaxShields = 1 Errors = TRUE
INVARIANTS AllIsEarned
PROPERTIES CallsEnd
