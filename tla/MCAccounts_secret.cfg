SPECIFICATION AccountsSpec
CONSTANTS
  c1 = c1 c2 = c2 t1 = t1 t2 = t2 s1 = s1 s2 = s2 h1 = h1 None = None
  Calls <- OneCall Tokens <- MCTokens Secrets = {s1, s2} Challenges = {h1}
  Threshold = 2 MaxAttempts = 2 OldHash = TRUE Legacy = {t1}
SYMMETRY Symmetry
INVARIANTS EnabledIsShown
