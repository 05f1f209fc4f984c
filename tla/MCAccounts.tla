----------------------------- MODULE MCAccounts -----------------------------
(* Two requests at a time on one account whose hash is an old one.         *)
EXTENDS Accounts, TLC

CONSTANTS c1, c2, t1, t2, s1, s2, h1

MCCalls == {c1, c2}
MCTokens == {t1, t2}
OneCall == {c1}

Symmetry == Permutations(MCCalls) \cup Permutations({s1, s2})
=============================================================================
