---------------------------- MODULE MCRefreshTokens ----------------------------
EXTENDS RefreshTokens, TLC

Symmetry ==
  Permutations(Requests) \cup Permutations(Tokens) \cup Permutations(Families)
==============================================================================
