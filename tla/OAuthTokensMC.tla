---------------------------- MODULE OAuthTokensMC ----------------------------
(* Instances of OAuthTokens for TLC.                                         *)
EXTENDS OAuthTokensClaims, TLC

CONSTANTS c1, c2, a1, a2, q1, q2, h1, h2

TokenSymmetry ==
  Permutations(Client) \cup Permutations(AccountId) \cup Permutations(Request) \cup Permutations(Handler)
=============================================================================
