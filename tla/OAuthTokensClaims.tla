-------------------------- MODULE OAuthTokensClaims --------------------------
(***************************************************************************)
(* A statement of the user-accounts specification which OAuthTokens does   *)
(* not satisfy when a sign-out meets an exchange.                          *)
(***************************************************************************)
EXTENDS OAuthTokens

(* "Disabling or deleting an account, or revoking its sessions, MUST make  *)
(* all its tokens stop working immediately": no access token verifies that *)
(* continues a session which had tokens when its account was signed out.   *)
SignedOutEverywhere ==
  \A g \in access, f \in DOMAIN grants :
    Verifies(g) /\ grants[f].signIn = grants[g].signIn => issued[f] = epoch[grants[g].account]

(* "Authorization codes and sign-in requests MUST be single use".          *)
RequestsSingleUse ==
  \A s, t \in DOMAIN signIns : signIns[s].request = signIns[t].request => s = t
=============================================================================
