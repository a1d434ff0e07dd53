----------------------------- MODULE AdminPanelMC -----------------------------
(* Instances of AdminPanel for TLC: the administrator's address, a user's    *)
(* and one nobody may have, with times scaled down to a few ticks.           *)
EXTENDS AdminPanelClaims, TLC

CONSTANTS acc1, acc2, repo1, adm, usr, bad, top, q1, q2, q3, n1, n2, h1, h2, t1, t2, admMail, usrMail

CanonicalAddress ==
  [a \in Address |-> CASE a = adm -> admMail [] a = usr -> usrMail [] OTHER -> NoEmail]

Lifetimes == [kind \in Kinds |-> IF kind = "panel" THEN 2 ELSE 1]

\* The settings may name either address: they change places together with
\* their canonical forms.
SwapAddresses ==
  (adm :> usr) @@ (usr :> adm) @@ (admMail :> usrMail) @@ (usrMail :> admMail)

PanelSymmetry ==
  Permutations(AccountId) \cup Permutations(Handler) \cup Permutations(Tab) \cup {SwapAddresses}
=============================================================================
