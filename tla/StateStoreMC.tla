----------------------------- MODULE StateStoreMC -----------------------------
(* Instances of StateStore for TLC: an administrator's address and a user's, *)
(* the latter written in two ways, and something that is no address.         *)
EXTENDS StateStore, TLC

CONSTANTS acc1, acc2, repo1, w1, w2, adm, usr, Usr, bad, notes, BadName, top, sub

CanonicalAddress == (adm :> "adm") @@ (usr :> "usr") @@ (Usr :> "usr") @@ (bad :> NoEmail)

StoreSymmetry == Permutations(Writer) \cup Permutations(AccountId)
=============================================================================
