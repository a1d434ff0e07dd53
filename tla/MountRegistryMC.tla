--------------------------- MODULE MountRegistryMC ---------------------------
(* Instances of MountRegistry for TLC.  Repositories under one alias: one   *)
(* can be added only after the other was removed.                           *)
EXTENDS MountRegistryClaims

CONSTANTS r1, r2, a1, a2

SameAlias == [r \in Repo |-> CHOOSE x \in Alias : TRUE]
=============================================================================
