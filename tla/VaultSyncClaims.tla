--------------------------- MODULE VaultSyncClaims ---------------------------
(***************************************************************************)
(* Statements the repository's documents make about a vault which VaultSync *)
(* does not satisfy once a request is cancelled or the process dies.       *)
(***************************************************************************)
EXTENDS VaultSync

(* "exactly one commit containing only the files that call touched": a     *)
(* write's commit differs from its parent only at the call's own paths.    *)
OnlyOwnFiles ==
  [][call.kind = "mutate" /\ call.pc = "commit" /\ head' # head =>
       \A p \in Path \ DOMAIN call.delta : commits'[head'].tree[p] = TreeOf(head)[p]]_vars

(* "Git's conflict state (work tree with markers, index stages) is         *)
(* preserved": only a resolution changes the work tree of a frozen merge.  *)
FrozenTreeKept ==
  [][mergeHead # NoCommit /\ work' # work => call.kind = "resolve"]_vars

(* Partial resolutions are "remembered until the set is complete": between *)
(* calls, a frozen merge has a path left to resolve, so that the client    *)
(* can make the call that completes it.                                    *)
FrozenMergeResolvable ==
  up /\ call = Idle /\ mergeHead # NoCommit => unmerged # {}

=============================================================================
