----------------------------- MODULE VaultSyncMC -----------------------------
(* Instances of VaultSync for TLC: a few paths and file contents, which are *)
(* interchangeable, as are the paths.                                       *)
EXTENDS VaultSyncClaims, TLC

CONSTANTS p1, p2, a, b, m

Interchangeable == Permutations({p1, p2}) \cup Permutations({a, b})

\* What the remote may hold at first: any files, or a single one.  One file
\* and one gap admit every kind of change: edit, deletion, addition, rename.
AnyFiles == [Path -> Content \cup {Absent}]
OneFile  == {t \in AnyFiles : Cardinality({p \in Path : t[p] # Absent}) = 1}

\* With a single path.
InterchangeableContent == Permutations({a, b})
=============================================================================
