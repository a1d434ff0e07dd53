-------------------------- MODULE ScopedReadsClaims --------------------------
(* What a document of the repository says of searches and the code does not *)
(* do.                                                                      *)
EXTENDS ScopedReadsMC

\* "Limits, offsets and sorting SHALL apply to the combined result"
\* (openspec/specs/repositories/spec.md:188): two consecutive pages of one
\* search share no note.  Each index breaks ties in its own order and is cut
\* at offset + limit before the ties are sorted by path (ops.go:138-163), so
\* the second page may repeat the first and leave another note out.
SearchPagesDisjoint ==
  \A limit \in 1..Cardinality(File) :
    Range(Search(0, limit)) \cap Range(Search(limit, limit)) = {}
=============================================================================
