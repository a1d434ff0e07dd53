---------------------------- MODULE SharedHistory ----------------------------
(***************************************************************************)
(* What one clone and the remote it shares with other clones promise about *)
(* their history, with everything else left out: each side is the set of   *)
(* commits it contains.  Both sets only grow.  The clone grows by commits  *)
(* of its own and by what it takes over from the remote; the remote grows  *)
(* by what others contribute and, when the clone already contains all of   *)
(* it, by everything the clone contains.  A merge that stops half way      *)
(* freezes the clone: until it is settled nothing is recorded, taken over  *)
(* or published.  What was promised to a client stays in the clone.        *)
(***************************************************************************)
VARIABLES
  local,      \* commits in the history of the clone
  upstream,   \* commits in the history of the remote
  frozen,     \* has a merge stopped on conflicts?
  promised    \* commits whose hash a client holds

vars == <<local, upstream, frozen, promised>>

Init ==
  /\ \E c \in local : local = {c} /\ upstream = {c}
  /\ frozen = FALSE
  /\ promised = {}

\* Commits that neither side contains yet.
Fresh(side) == side \ (local \cup upstream)

Record ==
  /\ ~frozen
  /\ \E c \in Fresh(local') : local' = local \cup {c}
  /\ UNCHANGED <<upstream, frozen, promised>>

\* Take over some of the remote's commits, joined by at most one merge commit.
TakeOver ==
  /\ local \subseteq local'
  /\ \A c, d \in Fresh(local') : c = d

Pull ==
  /\ ~frozen
  /\ TakeOver
  /\ UNCHANGED <<upstream, frozen, promised>>

Freeze ==
  /\ ~frozen
  /\ frozen' = TRUE
  /\ UNCHANGED <<local, upstream, promised>>

Settle ==
  /\ frozen
  /\ frozen' = FALSE
  /\ TakeOver
  /\ UNCHANGED <<upstream, promised>>

Promise ==
  /\ \E c \in local : promised' = promised \cup {c}
  /\ UNCHANGED <<local, upstream, frozen>>

Publish ==
  /\ ~frozen
  /\ upstream \subseteq local
  /\ upstream' = local
  /\ UNCHANGED <<local, frozen, promised>>

Contribute ==
  /\ \E c \in Fresh(upstream') : upstream' = upstream \cup {c}
  /\ UNCHANGED <<local, frozen, promised>>

Next == Record \/ Pull \/ Freeze \/ Settle \/ Promise \/ Publish \/ Contribute

Spec == Init /\ [][Next]_vars
=============================================================================
