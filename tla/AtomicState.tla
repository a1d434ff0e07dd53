----------------------------- MODULE AtomicState -----------------------------
(***************************************************************************)
(* What the store promises to the rest of the server: one document, which  *)
(* changes by whole updates, one at a time, each kept before anybody sees  *)
(* it.  A process that dies finds what was kept.  When the machine loses   *)
(* power an update may be lost that the file system had not settled, never *)
(* part of one and never one without those after it.                       *)
(***************************************************************************)
CONSTANTS
  Empty,        \* the document of a server that never ran
  Changes(_)    \* the documents an update may make of one

VARIABLES
  up,       \* is there a process that has read the document?
  seen,     \* the document its readers see
  kept,     \* the document the next process will find
  settled   \* the document it will find after a loss of power

vars == <<up, seen, kept, settled>>

Init ==
  /\ ~up
  /\ seen = Empty /\ kept = Empty /\ settled = Empty

Start ==
  /\ ~up /\ up'
  /\ seen' = kept
  /\ UNCHANGED <<kept, settled>>

\* One update at a time, made from what readers see.
Keep ==
  /\ up /\ seen = kept
  /\ kept' \in Changes(seen)
  /\ UNCHANGED <<up, seen, settled>>

Answer ==
  /\ up
  /\ seen' = kept
  /\ UNCHANGED <<up, kept, settled>>

Settle ==
  /\ settled' = kept
  /\ UNCHANGED <<up, seen, kept>>

Die ==
  /\ up /\ ~up'
  /\ UNCHANGED <<seen, kept, settled>>

LosePower ==
  /\ ~up'
  /\ kept' = settled
  /\ UNCHANGED <<seen, settled>>

Next == Start \/ Keep \/ Answer \/ Settle \/ Die \/ LosePower

Spec == Init /\ [][Next]_vars
=============================================================================
