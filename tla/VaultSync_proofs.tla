--------------------------- MODULE VaultSync_proofs ---------------------------
(***************************************************************************)
(* Proofs about VaultSync: its types, the ancestry of its commits, that no *)
(* history is lost, and that it implements SharedHistory; then that a      *)
(* frozen merge is never reported as ok, that a merge brings no conflict   *)
(* markers in, and that the catalog and the index are those of HEAD.       *)
(***************************************************************************)
EXTENDS VaultSync, SequenceTheorems, TLAPS

-----------------------------------------------------------------------------
(* Types of the values the actions build.                                   *)

\* A tree overlaid with files is a tree.
LEMMA OverlayType ==
  ASSUME NEW f \in Tree, NEW g, \A p \in DOMAIN g \cap Path : g[p] \in File
  PROVE  Overlay(f, g) \in Tree
BY DEF Overlay, Tree

\* A tree is a change of every path, a function on fewer paths of those.
LEMMA DeltaType ==
  ASSUME NEW paths \in SUBSET Path, NEW d \in [paths -> File]
  PROVE  d \in Delta
BY DEF Delta

LEMMA DeltaDomain ==
  ASSUME NEW d \in Delta
  PROVE  /\ DOMAIN d \in SUBSET Path
         /\ d \in [DOMAIN d -> File]
BY DEF Delta

LEMMA NoChangeType == NoChange \in Delta
<1>1. NoChange \in [{} -> File]
  BY DEF NoChange
<1>2. {} \in SUBSET Path
  OBVIOUS
<1> QED
  BY <1>1, <1>2 DEF Delta

LEMMA IdleType == Idle \in Call
BY NoChangeType DEF Idle, Call, NoCommit

\* What a write tool asks for is a change of some paths.
LEMMA RequestType ==
  ASSUME GitTypeOK, NEW d \in Requests
  PROVE  d \in Delta
<1>1. CASE \E p \in Path, c \in Content : d = Put(p, c)
  <2>1. PICK p \in Path, c \in Content : d = Put(p, c)
    BY <1>1
  <2>2. Put(p, c) \in [{p} -> File] /\ {p} \in SUBSET Path
    BY DEF Put, File
  <2> QED
    BY <2>1, <2>2, DeltaType
<1>2. CASE \E p \in Present : d = Put(p, Absent)
  <2>1. PICK p \in Present : d = Put(p, Absent)
    BY <1>2
  <2>2. Put(p, Absent) \in [{p} -> File] /\ {p} \in SUBSET Path
    BY DEF Put, File, Present
  <2> QED
    BY <2>1, <2>2, DeltaType
<1>3. CASE \E from \in Present, to \in Path \ Present : d = Move(from, to)
  <2>1. PICK from \in Present, to \in Path \ Present : d = Move(from, to)
    BY <1>3
  <2>2. Move(from, to) \in [{from, to} -> File] /\ {from, to} \in SUBSET Path
    BY DEF Move, File, Present, GitTypeOK, Tree
  <2> QED
    BY <2>1, <2>2, DeltaType
<1> QED
  BY <1>1, <1>2, <1>3 DEF Requests

LEMMA CommitType ==
  ASSUME commits \in Seq(Commit), NEW c \in DOMAIN commits
  PROVE  TreeOf(c) \in Tree /\ Anc(c) \in SUBSET Nat
<1>1. commits[c] \in Commit
  OBVIOUS
<1> QED
  BY <1>1 DEF TreeOf, Anc, Commit

\* Adding a commit to a well-typed history leaves the older ones alone.
LEMMA CommitsGrow ==
  ASSUME commits \in Seq(Commit),
         NEW A \in SUBSET Nat, NEW t \in Tree, NEW m \in Maker,
         AddCommit(A, t, m)
  PROVE  /\ commits' \in Seq(Commit)
         /\ New \in Nat \ {NoCommit}
         /\ New \notin DOMAIN commits
         /\ DOMAIN commits' = DOMAIN commits \cup {New}
         /\ \A c \in DOMAIN commits : commits'[c] = commits[c]
         /\ commits'[New] = [anc |-> A \cup {New}, tree |-> t, by |-> m]
<1> DEFINE r == [anc |-> A \cup {New}, tree |-> t, by |-> m]
<1>1. New \in Nat \ {NoCommit}
  BY DEF New, NoCommit
<1>2. r \in Commit
  BY <1>1 DEF Commit
<1>3. commits' = Append(commits, r)
  BY DEF AddCommit
<1> HIDE DEF r
<1>4. /\ Append(commits, r) \in Seq(Commit)
      /\ Len(Append(commits, r)) = Len(commits) + 1
      /\ \A i \in 1..Len(commits) : Append(commits, r)[i] = commits[i]
      /\ Append(commits, r)[Len(commits) + 1] = r
  BY <1>2, AppendProperties
<1>5. DOMAIN commits = 1..Len(commits) /\ DOMAIN commits' = 1..(Len(commits) + 1)
  BY <1>3, <1>4
<1> QED
  BY <1>1, <1>3, <1>4, <1>5 DEF New, r

\* What a call returns from is a call, or the idle one.
LEMMA BeginType ==
  ASSUME NEW kind \in {"none", "mutate", "sync", "resync", "push", "pull", "resolve"},
         NEW pc \in {"fetch", "write", "push", "repush"},
         NEW live \in BOOLEAN,
         Begin(kind, pc, live)
  PROVE  call' \in Call /\ call'.old = NoCommit
BY NoChangeType DEF Begin, Call, NoCommit

LEMMA PullReturnsType ==
  ASSUME ServiceTypeOK, call.pc \in {"fetch", "merge", "index"},
         NEW outcome \in {"ok", "conflict", "error"}, NEW live \in BOOLEAN,
         PullReturns(outcome, live)
  PROVE  /\ call' \in Call /\ call'.old = NoCommit
         /\ pushRequested' \in BOOLEAN /\ retrying' \in BOOLEAN
         /\ pusher' = pusher
<1> DEFINE next == CASE call.kind = "mutate" /\ outcome # "conflict" -> "write"
                     [] call.kind = "sync"   /\ outcome = "ok"       -> "push"
                     [] call.kind \in {"push", "resync"} /\ outcome = "ok" -> "repush"
                     [] OTHER                                        -> "idle"
<1>1. /\ IF next = "idle" THEN call' = Idle ELSE Begin(call.kind, next, live)
      /\ pushRequested' = (pushRequested \/ call.kind = "pull")
      /\ retrying' = (retrying \/ (call.kind = "push" /\ outcome = "error"))
      /\ UNCHANGED pusher
  BY DEF PullReturns
<1>2. pushRequested' \in BOOLEAN /\ retrying' \in BOOLEAN
  BY <1>1, Zenon
<1>3. call.kind \in {"none", "mutate", "sync", "resync", "push", "pull", "resolve"}
  BY DEF ServiceTypeOK, Call
<1>4. next # "idle" => /\ next \in {"write", "push", "repush"}
                       /\ call.kind \in {"mutate", "sync", "resync", "push"}
  OBVIOUS
<1> HIDE DEF next
<1>5. CASE next = "idle"
  <2>1. call' = Idle
    BY <1>1, <1>5
  <2>2. call' \in Call /\ call'.old = NoCommit
    BY <2>1, IdleType DEF Idle
  <2> QED
    BY <1>1, <1>2, <2>2
<1>6. CASE next # "idle"
  <2>1. Begin(call.kind, next, live)
    BY <1>1, <1>6
  <2>2. call' \in Call /\ call'.old = NoCommit
    BY <1>4, <1>6, <2>1, BeginType
  <2> QED
    BY <1>1, <1>2, <2>2
<1> QED
  BY <1>5, <1>6

-----------------------------------------------------------------------------
(* Type correctness.                                                        *)

LEMMA TypeInit == Init => TypeOK
<1> SUFFICES ASSUME Init PROVE TypeOK
  OBVIOUS
<1> USE DEF Init
<1>1. PICK t \in FirstTrees :
        /\ commits = <<[anc |-> {1}, tree |-> t, by |-> "clone"]>>
        /\ staged = t /\ work = t /\ cat = t /\ idx = t
  OBVIOUS
<1>2. t \in Tree
  BY BoundAssumption DEF Tree, File
<1>3. [anc |-> {1}, tree |-> t, by |-> "clone"] \in Commit
  BY <1>2 DEF Commit, Maker
<1>4. commits \in Seq(Commit) /\ DOMAIN commits = {1}
  BY <1>1, <1>3
<1>5. call \in Call /\ call.old = NoCommit
  BY IdleType DEF Idle
<1>6. GitTypeOK
  BY <1>1, <1>2, <1>4 DEF GitTypeOK
<1>7. DerivedTypeOK
  BY <1>1, <1>2, <1>4 DEF DerivedTypeOK
<1>8. ServiceTypeOK
  <2>1. cancels \in 0..MaxCancels /\ crashes \in 0..MaxCrashes
    BY BoundAssumption
  <2>2. /\ up \in BOOLEAN /\ fresh \in BOOLEAN /\ pushRequested \in BOOLEAN /\ retrying \in BOOLEAN
        /\ state \in {"ok", "offline", "conflict"}
        /\ pusher \in {"waiting", "due"}
    OBVIOUS
  <2> QED
    BY <1>5, <2>1, <2>2 DEF ServiceTypeOK
<1>9. ReferencesOK
  BY <1>5 DEF ReferencesOK
<1>10. CallShape
  BY DEF CallShape, Steps, Idle
<1> QED
  BY <1>6, <1>7, <1>8, <1>9, <1>10 DEF TypeOK

\* Only these actions change anything in Git, on this host or the remote one.
LEMMA GitActions ==
  ASSUME [Next]_vars
  PROVE  \/ UNCHANGED gitVars
         \/ FetchOk \/ MergeFastForward \/ MergeClean \/ MergeConflicts
         \/ MutateWrites \/ MutateStages \/ MutateCommits
         \/ PushOk \/ PushFails
         \/ ResolveWrites \/ ResolveStages \/ ResolveCommits
         \/ OtherClonePushes
BY DEF Next, CallStep, PullStep, MutateStep, PushStep, ResolveStep, vars,
       FetchFails, MergeNothing, MergeFails, PullIndexes, PullIndexFails,
       MutateBegins, MutateRejects, MutateStageFails, MutateCommitFails, MutateReturns,
       PushLoopWakes, PushBegins, PushNotNeeded, PushRejected, RetryFires, PullTicks, SyncBegins,
       ResolveBegins, ResolveFails, ResolveRemains, ResolveCommitFails, ResolveReturns,
       Opens, OpenFails, Reindexes, Crashes, Cancels

\* The clone, the remote and the history keep their types; no commit is lost.
LEMMA GitTypeStep ==
  TypeOK /\ [Next]_vars => GitTypeOK' /\ DOMAIN commits \subseteq DOMAIN commits'
<1> SUFFICES ASSUME TypeOK, [Next]_vars
             PROVE  GitTypeOK' /\ DOMAIN commits \subseteq DOMAIN commits'
  OBVIOUS
<1> USE DEF TypeOK
<1>tree. ASSUME NEW c \in DOMAIN commits PROVE TreeOf(c) \in Tree /\ Anc(c) \in SUBSET Nat
  BY CommitType DEF GitTypeOK
<1>delta. /\ DOMAIN call.delta \in SUBSET Path
          /\ call.delta \in [DOMAIN call.delta -> File]
  <2>1. call.delta \in Delta
    BY DEF ServiceTypeOK, Call
  <2> QED
    BY <2>1, DeltaDomain
<1>sides. \A p \in Path : Ours(p) \in File /\ Theirs(p) \in File /\ OneSide(p) \in File
  BY <1>tree DEF OneSide, Ours, Theirs, Tree, GitTypeOK
<1>0. CASE UNCHANGED gitVars
  BY <1>0 DEF GitTypeOK, gitVars
<1>1. CASE FetchOk
  BY <1>1 DEF FetchOk, GitTypeOK
<1>2. CASE MergeFastForward
  <2> DEFINE moved == [p \in {q \in Changed(head, tracking) : staged[q] # Theirs(q)} |-> Theirs(p)]
  <2>1. \A p \in DOMAIN moved \cap Path : moved[p] \in File
    BY <1>sides
  <2>2. staged' = Overlay(staged, moved) /\ work' = Overlay(work, moved)
    BY <1>2 DEF MergeFastForward
  <2> HIDE DEF moved
  <2>3. staged' \in Tree /\ work' \in Tree
    BY <2>1, <2>2, OverlayType DEF GitTypeOK
  <2> QED
    BY <1>2, <2>3 DEF MergeFastForward, GitTypeOK
<1>lines. ASSUME NEW stuck \in SUBSET BothChanged,
                 NEW lines \in LineMerges(BothChanged \ stuck),
                 NEW p \in Path \ stuck
          PROVE  MergedFile(p, lines) \in File
  BY <1>sides DEF MergedFile, File, LineMerges
<1>3. CASE MergeClean
  <2>1. PICK lines \in LineMerges(BothChanged) :
          LET merged == [p \in Path |-> MergedFile(p, lines)]
              moved  == [p \in {q \in Path : merged[q] # Ours(q)} |-> merged[p]]
          IN /\ AddCommit(Anc(head) \cup Anc(tracking), merged, "merge")
             /\ staged' = merged
             /\ work' = Overlay(work, moved)
    BY <1>3 DEF MergeClean
  <2> DEFINE merged == [p \in Path |-> MergedFile(p, lines)]
             moved  == [p \in {q \in Path : merged[q] # Ours(q)} |-> merged[p]]
  <2>2. \A p \in Path : MergedFile(p, lines) \in File
    BY <1>sides DEF MergedFile, File, LineMerges
  <2>3. merged \in Tree
    BY <2>2 DEF Tree
  <2>4. \A p \in DOMAIN moved \cap Path : moved[p] \in File
    BY <2>3 DEF Tree
  <2>5. /\ AddCommit(Anc(head) \cup Anc(tracking), merged, "merge")
        /\ staged' = merged
        /\ work' = Overlay(work, moved)
    BY <2>1
  <2> HIDE DEF merged, moved
  <2>6. staged' \in Tree /\ work' \in Tree
    BY <2>3, <2>4, <2>5, OverlayType DEF GitTypeOK
  <2>7. Anc(head) \cup Anc(tracking) \in SUBSET Nat
    BY <1>tree DEF GitTypeOK
  <2>8. commits' \in Seq(Commit) /\ DOMAIN commits' = DOMAIN commits \cup {New}
    BY <2>3, <2>5, <2>7, CommitsGrow DEF GitTypeOK, Maker
  <2> QED
    BY <1>3, <2>6, <2>8 DEF MergeClean, GitTypeOK
<1>4. CASE MergeConflicts
  <2>1. PICK stuck \in (SUBSET BothChanged) \ {{}} :
          \E lines \in LineMerges(BothChanged \ stuck) :
            /\ LET moved == [p \in {q \in Path : q \in stuck \/ ConflictedFile(q, stuck, lines) # Ours(q)}
                               |-> ConflictedFile(p, stuck, lines)]
               IN work' = Overlay(work, moved)
            /\ staged' = [p \in Path |-> IF p \in stuck THEN Ours(p) ELSE MergedFile(p, lines)]
            /\ unmerged' = stuck
    BY <1>4 DEF MergeConflicts
  <2>2. PICK lines \in LineMerges(BothChanged \ stuck) :
            /\ LET moved == [p \in {q \in Path : q \in stuck \/ ConflictedFile(q, stuck, lines) # Ours(q)}
                               |-> ConflictedFile(p, stuck, lines)]
               IN work' = Overlay(work, moved)
            /\ staged' = [p \in Path |-> IF p \in stuck THEN Ours(p) ELSE MergedFile(p, lines)]
            /\ unmerged' = stuck
    BY <2>1
  <2>3. \A p \in Path : ConflictedFile(p, stuck, lines) \in File
    BY <1>sides, <1>lines DEF ConflictedFile, File
  <2>4. staged' \in Tree
    BY <1>sides, <1>lines, <2>2 DEF Tree
  <2>5. work' \in Tree
    BY <2>2, <2>3, OverlayType DEF GitTypeOK
  <2>6. unmerged' \in SUBSET Path
    BY <2>2 DEF BothChanged
  <2> QED
    BY <1>4, <2>4, <2>5, <2>6 DEF MergeConflicts, GitTypeOK
<1>5. CASE MutateWrites
  <2>1. PICK d \in Requests : work' = Overlay(work, d)
    BY <1>5 DEF MutateWrites
  <2>2. \A p \in DOMAIN d \cap Path : d[p] \in File
    BY RequestType, DeltaDomain
  <2>3. work' \in Tree
    BY <2>1, <2>2, OverlayType DEF GitTypeOK
  <2> QED
    BY <1>5, <2>3 DEF MutateWrites, GitTypeOK
<1>6. CASE MutateStages
  <2>1. staged' \in Tree
    BY <1>6 DEF MutateStages, GitTypeOK, Tree
  <2> QED
    BY <1>6, <2>1 DEF MutateStages, GitTypeOK
<1>7. ASSUME NEW m \in Maker, GitCommit(m)
      PROVE  GitTypeOK' /\ DOMAIN commits \subseteq DOMAIN commits'
  <2> DEFINE A == Anc(head) \cup (IF mergeHead = NoCommit THEN {} ELSE Anc(mergeHead))
  <2>1. A \in SUBSET Nat
    BY <1>tree DEF GitTypeOK
  <2>2. AddCommit(A, staged, m)
    BY <1>7 DEF GitCommit
  <2> HIDE DEF A
  <2>3. commits' \in Seq(Commit) /\ DOMAIN commits' = DOMAIN commits \cup {New}
    BY <2>1, <2>2, CommitsGrow DEF GitTypeOK
  <2> QED
    BY <1>7, <2>3 DEF GitCommit, GitTypeOK
<1>8. CASE MutateCommits
  BY <1>7, <1>8 DEF MutateCommits, Maker
<1>9. CASE ResolveCommits
  BY <1>7, <1>9 DEF ResolveCommits, Maker
<1>10. CASE PushOk
  BY <1>10 DEF PushOk, GitTypeOK
<1>11. CASE PushFails
  BY <1>11 DEF PushFails, GitTypeOK
<1>12. CASE ResolveWrites
  <2>1. PICK p \in DOMAIN call.delta : work' = [work EXCEPT ![p] = call.delta[p]]
    BY <1>12 DEF ResolveWrites
  <2>2. call.delta[p] \in File
    BY <1>delta
  <2>3. work' \in Tree
    BY <2>1, <2>2 DEF GitTypeOK, Tree
  <2> QED
    BY <1>12, <2>3 DEF ResolveWrites, GitTypeOK
<1>13. CASE ResolveStages
  <2>1. PICK p \in DOMAIN call.delta :
          /\ staged' = [staged EXCEPT ![p] = work[p]]
          /\ unmerged' = unmerged \ {p}
    BY <1>13 DEF ResolveStages
  <2>2. p \in Path
    BY <1>delta
  <2>3. staged' \in Tree
    BY <2>1, <2>2 DEF GitTypeOK, Tree
  <2> QED
    BY <1>13, <2>1, <2>3 DEF ResolveStages, GitTypeOK
<1>14. CASE OtherClonePushes
  <2>1. PICK t \in [Path -> Content \cup {Absent}] : AddCommit(Anc(remote), t, "edit")
    BY <1>14 DEF OtherClonePushes
  <2>2. t \in Tree
    BY DEF Tree, File
  <2>3. Anc(remote) \in SUBSET Nat
    BY <1>tree DEF GitTypeOK
  <2>4. commits' \in Seq(Commit) /\ DOMAIN commits' = DOMAIN commits \cup {New}
    BY <2>1, <2>2, <2>3, CommitsGrow DEF GitTypeOK, Maker
  <2> QED
    BY <1>14, <2>4 DEF OtherClonePushes, GitTypeOK
<1> QED
  BY <1>0, <1>1, <1>2, <1>3, <1>4, <1>5, <1>6, <1>8, <1>9, <1>10, <1>11, <1>12, <1>13, <1>14,
     GitActions

\* The catalog and the index keep their types; only these actions change them.
LEMMA DerivedActions ==
  ASSUME [Next]_vars
  PROVE  \/ UNCHANGED derivedVars
         \/ PullIndexes \/ MutateReturns \/ ResolveReturns \/ Opens \/ OpenFails \/ Reindexes \/ Crashes
BY DEF Next, CallStep, PullStep, MutateStep, PushStep, ResolveStep, vars,
       FetchOk, FetchFails, MergeNothing, MergeFastForward, MergeClean, MergeConflicts,
       MergeFails, PullIndexFails,
       MutateBegins, MutateWrites, MutateRejects, MutateStages, MutateStageFails,
       MutateCommits, MutateCommitFails,
       PushLoopWakes, PushBegins, PushNotNeeded, PushOk, PushRejected, PushFails,
       RetryFires, PullTicks, SyncBegins,
       ResolveBegins, ResolveWrites, ResolveStages, ResolveFails, ResolveRemains,
       ResolveCommits, ResolveCommitFails,
       Cancels, OtherClonePushes

LEMMA RefreshType ==
  ASSUME GitTypeOK, DerivedTypeOK, NEW paths, RefreshPaths(paths)
  PROVE  /\ cat' \in Tree /\ idx' \in Tree
         /\ stamp' \in DOMAIN commits \cup {NoCommit}
         /\ unsettled' \in SUBSET Path
<1> DEFINE read == [p \in paths |-> work[p]]
<1>1. /\ cat' = Overlay(cat, read) /\ idx' = Overlay(idx, read)
      /\ stamp' = IF call.live THEN head ELSE NoCommit
      /\ unsettled' = (unsettled \ paths) \cup (Uncommitted \cap paths)
  BY DEF RefreshPaths
<1>2. \A p \in DOMAIN read \cap Path : read[p] \in File
  BY DEF GitTypeOK, Tree
<1> HIDE DEF read
<1>3. cat' \in Tree /\ idx' \in Tree
  BY <1>1, <1>2, OverlayType DEF DerivedTypeOK
<1> QED
  BY <1>1, <1>3 DEF GitTypeOK, DerivedTypeOK, Uncommitted

LEMMA DerivedTypeStep == TypeOK /\ [Next]_vars => DerivedTypeOK'
<1> SUFFICES ASSUME TypeOK, [Next]_vars PROVE DerivedTypeOK'
  OBVIOUS
<1>0. DOMAIN commits \subseteq DOMAIN commits'
  BY GitTypeStep
<1> USE DEF TypeOK
<1>1. CASE UNCHANGED derivedVars
  BY <1>0, <1>1 DEF DerivedTypeOK, derivedVars
<1>2. ASSUME NEW paths, RefreshPaths(paths) PROVE DerivedTypeOK'
  BY <1>0, <1>2, RefreshType DEF DerivedTypeOK
<1>3. CASE PullIndexes
  BY <1>1, <1>2, <1>3 DEF PullIndexes
<1>4. CASE MutateReturns
  BY <1>2, <1>4 DEF MutateReturns
<1>5. CASE ResolveReturns
  BY <1>2, <1>5 DEF ResolveReturns
<1>6. CASE Opens
  <2>1. \A p \in DOMAIN CaughtUp \cap Path : CaughtUp[p] \in File
    BY DEF CaughtUp, Present, GitTypeOK, Tree
  <2>2. idx' \in Tree
    BY <1>6, <2>1, OverlayType DEF Opens, DerivedTypeOK
  <2> QED
    BY <1>0, <1>6, <2>2 DEF Opens, DerivedTypeOK, GitTypeOK, Uncommitted
<1>7. CASE Reindexes
  BY <1>0, <1>7 DEF Reindexes, DerivedTypeOK, GitTypeOK, Uncommitted
<1>8. ASSUME NEW paths, WritesSome(paths) PROVE idx' \in Tree /\ unsettled' \in SUBSET Path
  <2>1. PICK done \in SUBSET paths :
          /\ idx' = Overlay(idx, [p \in done |-> work[p]])
          /\ unsettled' = unsettled \cup (Uncommitted \cap done)
    BY <1>8 DEF WritesSome
  <2>2. \A p \in done \cap Path : work[p] \in File
    BY DEF GitTypeOK, Tree
  <2>3. idx' \in Tree
    BY <2>1, <2>2, OverlayType DEF DerivedTypeOK
  <2> QED
    BY <2>1, <2>3 DEF DerivedTypeOK, Uncommitted
<1>9. CASE OpenFails
  BY <1>0, <1>8, <1>9 DEF OpenFails, DerivedTypeOK
<1>10. CASE Crashes
  BY <1>0, <1>8, <1>10 DEF Crashes, DerivedTypeOK
<1> QED
  BY <1>1, <1>3, <1>4, <1>5, <1>6, <1>7, <1>9, <1>10, DerivedActions

\* The call in progress is well typed, and so is what it remembers.
CallOK == call \in Call /\ call.old \in DOMAIN commits \cup {NoCommit}

LEMMA CallStepType == TypeOK /\ [Next]_vars => CallOK'
<1> SUFFICES ASSUME TypeOK, [Next]_vars PROVE CallOK'
  OBVIOUS
<1>0. DOMAIN commits \subseteq DOMAIN commits'
  BY GitTypeStep
<1> USE DEF TypeOK
<1>type. call \in Call /\ call.old \in DOMAIN commits \cup {NoCommit}
  BY DEF ServiceTypeOK, ReferencesOK
<1>head. DOMAIN commits \subseteq Nat /\ head \in DOMAIN commits
  BY DEF GitTypeOK
<1>1. CASE UNCHANGED call
  BY <1>0, <1>1, <1>type DEF CallOK
<1>2. CASE call' = Idle
  BY <1>2, IdleType DEF CallOK, Idle
<1>3. ASSUME NEW kind \in {"none", "mutate", "sync", "resync", "push", "pull", "resolve"},
             NEW pc \in {"fetch", "write", "push", "repush"},
             NEW live \in BOOLEAN,
             Begin(kind, pc, live)
      PROVE  CallOK'
  BY <1>3, BeginType DEF CallOK
<1>4. ASSUME call.pc \in {"fetch", "merge", "index"},
             NEW outcome \in {"ok", "conflict", "error"}, NEW live \in BOOLEAN,
             PullReturns(outcome, live)
      PROVE  CallOK'
  BY <1>4, PullReturnsType DEF CallOK
<1>5. ASSUME NEW pc \in {"index", "commit", "refresh"}, call' = [call EXCEPT !.pc = pc]
      PROVE  CallOK'
  BY <1>0, <1>5, <1>type DEF CallOK, Call
<1>6. ASSUME NEW pc \in {"merge", "index"}, call' = [call EXCEPT !.pc = pc, !.old = head]
      PROVE  CallOK'
  BY <1>0, <1>6, <1>type, <1>head DEF CallOK, Call
<1>7. ASSUME call.pc = "merge", NEW conflicted \in BOOLEAN, MergeReturns(conflicted) PROVE CallOK'
  BY <1>4, <1>5, <1>7, <1>type DEF MergeReturns, Call
<1>8. CASE FetchOk
  BY <1>6, <1>8 DEF FetchOk
<1>9. CASE FetchFails
  BY <1>4, <1>9, <1>type DEF FetchFails, Call
<1>10. CASE MergeNothing
  BY <1>5, <1>10 DEF MergeNothing
<1>11. CASE MergeFastForward
  BY <1>7, <1>11 DEF MergeFastForward
<1>12. CASE MergeClean
  BY <1>7, <1>12 DEF MergeClean
<1>13. CASE MergeConflicts
  BY <1>7, <1>13 DEF MergeConflicts
<1>14. CASE MergeFails
  BY <1>4, <1>14, <1>type DEF MergeFails, Call
<1>15. CASE PullIndexes
  BY <1>4, <1>15, <1>type DEF PullIndexes, Call
<1>16. CASE PullIndexFails
  BY <1>4, <1>16 DEF PullIndexFails
<1>17. CASE MutateBegins
  BY <1>3, <1>17 DEF MutateBegins
<1>18. CASE MutateWrites
  <2>1. PICK d \in Requests : call' = [call EXCEPT !.pc = "stage", !.delta = d]
    BY <1>18 DEF MutateWrites
  <2>2. d \in Delta
    BY RequestType
  <2> QED
    BY <1>0, <2>1, <2>2, <1>type DEF CallOK, Call
<1>19. CASE MutateStages
  BY <1>5, <1>19 DEF MutateStages
<1>20. CASE MutateCommits
  BY <1>2, <1>5, <1>20 DEF MutateCommits
<1>21. CASE PushBegins
  BY <1>1, <1>3, <1>21 DEF PushBegins
<1>22. CASE PushRejected
  <2>1. Begin(IF call.kind = "sync" THEN "resync" ELSE call.kind, "fetch", TRUE)
    BY <1>22 DEF PushRejected
  <2> QED
    BY <1>3, <2>1, <1>type DEF Call
<1>23. CASE PullTicks
  BY <1>1, <1>3, <1>23 DEF PullTicks
<1>24. CASE SyncBegins
  BY <1>3, <1>24 DEF SyncBegins
<1>25. CASE ResolveBegins
  <2>1. PICK paths \in SUBSET unmerged :
          \E d \in [paths -> UNION {Resolutions(p) : p \in paths}] :
            /\ \A p \in paths : d[p] \in Resolutions(p)
            /\ call' = [Idle EXCEPT !.kind = "resolve", !.pc = "resolve", !.delta = d]
    BY <1>25 DEF ResolveBegins
  <2>2. PICK d \in [paths -> UNION {Resolutions(p) : p \in paths}] :
            /\ \A p \in paths : d[p] \in Resolutions(p)
            /\ call' = [Idle EXCEPT !.kind = "resolve", !.pc = "resolve", !.delta = d]
    BY <2>1
  <2>3. mergeHead \in DOMAIN commits
    BY <1>25 DEF ResolveBegins, GitTypeOK
  <2>4. \A p \in Path : Resolutions(p) \subseteq File
    BY <2>3, CommitType DEF Resolutions, File, Tree, GitTypeOK
  <2>5. paths \in SUBSET Path /\ d \in [paths -> File]
    BY <2>2, <2>4 DEF GitTypeOK
  <2>6. d \in Delta
    BY <2>5, DeltaType
  <2> QED
    BY <2>2, <2>6, IdleType DEF CallOK, Call, Idle
<1>26. CASE ResolveStages
  <2>1. PICK p \in DOMAIN call.delta : call' = [call EXCEPT !.pc = "resolve", !.delta = Without(@, p)]
    BY <1>26 DEF ResolveStages
  <2>2. DOMAIN call.delta \in SUBSET Path /\ call.delta \in [DOMAIN call.delta -> File]
    BY <1>type, DeltaDomain DEF Call
  <2>3. /\ DOMAIN call.delta \ {p} \in SUBSET Path
        /\ Without(call.delta, p) \in [DOMAIN call.delta \ {p} -> File]
    BY <2>2 DEF Without
  <2>4. Without(call.delta, p) \in Delta
    BY <2>3, DeltaType
  <2> QED
    BY <1>0, <2>1, <2>4, <1>type DEF CallOK, Call
<1>29. CASE ResolveWrites
  BY <1>0, <1>29, <1>type DEF ResolveWrites, CallOK, Call
<1>27. CASE ResolveCommits
  BY <1>2, <1>6, <1>27 DEF ResolveCommits
<1>28. CASE Cancels
  BY <1>0, <1>28, <1>type DEF Cancels, CallOK, Call
<1> QED
  BY <1>1, <1>2, <1>8, <1>9, <1>10, <1>11, <1>12, <1>13, <1>14, <1>15, <1>16, <1>17, <1>18,
     <1>19, <1>20, <1>21, <1>22, <1>23, <1>24, <1>25, <1>26, <1>27, <1>28, <1>29
     DEF Next, CallStep, PullStep, MutateStep, PushStep, ResolveStep, vars,
         MutateRejects, MutateStageFails, MutateCommitFails, MutateReturns,
         PushLoopWakes, PushNotNeeded, PushOk, PushFails, RetryFires,
         ResolveFails, ResolveRemains, ResolveCommitFails, ResolveReturns,
         Opens, OpenFails, Reindexes, Crashes, OtherClonePushes

\* The flags of the service and of its loops, and the counters.
LEMMA FlagsStep ==
  ServiceTypeOK /\ [Next]_vars =>
    /\ up' \in BOOLEAN /\ fresh' \in BOOLEAN /\ state' \in {"ok", "offline", "conflict"}
    /\ cancels' \in 0..MaxCancels /\ crashes' \in 0..MaxCrashes
    /\ pusher' \in {"waiting", "due"}
    /\ pushRequested' \in BOOLEAN /\ retrying' \in BOOLEAN
<1> SUFFICES ASSUME ServiceTypeOK, [Next]_vars
             PROVE  /\ up' \in BOOLEAN /\ fresh' \in BOOLEAN
                    /\ state' \in {"ok", "offline", "conflict"}
                    /\ cancels' \in 0..MaxCancels /\ crashes' \in 0..MaxCrashes
                    /\ pusher' \in {"waiting", "due"}
                    /\ pushRequested' \in BOOLEAN /\ retrying' \in BOOLEAN
  OBVIOUS
<1> USE DEF ServiceTypeOK
<1> USE DEF Next, CallStep, PullStep, MutateStep, PushStep, ResolveStep, vars, gitVars,
         derivedVars, loopVars, faultVars, MergeReturns, FetchOk, FetchFails,
         MergeNothing, MergeFastForward, MergeClean, MergeConflicts, MergeFails,
         PullIndexes, PullIndexFails, MutateBegins, MutateWrites, MutateRejects,
         MutateStages, MutateStageFails, MutateCommits, MutateCommitFails,
         MutateReturns, PushLoopWakes, PushBegins, PushNotNeeded, PushOk, PushRejected,
         PushFails, RetryFires, PullTicks, SyncBegins, ResolveBegins, ResolveWrites, ResolveStages,
         ResolveFails, ResolveRemains, ResolveCommits, ResolveCommitFails,
         ResolveReturns, Opens, OpenFails, Reindexes, Crashes, Cancels, OtherClonePushes
<1>1. up' \in BOOLEAN /\ fresh' \in BOOLEAN
  OBVIOUS
<1>2. state' \in {"ok", "offline", "conflict"}
  BY DEF StateOnOpen
<1>3. crashes' = crashes \/ (crashes < MaxCrashes /\ crashes' = crashes + 1)
  OBVIOUS
<1>4. cancels' = cancels \/ (cancels < MaxCancels /\ cancels' = cancels + 1)
  BY DEF MayCancel
<1>5. pusher' \in {"waiting", "due"}
  BY DEF PullReturns
<1>6. pushRequested' \in BOOLEAN
  BY DEF PullReturns
<1>7. retrying' \in BOOLEAN
  BY DEF PullReturns
<1> HIDE DEF Next
<1>8. crashes' \in 0..MaxCrashes /\ cancels' \in 0..MaxCancels
  BY <1>3, <1>4, BoundAssumption
<1> QED
  BY <1>1, <1>2, <1>5, <1>6, <1>7, <1>8

LEMMA AckedType == TypeOK /\ [Next]_vars => acked' \subseteq DOMAIN commits'
<1> SUFFICES ASSUME TypeOK, [Next]_vars PROVE acked' \subseteq DOMAIN commits'
  OBVIOUS
<1>1. acked \subseteq DOMAIN commits /\ head \in DOMAIN commits /\ DOMAIN commits \subseteq DOMAIN commits'
  BY GitTypeStep DEF TypeOK, GitTypeOK, ReferencesOK
<1>2. acked' \subseteq acked \cup {head}
  BY DEF Next, CallStep, PullStep, MutateStep, PushStep, ResolveStep, vars, gitVars,
         derivedVars, loopVars, faultVars, MergeReturns, FetchOk, FetchFails,
         MergeNothing, MergeFastForward, MergeClean, MergeConflicts, MergeFails,
         PullIndexes, PullIndexFails, MutateBegins, MutateWrites, MutateRejects,
         MutateStages, MutateStageFails, MutateCommits, MutateCommitFails,
         MutateReturns, PushLoopWakes, PushBegins, PushNotNeeded, PushOk, PushRejected,
         PushFails, RetryFires, PullTicks, SyncBegins, ResolveBegins, ResolveWrites, ResolveStages,
         ResolveFails, ResolveRemains, ResolveCommits, ResolveCommitFails,
         ResolveReturns, Opens, OpenFails, Reindexes, Crashes, Cancels, OtherClonePushes
<1> QED
  BY <1>1, <1>2

\* Calls keep to the steps of their kind.
LEMMA ShapeStep == TypeOK /\ [Next]_vars => CallShape'
<1> SUFFICES ASSUME TypeOK, [Next]_vars PROVE CallShape'
  OBVIOUS
<1>type. call \in Call
  BY DEF TypeOK, ServiceTypeOK
<1>shape. call.pc \in Steps[call.kind] /\ (call.kind \in {"none", "push", "pull"} => call.live)
  BY DEF TypeOK, CallShape
<1>idle. ASSUME call' = Idle PROVE CallShape'
  BY <1>idle DEF Idle, CallShape, Steps
<1>begin. ASSUME NEW kind \in DOMAIN Steps, NEW pc \in Steps[kind], NEW live,
                 live \/ kind \notin {"none", "push", "pull"}, Begin(kind, pc, live)
          PROVE  CallShape'
  BY <1>begin DEF Begin, CallShape
<1>steps. ASSUME NEW pc, pc \in Steps[call.kind], call'.pc = pc, call'.kind = call.kind,
                 call'.live = call.live
          PROVE  CallShape'
  BY <1>shape, <1>steps DEF CallShape
<1>kinds. /\ call.pc \in {"write", "stage", "commit", "refresh"} => call.kind = "mutate"
          /\ call.pc \in {"resolve", "add"} => call.kind = "resolve"
          /\ call.pc \in {"fetch", "merge"} => call.kind \in {"mutate", "sync", "resync", "push", "pull"}
          /\ call.pc = "index" => call.kind \in {"mutate", "sync", "resync", "push", "pull", "resolve"}
          /\ call.pc = "push" => call.kind \in {"sync", "push"}
  BY <1>shape, <1>type DEF Steps, Pulling, Call
<1>returns. ASSUME NEW outcome, NEW live, live \/ call.kind \notin {"none", "push", "pull"},
                   PullReturns(outcome, live)
            PROVE  CallShape'
  <2>1. \/ call' = Idle
        \/ call.kind = "mutate" /\ Begin(call.kind, "write", live)
        \/ call.kind = "sync" /\ Begin(call.kind, "push", live)
        \/ call.kind \in {"push", "resync"} /\ Begin(call.kind, "repush", live)
    BY <1>returns DEF PullReturns
  <2>2. /\ "write" \in Steps["mutate"] /\ "push" \in Steps["sync"]
        /\ "repush" \in Steps["push"] /\ "repush" \in Steps["resync"]
        /\ {"mutate", "sync", "push", "resync"} \subseteq DOMAIN Steps
    BY DEF Steps
  <2> QED
    BY <1>idle, <1>begin, <1>returns, <2>1, <2>2
<1>gone. ASSUME ClientCall PROVE call.kind \notin {"none", "push", "pull"}
  BY <1>gone DEF ClientCall
<1>live. call.live \/ call.kind \notin {"none", "push", "pull"}
  BY <1>shape
<1>moves. ASSUME NEW pc, call' = [call EXCEPT !.pc = pc]
          PROVE  call'.pc = pc /\ call'.kind = call.kind /\ call'.live = call.live
  BY <1>type, <1>moves DEF Call
<1>merged. ASSUME call.pc = "merge", NEW conflicted, MergeReturns(conflicted) PROVE CallShape'
  <2>1. "index" \in Steps[call.kind]
    BY <1>kinds, <1>merged DEF Steps, Pulling
  <2> QED
    BY <1>returns, <1>gone, <1>live, <1>moves, <1>steps, <1>merged, <2>1 DEF MergeReturns, MayCancel
<1>1. CASE FetchOk
  <2>1. "merge" \in Steps[call.kind]
    BY <1>1, <1>kinds DEF FetchOk, Steps, Pulling
  <2>2. call'.pc = "merge" /\ call'.kind = call.kind /\ call'.live = call.live
    BY <1>1, <1>type DEF FetchOk, Call
  <2> QED
    BY <1>steps, <2>1, <2>2
<1>2. CASE FetchFails \/ MergeFails \/ PullIndexes
  BY <1>2, <1>returns, <1>live DEF FetchFails, MergeFails, PullIndexes
<1>3. CASE PullIndexFails
  BY <1>3, <1>returns, <1>live DEF PullIndexFails
<1>4. CASE MergeNothing
  <2>1. "index" \in Steps[call.kind]
    BY <1>4, <1>kinds DEF MergeNothing, Steps, Pulling
  <2> QED
    BY <1>4, <1>moves, <1>steps, <2>1 DEF MergeNothing
<1>5. CASE MergeFastForward \/ MergeClean \/ MergeConflicts
  BY <1>5, <1>merged DEF MergeFastForward, MergeClean, MergeConflicts
<1>6. CASE MutateBegins
  <2>1. "mutate" \in DOMAIN Steps /\ "fetch" \in Steps["mutate"] /\ "write" \in Steps["mutate"]
    BY DEF Steps, Pulling
  <2> QED
    BY <1>6, <1>begin, <2>1 DEF MutateBegins
<1>7. CASE MutateWrites
  <2>1. "stage" \in Steps[call.kind]
    BY <1>7, <1>kinds DEF MutateWrites, Steps
  <2>2. call'.pc = "stage" /\ call'.kind = call.kind /\ call'.live = call.live
    BY <1>7, <1>type DEF MutateWrites, Call
  <2> QED
    BY <1>steps, <2>1, <2>2
<1>8. CASE MutateStages
  <2>1. "commit" \in Steps[call.kind]
    BY <1>8, <1>kinds DEF MutateStages, Steps
  <2> QED
    BY <1>8, <1>moves, <1>steps, <2>1 DEF MutateStages
<1>9. CASE MutateCommits
  <2>1. "refresh" \in Steps[call.kind]
    BY <1>9, <1>kinds DEF MutateCommits, Steps
  <2> QED
    BY <1>9, <1>idle, <1>moves, <1>steps, <2>1 DEF MutateCommits
<1>10. CASE PushBegins
  <2>1. "push" \in DOMAIN Steps /\ "push" \in Steps["push"]
    BY DEF Steps
  <2> QED
    BY <1>10, <1>begin, <1>idle, <2>1 DEF PushBegins
<1>11. CASE PushRejected
  <2>1. PICK kind \in {"resync", "push"} : Begin(kind, "fetch", TRUE)
    BY <1>11, <1>kinds DEF PushRejected
  <2>2. kind \in DOMAIN Steps /\ "fetch" \in Steps[kind]
    BY DEF Steps, Pulling
  <2> QED
    BY <1>begin, <2>1, <2>2
<1>12. CASE PullTicks
  <2>1. "pull" \in DOMAIN Steps /\ "fetch" \in Steps["pull"]
    BY DEF Steps, Pulling
  <2> QED
    BY <1>12, <1>begin, <1>idle, <2>1 DEF PullTicks
<1>13. CASE SyncBegins
  <2>1. "sync" \in DOMAIN Steps /\ "fetch" \in Steps["sync"]
    BY DEF Steps, Pulling
  <2> QED
    BY <1>13, <1>begin, <2>1 DEF SyncBegins
<1>14. CASE ResolveBegins
  <2>1. call'.kind = "resolve" /\ call'.pc = "resolve"
    BY <1>14 DEF ResolveBegins, Idle
  <2> QED
    BY <2>1 DEF CallShape, Steps
<1>15. CASE ResolveWrites \/ ResolveStages
  <2>1. call'.pc \in {"resolve", "add"} /\ call'.kind = call.kind /\ call'.live = call.live
    BY <1>15, <1>type DEF ResolveWrites, ResolveStages, Call
  <2>2. call.kind = "resolve"
    BY <1>15, <1>kinds DEF ResolveWrites, ResolveStages
  <2>3. "resolve" \in Steps["resolve"] /\ "add" \in Steps["resolve"]
    BY DEF Steps
  <2> QED
    BY <1>steps, <2>1, <2>2, <2>3
<1>16. CASE ResolveCommits
  <2>1. call' = Idle \/ (call'.pc = "index" /\ call'.kind = call.kind /\ call'.live = call.live)
    BY <1>16, <1>type DEF ResolveCommits, Call
  <2>2. "index" \in Steps[call.kind]
    BY <1>16, <1>kinds DEF ResolveCommits, AllApplied, Steps
  <2> QED
    BY <1>idle, <1>steps, <2>1, <2>2
<1>17. CASE Cancels
  <2>1. call'.pc = call.pc /\ call'.kind = call.kind
    BY <1>17, <1>type DEF Cancels, Call
  <2> QED
    BY <1>17, <1>gone, <1>shape, <2>1 DEF Cancels, MayCancel, CallShape
<1>18. CASE UNCHANGED call
  BY <1>18, <1>shape DEF CallShape
<1> QED
  BY <1>idle, <1>1, <1>2, <1>3, <1>4, <1>5, <1>6, <1>7, <1>8, <1>9, <1>10, <1>11, <1>12, <1>13, <1>14,
     <1>15, <1>16, <1>17, <1>18
     DEF Next, CallStep, PullStep, MutateStep, PushStep, ResolveStep, vars,
         MutateRejects, MutateStageFails, MutateCommitFails, MutateReturns,
         PushLoopWakes, PushNotNeeded, PushOk, PushFails, RetryFires,
         ResolveFails, ResolveRemains, ResolveCommitFails, ResolveReturns,
         Opens, OpenFails, Reindexes, Crashes, OtherClonePushes

LEMMA TypeStep == TypeOK /\ [Next]_vars => TypeOK'
<1> SUFFICES ASSUME TypeOK, [Next]_vars PROVE TypeOK'
  OBVIOUS
<1>1. GitTypeOK' /\ DerivedTypeOK'
  BY GitTypeStep, DerivedTypeStep
<1>2. ServiceTypeOK'
  BY FlagsStep, CallStepType DEF TypeOK, ServiceTypeOK, CallOK
<1>3. ReferencesOK'
  BY CallStepType, AckedType DEF ReferencesOK, CallOK
<1> QED
  BY <1>1, <1>2, <1>3, ShapeStep DEF TypeOK

(* The state of a vault is well typed: in particular HEAD, the tracking    *)
(* branch, MERGE_HEAD, the index stamp and every acknowledged hash name a  *)
(* commit that exists, whatever fails, is cancelled or crashes.            *)
THEOREM TypeCorrect == Spec => []TypeOK
<1>1. Init => TypeOK
  BY TypeInit
<1>2. TypeOK /\ [Next]_vars => TypeOK'
  BY TypeStep
<1> QED
  BY <1>1, <1>2, PTL DEF Spec

-----------------------------------------------------------------------------
(* The history.  AckedKept alone is not inductive: it needs that the        *)
(* ancestors of an ancestor are ancestors, that a frozen merge is with a    *)
(* commit the remote has, and that no live call but a resolution meets one. *)

AncestryOK ==
  \A c \in DOMAIN commits :
    /\ c \in Anc(c) /\ Anc(c) \subseteq DOMAIN commits
    /\ \A d \in Anc(c) : Anc(d) \subseteq Anc(c)

MergeHeadPublished == mergeHead # NoCommit => mergeHead \in Anc(remote)

LiveMeansThawed == call.live /\ call.pc \notin {"idle", "resolve", "add"} => mergeHead = NoCommit

Inv == TypeOK /\ AncestryOK /\ AckedKept /\ MergeHeadPublished /\ LiveMeansThawed

(* What a step may do to the history, with everything else left out.        *)
Keeps       == UNCHANGED <<commits, head, remote, mergeHead, tracking>>
Fetches     == UNCHANGED <<commits, head, remote, mergeHead>> /\ tracking' = remote
FastForwards ==
  /\ mergeHead = NoCommit /\ head \in Anc(tracking)
  /\ head' = tracking /\ UNCHANGED <<commits, remote, mergeHead, tracking>>
Freezes ==
  /\ mergeHead = NoCommit /\ mergeHead' = tracking
  /\ UNCHANGED <<commits, head, remote, tracking>>
Publishes ==
  /\ mergeHead = NoCommit /\ remote \in Anc(head)
  /\ remote' = head /\ tracking' \in {tracking, head}
  /\ UNCHANGED <<commits, head, mergeHead>>
Adds(A) == \E t \in Tree, m \in Maker : AddCommit(A, t, m)
Merges ==
  /\ mergeHead = NoCommit /\ Adds(Anc(head) \cup Anc(tracking)) /\ head' = New
  /\ UNCHANGED <<remote, mergeHead, tracking>>
Records ==
  /\ mergeHead = NoCommit /\ Adds(Anc(head)) /\ head' = New
  /\ UNCHANGED <<remote, mergeHead, tracking>>
Settles ==
  /\ mergeHead # NoCommit /\ unmerged = {} /\ mergeHead' = NoCommit
  /\ Adds(Anc(head) \cup Anc(mergeHead)) /\ head' = New
  /\ UNCHANGED <<remote, tracking>>
Contributes ==
  /\ Adds(Anc(remote)) /\ remote' = New
  /\ UNCHANGED <<head, mergeHead, tracking>>

\* Every step is one of these, and acknowledges at most the current HEAD.
LEMMA HistoryStep ==
  ASSUME Inv, [Next]_vars
  PROVE  \/ (acked' = acked \/ acked' = acked \cup {head}) /\ Keeps
         \/ acked' = acked /\ (\/ Fetches \/ FastForwards \/ Freezes \/ Publishes
                               \/ Merges \/ Records \/ Settles \/ Contributes)
<1> USE DEF Inv
<1>0. CASE UNCHANGED gitVars
  <2>1. acked' = acked \/ acked' = acked \cup {head}
    BY DEF Next, CallStep, PullStep, MutateStep, PushStep, ResolveStep, vars, gitVars,
           derivedVars, loopVars, faultVars, MergeReturns, FetchOk, FetchFails,
           MergeNothing, MergeFastForward, MergeClean, MergeConflicts, MergeFails,
           PullIndexes, PullIndexFails, MutateBegins, MutateWrites, MutateRejects,
           MutateStages, MutateStageFails, MutateCommits, MutateCommitFails,
           MutateReturns, PushLoopWakes, PushBegins, PushNotNeeded, PushOk, PushRejected,
           PushFails, RetryFires, PullTicks, SyncBegins, ResolveBegins, ResolveWrites, ResolveStages,
           ResolveFails, ResolveRemains, ResolveCommits, ResolveCommitFails,
           ResolveReturns, Opens, OpenFails, Reindexes, Crashes, Cancels, OtherClonePushes
  <2> QED
    BY <1>0, <2>1 DEF gitVars, Keeps
<1>1. CASE FetchOk
  BY <1>1 DEF FetchOk, Fetches
<1>2. CASE MergeFastForward
  BY <1>2 DEF MergeFastForward, FastForwards, LiveMeansThawed, Behind
<1>3. CASE MergeClean
  <2>1. PICK lines \in LineMerges(BothChanged) :
          AddCommit(Anc(head) \cup Anc(tracking), [p \in Path |-> MergedFile(p, lines)], "merge")
    BY <1>3 DEF MergeClean
  <2>2. [p \in Path |-> MergedFile(p, lines)] \in Tree
    BY CommitType DEF MergedFile, LineMerges, OneSide, Ours, Theirs, File, Tree, TypeOK, GitTypeOK
  <2>3. Adds(Anc(head) \cup Anc(tracking))
    BY <2>1, <2>2 DEF Adds, Maker
  <2> QED
    BY <1>3, <2>3 DEF MergeClean, Merges, LiveMeansThawed
<1>4. CASE MergeConflicts
  BY <1>4 DEF MergeConflicts, Freezes, LiveMeansThawed
<1>5. CASE MutateWrites
  BY <1>5 DEF MutateWrites, Keeps
<1>6. CASE MutateStages
  BY <1>6 DEF MutateStages, Keeps
<1>7. CASE MutateCommits
  <2>1. mergeHead = NoCommit
    BY <1>7 DEF MutateCommits, LiveMeansThawed
  <2>2. Adds(Anc(head))
    BY <1>7, <2>1 DEF MutateCommits, GitCommit, Adds, Maker, TypeOK, GitTypeOK
  <2> QED
    BY <1>7, <2>1, <2>2 DEF MutateCommits, GitCommit, Records
<1>8. CASE ResolveCommits
  <2>1. CASE mergeHead = NoCommit
    <3>1. Adds(Anc(head))
      BY <1>8, <2>1 DEF ResolveCommits, GitCommit, Adds, Maker, TypeOK, GitTypeOK
    <3> QED
      BY <1>8, <2>1, <3>1 DEF ResolveCommits, GitCommit, Records
  <2>2. CASE mergeHead # NoCommit
    <3>1. Adds(Anc(head) \cup Anc(mergeHead))
      BY <1>8, <2>2 DEF ResolveCommits, GitCommit, Adds, Maker, TypeOK, GitTypeOK
    <3> QED
      BY <1>8, <2>2, <3>1 DEF ResolveCommits, GitCommit, Committable, Settles
  <2> QED
    BY <2>1, <2>2
<1>9. CASE PushOk
  BY <1>9 DEF PushOk, Pushing, FastForwardsRemote, Publishes, LiveMeansThawed
<1>10. CASE PushFails
  BY <1>10 DEF PushFails, Pushing, FastForwardsRemote, Publishes, Keeps, LiveMeansThawed
<1>11. CASE ResolveWrites
  BY <1>11 DEF ResolveWrites, Keeps
<1>12. CASE ResolveStages
  BY <1>12 DEF ResolveStages, Keeps
<1>13. CASE OtherClonePushes
  <2>1. PICK t \in [Path -> Content \cup {Absent}] : AddCommit(Anc(remote), t, "edit")
    BY <1>13 DEF OtherClonePushes
  <2>2. t \in Tree
    BY DEF Tree, File
  <2>3. Adds(Anc(remote))
    BY <2>1, <2>2 DEF Adds, Maker
  <2> QED
    BY <1>13, <2>3 DEF OtherClonePushes, Contributes
<1> QED
  BY <1>0, <1>1, <1>2, <1>3, <1>4, <1>5, <1>6, <1>7, <1>8, <1>9, <1>10, <1>11, <1>12, <1>13,
     GitActions

\* A set of commits that contains the ancestors of its members.
Closed(A) == A \subseteq DOMAIN commits /\ \A d \in A : Anc(d) \subseteq A

\* A commit on top of a closed set keeps the ancestry transitive, and the
\* ancestors of the older commits as they were.
LEMMA AncestryGrows ==
  ASSUME TypeOK, AncestryOK, NEW A, Closed(A), Adds(A)
  PROVE  /\ AncestryOK'
         /\ New \notin DOMAIN commits
         /\ commits'[New].anc = A \cup {New}
         /\ \A c \in DOMAIN commits : commits'[c] = commits[c]
<1>1. PICK t \in Tree, m \in Maker : AddCommit(A, t, m)
  BY DEF Adds
<1>2. A \in SUBSET Nat /\ commits \in Seq(Commit)
  BY DEF Closed, TypeOK, GitTypeOK
<1>3. /\ New \notin DOMAIN commits
      /\ DOMAIN commits' = DOMAIN commits \cup {New}
      /\ \A c \in DOMAIN commits : commits'[c] = commits[c]
      /\ commits'[New] = [anc |-> A \cup {New}, tree |-> t, by |-> m]
  BY <1>1, <1>2, CommitsGrow
<1>4. commits'[New].anc = A \cup {New}
  BY <1>3
<1>5. ASSUME NEW c \in DOMAIN commits'
      PROVE  /\ c \in commits'[c].anc /\ commits'[c].anc \subseteq DOMAIN commits'
             /\ \A d \in commits'[c].anc : commits'[d].anc \subseteq commits'[c].anc
  <2>1. CASE c = New
    BY <1>3, <1>4, <2>1 DEF Closed, Anc
  <2>2. CASE c \in DOMAIN commits
    BY <1>3, <2>2 DEF AncestryOK, Anc
  <2> QED
    BY <1>3, <2>1, <2>2
<1>6. AncestryOK'
  BY <1>5 DEF AncestryOK, Anc
<1> QED
  BY <1>3, <1>4, <1>6

LEMMA ClosedSets ==
  ASSUME Inv
  PROVE  /\ Closed(Anc(head)) /\ Closed(Anc(remote)) /\ Closed(Anc(tracking))
         /\ Closed(Anc(head) \cup Anc(tracking))
         /\ mergeHead # NoCommit => Closed(Anc(head) \cup Anc(mergeHead))
         /\ head \in Anc(head) /\ remote \in Anc(remote) /\ tracking \in Anc(tracking)
         /\ Anc(tracking) \subseteq Anc(remote)
         /\ mergeHead # NoCommit => Anc(mergeHead) \subseteq Anc(remote)
BY DEF Inv, TypeOK, GitTypeOK, AncestryOK, Closed, AckedKept, MergeHeadPublished

LEMMA AckedStep ==
  ASSUME Inv, [Next]_vars
  PROVE  AncestryOK' /\ AckedKept' /\ MergeHeadPublished'
<1> USE ClosedSets DEF Inv
<1>types. /\ head \in DOMAIN commits /\ remote \in DOMAIN commits /\ tracking \in DOMAIN commits
          /\ mergeHead \in DOMAIN commits \cup {NoCommit}
          /\ New # NoCommit
  BY DEF TypeOK, GitTypeOK, New, NoCommit
<1>1. CASE (acked' = acked \/ acked' = acked \cup {head}) /\ Keeps
  BY <1>1 DEF Keeps, AncestryOK, AckedKept, MergeHeadPublished, Anc
<1>2. CASE acked' = acked /\ Fetches
  BY <1>2 DEF Fetches, AncestryOK, AckedKept, MergeHeadPublished, Anc
<1>3. CASE acked' = acked /\ FastForwards
  <2>1. Anc(head) \subseteq Anc(tracking)
    BY <1>3, <1>types DEF FastForwards, AncestryOK
  <2> QED
    BY <1>3, <2>1 DEF FastForwards, AncestryOK, AckedKept, MergeHeadPublished, Anc
<1>4. CASE acked' = acked /\ Freezes
  BY <1>4 DEF Freezes, AncestryOK, AckedKept, MergeHeadPublished, Anc
<1>5. CASE acked' = acked /\ Publishes
  <2>1. Anc(remote) \subseteq Anc(head)
    BY <1>5, <1>types DEF Publishes, AncestryOK
  <2> QED
    BY <1>5, <2>1 DEF Publishes, AncestryOK, AckedKept, MergeHeadPublished, Anc
<1>6. CASE acked' = acked /\ Merges
  BY <1>6, <1>types, AncestryGrows DEF Merges, AckedKept, MergeHeadPublished, Anc
<1>7. CASE acked' = acked /\ Records
  BY <1>7, <1>types, AncestryGrows DEF Records, AckedKept, MergeHeadPublished, Anc
<1>8. CASE acked' = acked /\ Settles
  BY <1>8, <1>types, AncestryGrows DEF Settles, AckedKept, MergeHeadPublished, Anc
<1>9. CASE acked' = acked /\ Contributes
  BY <1>9, <1>types, AncestryGrows DEF Contributes, AckedKept, MergeHeadPublished, Anc
<1> QED
  BY <1>1, <1>2, <1>3, <1>4, <1>5, <1>6, <1>7, <1>8, <1>9, HistoryStep

LEMMA ThawedStep == ASSUME Inv, [Next]_vars PROVE LiveMeansThawed'
<1> USE DEF Inv, LiveMeansThawed
<1>type. call \in Call
  BY DEF TypeOK, ServiceTypeOK
<1> DEFINE Kept == mergeHead' = mergeHead \/ mergeHead' = NoCommit
<1>1. CASE Kept
  <2> USE <1>1
  <2>1. CASE UNCHANGED call
    BY <2>1
  <2>2. CASE call' = Idle
    BY <2>2 DEF Idle
  <2>3. ASSUME call'.pc \in {"resolve", "add"} PROVE LiveMeansThawed'
    BY <2>3
  <2>4. ASSUME call.pc \notin {"idle", "resolve", "add"}, call'.live => call.live
        PROVE  LiveMeansThawed'
    BY <2>4
  <2>5. ASSUME NEW kind, NEW pc, NEW live, live => mergeHead = NoCommit, Begin(kind, pc, live)
        PROVE  LiveMeansThawed'
    BY <2>5 DEF Begin
  <2>6. ASSUME call.pc \in {"fetch", "merge", "index"}, NEW outcome, NEW live \in BOOLEAN,
               live => call.live, PullReturns(outcome, live)
        PROVE  LiveMeansThawed'
    <3>1. call' = Idle \/ \E pc : Begin(call.kind, pc, live)
      BY <2>6 DEF PullReturns
    <3> QED
      BY <2>2, <2>5, <2>6, <3>1
  <2>7. ASSUME NEW pc, call' = [call EXCEPT !.pc = pc], call.pc \notin {"idle", "resolve", "add"}
        PROVE  LiveMeansThawed'
    BY <2>4, <2>7, <1>type DEF Call
  <2>8. ASSUME call.pc = "merge", NEW conflicted, MergeReturns(conflicted) PROVE LiveMeansThawed'
    BY <2>6, <2>7, <2>8, <1>type DEF MergeReturns, Call
  <2>9. CASE FetchOk
    BY <2>4, <2>9, <1>type DEF FetchOk, Call
  <2>10. CASE FetchFails
    BY <2>6, <2>10, <1>type DEF FetchFails, Call
  <2>11. CASE MergeNothing
    BY <2>7, <2>11 DEF MergeNothing
  <2>12. CASE MergeFastForward
    BY <2>8, <2>12 DEF MergeFastForward
  <2>13. CASE MergeClean
    BY <2>8, <2>13 DEF MergeClean
  <2>14. CASE MergeConflicts
    BY <2>8, <2>14 DEF MergeConflicts
  <2>15. CASE MergeFails
    BY <2>6, <2>15, <1>type DEF MergeFails, Call
  <2>16. CASE PullIndexes
    BY <2>6, <2>16, <1>type DEF PullIndexes, Call
  <2>17. CASE PullIndexFails
    BY <2>6, <2>17 DEF PullIndexFails
  <2>18. CASE MutateBegins
    BY <2>5, <2>18 DEF MutateBegins
  <2>19. CASE MutateWrites
    <3>1. PICK d : call' = [call EXCEPT !.pc = "stage", !.delta = d]
      BY <2>19 DEF MutateWrites
    <3> QED
      BY <2>4, <2>19, <3>1, <1>type DEF MutateWrites, Call
  <2>20. CASE MutateStages
    BY <2>7, <2>20 DEF MutateStages
  <2>21. CASE MutateCommits
    BY <2>2, <2>7, <2>21 DEF MutateCommits
  <2>22. CASE PushBegins
    BY <2>1, <2>5, <2>22 DEF PushBegins
  <2>23. CASE PushRejected
    BY <2>5, <2>23 DEF PushRejected
  <2>24. CASE PullTicks
    BY <2>1, <2>5, <2>24 DEF PullTicks
  <2>25. CASE SyncBegins
    BY <2>5, <2>25 DEF SyncBegins
  <2>26. CASE ResolveBegins
    BY <2>3, <2>26, IdleType DEF ResolveBegins, Idle
  <2>27. CASE ResolveWrites \/ ResolveStages
    BY <2>3, <2>27, <1>type DEF ResolveWrites, ResolveStages, Call
  <2>28. CASE ResolveCommits
    BY <2>28 DEF ResolveCommits, GitCommit
  <2>29. CASE Cancels
    BY <2>29, <1>type DEF Cancels, Call
  <2> HIDE DEF LiveMeansThawed
  <2> QED
    BY <2>1, <2>2, <2>9, <2>10, <2>11, <2>12, <2>13, <2>14, <2>15, <2>16, <2>17, <2>18,
       <2>19, <2>20, <2>21, <2>22, <2>23, <2>24, <2>25, <2>26, <2>27, <2>28, <2>29
       DEF Next, CallStep, PullStep, MutateStep, PushStep, ResolveStep, vars,
           MutateRejects, MutateStageFails, MutateCommitFails, MutateReturns,
           PushLoopWakes, PushNotNeeded, PushOk, PushFails, RetryFires,
           ResolveFails, ResolveRemains, ResolveCommitFails, ResolveReturns,
           Opens, OpenFails, Reindexes, Crashes, OtherClonePushes
<1>2. CASE ~Kept
  <2>1. MergeConflicts
    BY <1>2 DEF GitCommit, Next, CallStep, PullStep, MutateStep, PushStep, ResolveStep, vars, gitVars,
           derivedVars, loopVars, faultVars, MergeReturns, FetchOk, FetchFails,
           MergeNothing, MergeFastForward, MergeClean, MergeConflicts, MergeFails,
           PullIndexes, PullIndexFails, MutateBegins, MutateWrites, MutateRejects,
           MutateStages, MutateStageFails, MutateCommits, MutateCommitFails,
           MutateReturns, PushLoopWakes, PushBegins, PushNotNeeded, PushOk, PushRejected,
           PushFails, RetryFires, PullTicks, SyncBegins, ResolveBegins, ResolveWrites, ResolveStages,
           ResolveFails, ResolveRemains, ResolveCommits, ResolveCommitFails,
           ResolveReturns, Opens, OpenFails, Reindexes, Crashes, Cancels, OtherClonePushes
  <2>2. call.kind \in {"mutate", "sync", "resync", "push", "pull", "none", "resolve"}
    BY <1>type DEF Call
  <2>3. \/ call' = Idle
        \/ call'.live = FALSE
    BY <2>1, <2>2 DEF MergeConflicts, MergeReturns, PullReturns, Begin
  <2> QED
    BY <2>3 DEF Idle
<1> QED
  BY <1>1, <1>2

LEMMA InvInit == Init => Inv
<1> SUFFICES ASSUME Init PROVE Inv
  OBVIOUS
<1>1. TypeOK
  BY TypeInit
<1>2. DOMAIN commits = {1} /\ Anc(1) = {1}
  BY DEF Init, Anc
<1>3. AncestryOK
  BY <1>2 DEF AncestryOK
<1> QED
  BY <1>1, <1>2, <1>3 DEF Init, Inv, AckedKept, MergeHeadPublished, LiveMeansThawed

THEOREM InvCorrect == Spec => []Inv
<1>1. Init => Inv
  BY InvInit
<1>2. Inv /\ [Next]_vars => Inv'
  BY TypeStep, AckedStep, ThawedStep DEF Inv
<1> QED
  BY <1>1, <1>2, PTL DEF Spec

(* A commit hash handed to a client stays in HEAD's history, whatever is    *)
(* merged, rejected, cancelled or killed afterwards.                        *)
THEOREM AckedCorrect == Spec => []AckedKept
BY InvCorrect, PTL DEF Inv

\* What each kind of step does to the two sides of the shared history.
LEMMA SidesStep ==
  ASSUME Inv, [Next]_vars
  PROVE  /\ Anc(head) \subseteq commits'[head'].anc
         /\ Anc(remote) \subseteq commits'[remote'].anc
         /\ mergeHead # NoCommit =>
              /\ remote' # remote => remote' # head
              /\ head' # head => /\ unmerged = {} /\ mergeHead' = NoCommit
                                 /\ Anc(head) \cup Anc(mergeHead) \subseteq commits'[head'].anc
<1> USE ClosedSets, AncestryGrows DEF Inv
<1>types. /\ head \in DOMAIN commits /\ remote \in DOMAIN commits /\ tracking \in DOMAIN commits
          /\ mergeHead \in DOMAIN commits \cup {NoCommit}
  BY DEF TypeOK, GitTypeOK
<1>1. CASE Keeps
  BY <1>1 DEF Keeps, Anc
<1>2. CASE Fetches
  BY <1>2 DEF Fetches, Anc
<1>3. CASE FastForwards
  BY <1>3, <1>types DEF FastForwards, AncestryOK, Anc
<1>4. CASE Freezes
  BY <1>4 DEF Freezes, Anc
<1>5. CASE Publishes
  BY <1>5, <1>types DEF Publishes, AncestryOK, Anc
<1>6. CASE Merges
  BY <1>6, <1>types DEF Merges, Anc
<1>7. CASE Records
  BY <1>7, <1>types DEF Records, Anc
<1>8. CASE Settles
  BY <1>8, <1>types DEF Settles, Anc
<1>9. CASE Contributes
  BY <1>9, <1>types DEF Contributes, Anc
<1> QED
  BY <1>1, <1>2, <1>3, <1>4, <1>5, <1>6, <1>7, <1>8, <1>9, HistoryStep

(* Neither the clone nor the remote ever loses a commit it contained.       *)
THEOREM HistoryCorrect == Spec => HistoryKept
<1>1. Inv /\ [Next]_vars => [/\ Anc(head) \subseteq commits'[head'].anc
                             /\ Anc(remote) \subseteq commits'[remote'].anc]_vars
  BY SidesStep
<1> QED
  BY <1>1, InvCorrect, PTL DEF Spec, HistoryKept

(* A frozen merge is neither pushed nor passed over: HEAD leaves it only    *)
(* once nothing is unmerged, for a commit that contains both sides.         *)
THEOREM FrozenMergeCorrect == Spec => FrozenMergeHoldsHistory
<1>1. Inv /\ [Next]_vars =>
        [mergeHead # NoCommit =>
           /\ remote' # remote => remote' # head
           /\ head' # head => /\ unmerged = {} /\ mergeHead' = NoCommit
                              /\ Anc(head) \cup Anc(mergeHead) \subseteq commits'[head'].anc]_vars
  BY SidesStep
<1> QED
  BY <1>1, InvCorrect, PTL DEF Spec, FrozenMergeHoldsHistory

-----------------------------------------------------------------------------
(* Refinement.                                                              *)

LEMMA RefinementInit == Init => History!Init
<1> SUFFICES ASSUME Init PROVE History!Init
  OBVIOUS
<1>1. Anc(1) = {1}
  BY DEF Init, Anc
<1> QED
  BY <1>1 DEF Init, History!Init

LEMMA RefinementStep ==
  ASSUME Inv, Inv', [Next]_vars
  PROVE  [History!Next]_(History!vars)
<1> USE ClosedSets, AncestryGrows DEF Inv
<1>types. /\ head \in DOMAIN commits /\ remote \in DOMAIN commits /\ tracking \in DOMAIN commits
          /\ mergeHead \in DOMAIN commits \cup {NoCommit}
          /\ New # NoCommit /\ tracking # NoCommit
  <2>1. DOMAIN commits = 1..Len(commits) /\ Len(commits) \in Nat
    BY DEF TypeOK, GitTypeOK
  <2> QED
    BY <2>1 DEF TypeOK, GitTypeOK, New, NoCommit
<1>1. CASE acked' = acked /\ (Keeps \/ Fetches)
  BY <1>1 DEF Keeps, Fetches, Anc, History!vars
<1>2. CASE acked' = acked \cup {head} /\ Keeps
  <2>1. History!Promise
    BY <1>2 DEF Keeps, Anc, History!Promise
  <2> QED
    BY <2>1 DEF History!Next
<1>3. CASE acked' = acked /\ FastForwards
  <2>1. Anc(head) \subseteq Anc(tracking)
    BY <1>3, <1>types DEF FastForwards, AncestryOK
  <2>2. History!Pull
    BY <1>3, <2>1 DEF FastForwards, Anc, History!Pull, History!TakeOver, History!Fresh
  <2> QED
    BY <2>2 DEF History!Next
<1>4. CASE acked' = acked /\ Freezes
  <2>1. History!Freeze
    BY <1>4, <1>types DEF Freezes, Anc, History!Freeze
  <2> QED
    BY <2>1 DEF History!Next
<1>5. CASE acked' = acked /\ Publishes
  <2>1. Anc(remote) \subseteq Anc(head)
    BY <1>5, <1>types DEF Publishes, AncestryOK
  <2>2. History!Publish
    BY <1>5, <2>1 DEF Publishes, Anc, History!Publish
  <2> QED
    BY <2>2 DEF History!Next
<1>6. CASE acked' = acked /\ Merges
  <2>1. commits'[New].anc = Anc(head) \cup Anc(tracking) \cup {New} /\ commits'[remote] = commits[remote]
    BY <1>6, <1>types DEF Merges
  <2>2. History!Pull
    BY <1>6, <2>1 DEF Merges, Anc, History!Pull, History!TakeOver, History!Fresh
  <2> QED
    BY <2>2 DEF History!Next
<1>7. CASE acked' = acked /\ Records
  <2>1. /\ commits'[New].anc = Anc(head) \cup {New} /\ commits'[remote] = commits[remote]
        /\ New \notin Anc(head) \cup Anc(remote)
    BY <1>7, <1>types DEF Records, Closed
  <2>2. History!Record
    BY <1>7, <2>1 DEF Records, Anc, History!Record, History!Fresh
  <2> QED
    BY <2>2 DEF History!Next
<1>8. CASE acked' = acked /\ Settles
  <2>1. commits'[New].anc = Anc(head) \cup Anc(mergeHead) \cup {New} /\ commits'[remote] = commits[remote]
    BY <1>8, <1>types DEF Settles
  <2>2. History!Settle
    BY <1>8, <2>1 DEF Settles, Anc, History!Settle, History!TakeOver, History!Fresh
  <2> QED
    BY <2>2 DEF History!Next
<1>9. CASE acked' = acked /\ Contributes
  <2>1. /\ commits'[New].anc = Anc(remote) \cup {New} /\ commits'[head] = commits[head]
        /\ New \notin Anc(head) \cup Anc(remote)
    BY <1>9, <1>types DEF Contributes, Closed
  <2>2. History!Contribute
    BY <1>9, <2>1 DEF Contributes, Anc, History!Contribute, History!Fresh
  <2> QED
    BY <2>2 DEF History!Next
<1> QED
  BY <1>1, <1>2, <1>3, <1>4, <1>5, <1>6, <1>7, <1>8, <1>9, HistoryStep

(* The clone and the remote, seen as sets of commits, behave as             *)
(* SharedHistory says: merges only join, pushes only fast-forward, and a    *)
(* frozen clone records and publishes nothing until it is settled.          *)
THEOREM ImplementsSharedHistory == Spec => SharedHistorySpec
<1>1. Init => History!Init
  BY RefinementInit
<1>2. Inv /\ Inv' /\ [Next]_vars => [History!Next]_(History!vars)
  BY RefinementStep
<1> QED
  BY <1>1, <1>2, InvCorrect, PTL DEF Spec, SharedHistorySpec, History!Spec

-----------------------------------------------------------------------------
(* What a step does to the call that holds s.mu.                            *)

\* A context that was live is still so, unless somebody gave up.
StillLive == call'.live = call.live \/ call'.live \/ cancels' = cancels + 1
Keeping(pc) == call'.pc = pc /\ call'.kind = call.kind /\ call'.live = call.live

CallRests  == call' = call
CallEnds   == call' = Idle
GivesUp    == /\ cancels' = cancels + 1 /\ UNCHANGED <<gitVars, derivedVars, up, state>>
              /\ call'.pc = call.pc /\ call'.kind = call.kind /\ call'.old = call.old /\ call'.delta = call.delta
CallBegins == /\ call'.pc \in {"fetch", "write", "push", "repush"} /\ call'.delta = NoChange
              /\ call.pc \notin {"refresh", "resolve", "add"} /\ StillLive
Resolves   == ResolveBegins /\ call'.pc = "resolve" /\ call'.live
Fetched    == FetchOk /\ Keeping("merge") /\ call'.old = head /\ call'.delta = call.delta
Merged     == /\ MergeNothing \/ MergeFastForward \/ MergeClean
              /\ Keeping("index") /\ call'.old = call.old /\ call'.delta = call.delta /\ cancels' = cancels
Written    == MutateWrites /\ Keeping("stage")
Staged     == MutateStages /\ Keeping("commit") /\ call'.delta = call.delta
Committed  == MutateCommits /\ Keeping("refresh") /\ call'.delta = call.delta
Touched    == ResolveWrites /\ Keeping("add") /\ call'.delta = call.delta
Applied    == ResolveStages /\ Keeping("resolve")
Completed  == ResolveCommits /\ Keeping("index") /\ call'.old = head /\ call'.delta = call.delta

LEMMA PullReturnsTo ==
  ASSUME TypeOK, call.pc \in {"fetch", "merge", "index"}, NEW outcome \in {"ok", "conflict", "error"},
         NEW live, PullReturns(outcome, live), live = call.live \/ cancels' = cancels + 1
  PROVE  CallEnds \/ CallBegins
<1>1. call' = Idle \/ \E pc \in {"write", "push", "repush"} : Begin(call.kind, pc, live)
  BY DEF PullReturns
<1> QED
  BY <1>1 DEF Begin, CallEnds, CallBegins, StillLive

LEMMA CallMoves ==
  ASSUME TypeOK, [Next]_vars
  PROVE  \/ CallRests \/ CallEnds \/ GivesUp \/ CallBegins \/ Resolves \/ Fetched \/ Merged
         \/ Written \/ Staged \/ Committed \/ Touched \/ Applied \/ Completed
<1>type. call \in Call
  BY DEF TypeOK, ServiceTypeOK
<1>1. ASSUME NEW pc, call' = [call EXCEPT !.pc = pc]
      PROVE  Keeping(pc) /\ call'.old = call.old /\ call'.delta = call.delta
  BY <1>1, <1>type DEF Keeping, Call
<1>2. ASSUME NEW pc, call' = [call EXCEPT !.pc = pc, !.old = head]
      PROVE  Keeping(pc) /\ call'.old = head /\ call'.delta = call.delta
  BY <1>2, <1>type DEF Keeping, Call
<1>3. ASSUME NEW kind, NEW pc \in {"fetch", "write", "push", "repush"}, NEW live, Begin(kind, pc, live),
             live \/ cancels' = cancels + 1, call.pc \notin {"refresh", "resolve", "add"}
      PROVE  CallBegins
  BY <1>3 DEF Begin, CallBegins, StillLive
<1>4. ASSUME call.pc = "merge", NEW conflicted \in BOOLEAN, MergeReturns(conflicted)
      PROVE  CallEnds \/ CallBegins \/ (~conflicted /\ call' = [call EXCEPT !.pc = "index"] /\ cancels' = cancels)
  BY <1>4, PullReturnsTo DEF MergeReturns, faultVars
<1>idle. call = Idle => call.pc = "idle"
  BY DEF Idle
<1>5. CASE FetchOk
  BY <1>2, <1>5 DEF FetchOk, Fetched
<1>6. CASE FetchFails
  BY <1>6, PullReturnsTo DEF FetchFails
<1>7. CASE MergeNothing
  BY <1>1, <1>7 DEF MergeNothing, Merged, faultVars
<1>8. CASE MergeFastForward
  BY <1>1, <1>4, <1>8 DEF MergeFastForward, Merged
<1>9. CASE MergeClean
  BY <1>1, <1>4, <1>9 DEF MergeClean, Merged
<1>10. CASE MergeConflicts
  BY <1>4, <1>10 DEF MergeConflicts
<1>11. CASE MergeFails
  BY <1>11, PullReturnsTo DEF MergeFails
<1>12. CASE PullIndexes
  BY <1>12, PullReturnsTo DEF PullIndexes
<1>13. CASE PullIndexFails
  <2>1. FALSE = call.live
    BY <1>13, <1>type DEF PullIndexFails, Call
  <2> QED
    BY <1>13, <2>1, PullReturnsTo DEF PullIndexFails
<1>14. CASE MutateBegins
  BY <1>3, <1>14, <1>idle DEF MutateBegins
<1>15. CASE MutateWrites
  <2>1. PICK d : call' = [call EXCEPT !.pc = "stage", !.delta = d]
    BY <1>15 DEF MutateWrites
  <2> QED
    BY <1>15, <1>type, <2>1 DEF Written, Keeping, Call
<1>16. CASE MutateStages
  BY <1>1, <1>16 DEF MutateStages, Staged
<1>17. CASE MutateCommits
  BY <1>1, <1>17 DEF MutateCommits, Committed, CallEnds
<1>18. CASE PushBegins
  BY <1>3, <1>18, <1>idle DEF PushBegins, CallRests
<1>19. CASE PushRejected
  <2>1. PICK kind : Begin(kind, "fetch", TRUE)
    BY <1>19 DEF PushRejected
  <2> QED
    BY <1>3, <1>19, <2>1 DEF PushRejected
<1>20. CASE PullTicks
  BY <1>3, <1>20, <1>idle DEF PullTicks, CallRests
<1>21. CASE SyncBegins
  BY <1>3, <1>21, <1>idle DEF SyncBegins
<1>22. CASE ResolveBegins
  BY <1>22 DEF ResolveBegins, Resolves, Idle
<1>23. CASE ResolveWrites \/ ResolveStages
  BY <1>23, <1>type DEF ResolveWrites, ResolveStages, Touched, Applied, Keeping, Call
<1>24. CASE ResolveCommits
  BY <1>2, <1>24 DEF ResolveCommits, Completed, CallEnds
<1>25. CASE Cancels
  BY <1>25, <1>type DEF Cancels, GivesUp, Call
<1> QED
  BY <1>5, <1>6, <1>7, <1>8, <1>9, <1>10, <1>11, <1>12, <1>13, <1>14, <1>15, <1>16, <1>17, <1>18,
     <1>19, <1>20, <1>21, <1>22, <1>23, <1>24, <1>25
     DEF Next, CallStep, PullStep, MutateStep, PushStep, ResolveStep, vars, CallRests, CallEnds,
         MutateRejects, MutateStageFails, MutateCommitFails, MutateReturns,
         PushLoopWakes, PushNotNeeded, PushOk, PushFails, RetryFires,
         ResolveFails, ResolveRemains, ResolveCommitFails, ResolveReturns,
         Opens, OpenFails, Reindexes, Crashes, OtherClonePushes

-----------------------------------------------------------------------------
(* A frozen merge and what the service says of it.  OkMeansSettled is not   *)
(* inductive: the calls that set the state to ok are those that push or     *)
(* re-index, so it needs that those never meet a frozen merge.              *)

SettledUnmerged == mergeHead = NoCommit => unmerged = {}
ResolvesFrozen  == call.pc \in {"resolve", "add"} => mergeHead # NoCommit
IndexesThawed   == call.pc = "index" => mergeHead = NoCommit
FrozenNotOk     == up /\ mergeHead # NoCommit => state # "ok"
DownIsIdle      == ~up => call = Idle

FrozenInv == SettledUnmerged /\ ResolvesFrozen /\ IndexesThawed /\ FrozenNotOk /\ DownIsIdle

\* A merge freezes the clone by its conflicts, and a commit thaws it.
LEMMA MergeHeadMoves ==
  ASSUME Inv, [Next]_vars
  PROVE  \/ UNCHANGED <<mergeHead, unmerged>>
         \/ MergeConflicts
         \/ MutateStages \/ ResolveStages
         \/ (MutateCommits \/ ResolveCommits) /\ mergeHead' = NoCommit /\ unmerged' = unmerged /\ unmerged = {}
BY GitActions DEF gitVars, FetchOk, MergeFastForward, MergeClean, MutateWrites, MutateCommits, GitCommit,
       Committable, PushOk, PushFails, ResolveWrites, ResolveCommits, OtherClonePushes

LEMMA ConflictsReport ==
  ASSUME Inv, MergeConflicts
  PROVE  state' # "ok" /\ call'.pc \notin {"index", "resolve", "add"}
<1>1. call.pc = "merge"
  BY DEF MergeConflicts
<1>2. CASE state' = "conflict" /\ PullReturns("conflict", call.live)
  <2>1. call' = Idle \/ \E pc \in {"write", "push", "repush"} : Begin(call.kind, pc, call.live)
    BY <1>2 DEF PullReturns
  <2> QED
    BY <1>2, <2>1 DEF Begin, Idle
<1>3. CASE state' = "offline" /\ PullReturns("error", FALSE)
  <2>1. call' = Idle \/ \E pc \in {"write", "push", "repush"} : Begin(call.kind, pc, FALSE)
    BY <1>3 DEF PullReturns
  <2> QED
    BY <1>3, <2>1 DEF Begin, Idle
<1> QED
  BY <1>2, <1>3 DEF MergeConflicts, MergeReturns

LEMMA UpMoves ==
  ASSUME [Next]_vars
  PROVE  up' = up \/ Opens \/ Crashes
BY DEF Next, CallStep, PullStep, MutateStep, PushStep, ResolveStep, vars,
       FetchOk, FetchFails, MergeNothing, MergeFastForward, MergeClean, MergeConflicts,
       MergeFails, PullIndexes, PullIndexFails,
       MutateBegins, MutateWrites, MutateRejects, MutateStages, MutateStageFails,
       MutateCommits, MutateCommitFails, MutateReturns,
       PushLoopWakes, PushBegins, PushNotNeeded, PushOk, PushRejected, PushFails,
       RetryFires, PullTicks, SyncBegins,
       ResolveBegins, ResolveWrites, ResolveStages, ResolveFails, ResolveRemains,
       ResolveCommits, ResolveCommitFails, ResolveReturns,
       OpenFails, Reindexes, Cancels, OtherClonePushes

\* Only these steps report ok, and only when no merge is frozen.
LEMMA OkReports ==
  ASSUME Inv, FrozenInv, [Next]_vars, up', state' = "ok"
  PROVE  (up /\ state = "ok") \/ mergeHead = NoCommit
<1>1. \/ UNCHANGED <<up, state>>
      \/ PushOk \/ PullIndexes \/ ResolveReturns \/ Opens
      \/ state' # "ok" \/ ~up'
  BY DEF Next, CallStep, PullStep, MutateStep, PushStep, ResolveStep, vars, gitVars,
         derivedVars, loopVars, faultVars, MergeReturns, FetchOk, FetchFails,
         MergeNothing, MergeFastForward, MergeClean, MergeConflicts, MergeFails,
         PullIndexFails, MutateBegins, MutateWrites, MutateRejects,
         MutateStages, MutateStageFails, MutateCommits, MutateCommitFails,
         MutateReturns, PushLoopWakes, PushBegins, PushNotNeeded, PushRejected,
         PushFails, RetryFires, PullTicks, SyncBegins, ResolveBegins, ResolveWrites, ResolveStages,
         ResolveFails, ResolveRemains, ResolveCommits, ResolveCommitFails,
         OpenFails, Reindexes, Crashes, Cancels, OtherClonePushes
<1>2. CASE PushOk
  BY <1>2 DEF PushOk, Pushing, Inv, LiveMeansThawed
<1>3. CASE PullIndexes \/ ResolveReturns
  BY <1>3 DEF PullIndexes, ResolveReturns, FrozenInv, IndexesThawed
<1>4. CASE Opens
  BY <1>4 DEF Opens, StateOnOpen
<1> QED
  BY <1>1, <1>2, <1>3, <1>4

LEMMA FrozenStep ==
  ASSUME Inv, FrozenInv, [Next]_vars
  PROVE  FrozenInv'
<1> USE DEF FrozenInv
<1>1. SettledUnmerged'
  <2>1. CASE MergeConflicts
    BY <2>1 DEF MergeConflicts, SettledUnmerged, Inv, TypeOK, GitTypeOK, NoCommit
  <2> QED
    BY <2>1, MergeHeadMoves DEF SettledUnmerged, MutateStages, ResolveStages
<1>2. ResolvesFrozen'
  <2>1. CASE MergeConflicts
    BY <2>1, ConflictsReport DEF ResolvesFrozen
  <2>2. CASE ResolveStages
    BY <2>2 DEF ResolveStages, ResolvesFrozen
  <2>3. CASE MutateStages \/ MutateCommits \/ ResolveCommits
    <3>1. call' = Idle \/ call'.pc \in {"commit", "refresh", "index"}
      BY <2>3 DEF Inv, TypeOK, ServiceTypeOK, Call, MutateStages, MutateCommits, ResolveCommits
    <3> QED
      BY <3>1 DEF ResolvesFrozen, Idle
  <2>4. CASE UNCHANGED <<mergeHead, unmerged>>
    <3>1. ASSUME call'.pc \in {"resolve", "add"} PROVE call.pc \in {"resolve", "add"} \/ ResolveBegins
      <4>1. CASE CallRests \/ CallEnds \/ GivesUp \/ CallBegins \/ Resolves
        BY <3>1, <4>1 DEF CallRests, CallEnds, GivesUp, CallBegins, Resolves, Idle
      <4>2. CASE Touched \/ Applied
        BY <4>2 DEF Touched, Applied, ResolveWrites, ResolveStages
      <4>3. ~(Fetched \/ Merged \/ Written \/ Staged \/ Committed \/ Completed)
        BY <3>1 DEF Fetched, Merged, Written, Staged, Committed, Completed, Keeping
      <4> QED
        BY <4>1, <4>2, <4>3, CallMoves DEF Inv
    <3> QED
      BY <2>4, <3>1 DEF ResolvesFrozen, ResolveBegins
  <2> QED
    BY <2>1, <2>2, <2>3, <2>4, MergeHeadMoves
<1>3. IndexesThawed'
  <2>1. CASE MergeConflicts
    BY <2>1, ConflictsReport DEF IndexesThawed
  <2>2. CASE mergeHead' = NoCommit
    BY <2>2 DEF IndexesThawed
  <2>3. CASE mergeHead' = mergeHead
    <3>1. call'.pc = "index" => call.pc = "index" \/ Merged \/ Completed
      BY CallMoves DEF Inv, CallRests, CallEnds, GivesUp, CallBegins, Resolves, Fetched,
             Written, Staged, Committed, Touched, Applied, Keeping, Idle
    <3>2. Merged => mergeHead = NoCommit
      BY DEF Merged, MergeNothing, MergeFastForward, MergeClean, Inv, LiveMeansThawed
    <3>3. Completed => mergeHead' = NoCommit
      BY DEF Completed, ResolveCommits, GitCommit
    <3> QED
      BY <2>3, <3>1, <3>2, <3>3 DEF IndexesThawed
  <2> QED
    BY <2>1, <2>2, <2>3, MergeHeadMoves DEF MutateStages, ResolveStages
<1>4. FrozenNotOk'
  <2>1. CASE MergeConflicts
    BY <2>1, ConflictsReport DEF FrozenNotOk
  <2>2. CASE mergeHead' = mergeHead \/ mergeHead' = NoCommit
    BY <2>2, OkReports DEF FrozenNotOk
  <2> QED
    BY <2>1, <2>2, MergeHeadMoves DEF MutateStages, ResolveStages
<1>5. DownIsIdle'
  <2>1. ASSUME ~up PROVE UNCHANGED call
    <3>1. call.pc = "idle" /\ call.kind = "none"
      BY <2>1 DEF DownIsIdle, Idle
    <3> QED
      BY <2>1, <3>1 DEF Next, CallStep, PullStep, MutateStep, PushStep, ResolveStep, vars,
           FetchOk, FetchFails, MergeNothing, MergeFastForward, MergeClean, MergeConflicts, MergeFails,
           PullIndexes, PullIndexFails, MutateBegins, MutateWrites, MutateRejects,
           MutateStages, MutateStageFails, MutateCommits, MutateCommitFails,
           MutateReturns, PushLoopWakes, PushBegins, PushNotNeeded, PushOk, PushRejected,
           PushFails, Pushing, RetryFires, PullTicks, SyncBegins, ResolveBegins, ResolveWrites, ResolveStages,
           ResolveFails, AllApplied, ResolveRemains, ResolveCommits, ResolveCommitFails,
           ResolveReturns, Opens, OpenFails, Reindexes, Crashes, Cancels, OtherClonePushes, MayCancel, ClientCall
  <2>2. up' = up \/ Opens \/ Crashes
    BY UpMoves
  <2> QED
    BY <2>1, <2>2 DEF DownIsIdle, Opens, Crashes
<1> QED
  BY <1>1, <1>2, <1>3, <1>4, <1>5

THEOREM FrozenInvCorrect == Spec => [](Inv /\ FrozenInv)
<1>1. Init => FrozenInv
  BY DEF Init, FrozenInv, SettledUnmerged, ResolvesFrozen, IndexesThawed, FrozenNotOk, DownIsIdle, Idle
<1>2. Inv /\ FrozenInv /\ [Next]_vars => FrozenInv'
  BY FrozenStep
<1> QED
  BY <1>1, <1>2, InvCorrect, PTL DEF Spec

(* The service never reports ok while a merge waits for its resolution:     *)
(* whatever is cancelled, fails or is killed.                               *)
THEOREM OkCorrect == Spec => []OkMeansSettled
<1>1. FrozenInv => OkMeansSettled
  BY DEF FrozenInv, FrozenNotOk, OkMeansSettled
<1> QED
  BY <1>1, FrozenInvCorrect, PTL

-----------------------------------------------------------------------------
(* Conflict markers.  MergesBringNoMarkers is about the one step that       *)
(* commits a merge; the invariant says what a frozen merge has to keep      *)
(* until then: what is staged, and what a resolution is about to stage,     *)
(* holds markers only where one of the two sides does.                      *)

InSides(p) == HasMarkers(TreeOf(head)[p]) \/ HasMarkers(TreeOf(mergeHead)[p])

FrozenMarkers ==
  mergeHead # NoCommit =>
    /\ \A p \in Path : HasMarkers(staged[p]) => InSides(p)
    /\ call.pc \in {"resolve", "add"} =>
         \A p \in DOMAIN call.delta : HasMarkers(call.delta[p]) => InSides(p)

LEMMA AbsentClean == ~HasMarkers(Absent)
BY SentinelAssumption DEF HasMarkers

\* A merge takes the file of a side that changed, or lines of both.
LEMMA MergedClean ==
  ASSUME NEW paths \in SUBSET BothChanged, NEW lines \in LineMerges(paths),
         NEW p \in Path, p \notin BothChanged \ paths, HasMarkers(MergedFile(p, lines))
  PROVE  HasMarkers(Ours(p)) \/ HasMarkers(Theirs(p))
BY DEF MergedFile, OneSide, LineMerges

\* A commit that exists is never rewritten.
LEMMA CommitsKept ==
  ASSUME Inv, [Next]_vars
  PROVE  \A c \in DOMAIN commits : commits'[c] = commits[c]
BY HistoryStep, ClosedSets, AncestryGrows
   DEF Inv, Keeps, Fetches, FastForwards, Freezes, Publishes, Merges, Records, Settles, Contributes

\* While a merge stays frozen, its two sides stay what they are.
LEMMA SidesStay ==
  ASSUME Inv, [Next]_vars, mergeHead # NoCommit, mergeHead' # NoCommit
  PROVE  /\ mergeHead' = mergeHead /\ head' = head
         /\ \A p \in Path : InSides(p)' = InSides(p)
<1>1. Keeps \/ Fetches \/ Contributes
  BY HistoryStep DEF FastForwards, Freezes, Publishes, Merges, Records, Settles
<1>2. mergeHead' = mergeHead /\ head' = head
  BY <1>1 DEF Keeps, Fetches, Contributes
<1>3. head \in DOMAIN commits /\ mergeHead \in DOMAIN commits
  BY DEF Inv, TypeOK, GitTypeOK
<1> QED
  BY <1>2, <1>3, CommitsKept DEF InSides, TreeOf

LEMMA MarkersStep ==
  ASSUME Inv, FrozenInv, FrozenMarkers, [Next]_vars
  PROVE  FrozenMarkers'
<1> SUFFICES ASSUME mergeHead' # NoCommit
             PROVE  /\ \A p \in Path : HasMarkers(staged'[p]) => InSides(p)'
                    /\ call'.pc \in {"resolve", "add"} =>
                         \A p \in DOMAIN call'.delta : HasMarkers(call'.delta[p]) => InSides(p)'
  BY DEF FrozenMarkers, HasMarkers
<1>type. call \in Call /\ TypeOK
  BY DEF Inv, TypeOK, ServiceTypeOK
<1>1. CASE mergeHead = NoCommit
  <2>1. MergeConflicts
    BY <1>1, MergeHeadMoves DEF MutateStages, ResolveStages
  <2>2. call'.pc \notin {"resolve", "add"}
    BY <2>1, ConflictsReport
  <2>3. PICK stuck \in (SUBSET BothChanged) \ {{}} : \E lines \in LineMerges(BothChanged \ stuck) :
           staged' = [p \in Path |-> IF p \in stuck THEN Ours(p) ELSE MergedFile(p, lines)]
    BY <2>1 DEF MergeConflicts
  <2>4. PICK lines \in LineMerges(BothChanged \ stuck) :
           staged' = [p \in Path |-> IF p \in stuck THEN Ours(p) ELSE MergedFile(p, lines)]
    BY <2>3
  <2>5. ASSUME NEW p \in Path, HasMarkers(staged'[p])
        PROVE  HasMarkers(Ours(p)) \/ HasMarkers(Theirs(p))
    <3>1. CASE p \in stuck
      BY <2>4, <2>5, <3>1
    <3>2. CASE p \notin stuck
      BY <2>4, <2>5, <3>2, MergedClean
    <3> QED
      BY <3>1, <3>2
  <2>6. UNCHANGED <<commits, head>> /\ mergeHead' = tracking
    BY <2>1 DEF MergeConflicts
  <2>7. \A p \in Path : InSides(p)' = (HasMarkers(Ours(p)) \/ HasMarkers(Theirs(p)))
    BY <2>6 DEF InSides, TreeOf, Ours, Theirs, HasMarkers
  <2> QED
    BY <2>2, <2>5, <2>7
<1>2. CASE mergeHead # NoCommit
  <2>sides. \A p \in Path : InSides(p)' = InSides(p)
    BY <1>2, SidesStay
  <2>dead. call.live => call.pc \in {"idle", "resolve", "add"}
    BY <1>2 DEF Inv, LiveMeansThawed
  <2>1. ASSUME NEW p \in Path, HasMarkers(staged'[p]) PROVE InSides(p)
    <3>1. staged' = staged \/ ResolveStages
      BY <1>2, <2>dead, GitActions
         DEF gitVars, FetchOk, MergeFastForward, MergeClean, MergeConflicts, MutateWrites, MutateStages,
             MutateCommits, GitCommit, PushOk, PushFails, ResolveWrites, ResolveCommits, OtherClonePushes
    <3>2. CASE staged' = staged
      BY <1>2, <2>1, <3>2 DEF FrozenMarkers
    <3>3. CASE ResolveStages
      <4>1. PICK q \in DOMAIN call.delta :
              work[q] = call.delta[q] /\ staged' = [staged EXCEPT ![q] = work[q]]
        BY <3>3 DEF ResolveStages
      <4>2. call.pc = "add" /\ staged \in Tree
        BY <1>type, <3>3 DEF ResolveStages, TypeOK, GitTypeOK
      <4>3. CASE p = q
        BY <1>2, <2>1, <4>1, <4>2, <4>3 DEF FrozenMarkers, Tree
      <4>4. CASE p # q
        BY <1>2, <2>1, <4>1, <4>2, <4>4 DEF FrozenMarkers, Tree
      <4> QED
        BY <4>3, <4>4
    <3> QED
      BY <3>1, <3>2, <3>3
  <2>2. ASSUME call'.pc \in {"resolve", "add"}, NEW p \in DOMAIN call'.delta, HasMarkers(call'.delta[p])
        PROVE  p \in Path /\ InSides(p)
    <3>domain. DOMAIN call.delta \in SUBSET Path
      BY <1>type, DeltaDomain DEF Call
    <3>1. CASE ResolveBegins
      <4>1. PICK paths \in SUBSET unmerged :
              \E d \in [paths -> UNION {Resolutions(q) : q \in paths}] :
                /\ \A q \in paths : d[q] \in Resolutions(q)
                /\ call' = [Idle EXCEPT !.kind = "resolve", !.pc = "resolve", !.delta = d]
        BY <3>1 DEF ResolveBegins
      <4>2. PICK d \in [paths -> UNION {Resolutions(q) : q \in paths}] :
                /\ \A q \in paths : d[q] \in Resolutions(q)
                /\ call' = [Idle EXCEPT !.kind = "resolve", !.pc = "resolve", !.delta = d]
        BY <4>1
      <4>3. call'.delta = d
        BY <4>2 DEF Idle
      <4>4. p \in paths /\ paths \subseteq Path
        BY <1>type, <2>2, <4>3 DEF TypeOK, GitTypeOK
      <4>5. d[p] \in Resolutions(p) /\ HasMarkers(d[p])
        BY <2>2, <4>2, <4>3, <4>4
      <4>6. d[p] = TreeOf(head)[p] \/ d[p] = TreeOf(mergeHead)[p]
        BY <4>5, AbsentClean, SentinelAssumption DEF Resolutions, HasMarkers
      <4> QED
        BY <4>4, <4>5, <4>6 DEF InSides
    <3>2. CASE call.pc \in {"resolve", "add"} /\ DOMAIN call'.delta \subseteq DOMAIN call.delta
               /\ call'.delta[p] = call.delta[p]
      BY <1>2, <2>2, <3>2, <3>domain DEF FrozenMarkers
    <3>3. CASE ResolveStages
      <4>1. PICK q \in DOMAIN call.delta : call'.delta = Without(call.delta, q)
        BY <1>type, <3>3 DEF ResolveStages, Call
      <4>2. DOMAIN call'.delta \subseteq DOMAIN call.delta /\ call'.delta[p] = call.delta[p]
        BY <2>2, <4>1 DEF Without
      <4> QED
        BY <3>2, <3>3, <4>2 DEF ResolveStages
    <3>4. call'.pc \in {"resolve", "add"} =>
            ResolveBegins \/ ResolveStages \/ (call.pc \in {"resolve", "add"} /\ call'.delta = call.delta)
      BY <1>type, CallMoves DEF CallRests, CallEnds, GivesUp, CallBegins, Resolves, Fetched, Merged,
         Written, Staged, Committed, Touched, Applied, Completed, Keeping, Idle, ResolveWrites
    <3> QED
      BY <2>2, <3>1, <3>2, <3>3, <3>4
  <2> QED
    BY <2>sides, <2>1, <2>2
<1> QED
  BY <1>1, <1>2

THEOREM MarkersInvCorrect == Spec => []FrozenMarkers
<1>1. Init => FrozenMarkers
  BY DEF Init, FrozenMarkers
<1>2. Inv /\ FrozenInv /\ FrozenMarkers /\ [Next]_vars => FrozenMarkers'
  BY MarkersStep
<1> QED
  BY <1>1, <1>2, FrozenInvCorrect, PTL DEF Spec

\* The server makes a merge commit by a clean merge or by settling a frozen one.
LEMMA MergesClean ==
  ASSUME Inv, FrozenInv, FrozenMarkers, [Next]_vars,
         NEW c \in DOMAIN commits' \ DOMAIN commits, commits'[c].by = "merge",
         NEW p \in Path, HasMarkers(commits'[c].tree[p])
  PROVE  HasMarkers(TreeOf(head)[p]) \/ HasMarkers(TreeOf(Side)[p])
<1>types. /\ commits \in Seq(Commit) /\ staged \in Tree
          /\ Anc(head) \in SUBSET Nat /\ Anc(tracking) \in SUBSET Nat /\ Anc(remote) \in SUBSET Nat
          /\ mergeHead # NoCommit => Anc(mergeHead) \in SUBSET Nat
  BY CommitType DEF Inv, TypeOK, GitTypeOK
<1>1. ASSUME NEW A \in SUBSET Nat, NEW t \in Tree, NEW m \in Maker, AddCommit(A, t, m)
      PROVE  commits'[c].tree = t /\ commits'[c].by = m
  <2>1. /\ DOMAIN commits' = DOMAIN commits \cup {New}
        /\ commits'[New] = [anc |-> A \cup {New}, tree |-> t, by |-> m]
    BY <1>types, <1>1, CommitsGrow
  <2>2. c = New
    BY <2>1
  <2> QED
    BY <2>1, <2>2
<1>2. CASE MergeClean
  <2>1. PICK lines \in LineMerges(BothChanged) :
          AddCommit(Anc(head) \cup Anc(tracking), [q \in Path |-> MergedFile(q, lines)], "merge")
    BY <1>2 DEF MergeClean
  <2>2. [q \in Path |-> MergedFile(q, lines)] \in Tree
    BY CommitType DEF MergedFile, OneSide, Ours, Theirs, File, Tree, LineMerges, Inv, TypeOK, GitTypeOK
  <2> DEFINE t == [q \in Path |-> MergedFile(q, lines)]
  <2>3. t \in Tree /\ AddCommit(Anc(head) \cup Anc(tracking), t, "merge") /\ t[p] = MergedFile(p, lines)
    BY <2>1, <2>2
  <2> HIDE DEF t
  <2>4. commits'[c].tree = t
    BY <1>1, <1>types, <2>3 DEF Maker
  <2>5. HasMarkers(Ours(p)) \/ HasMarkers(Theirs(p))
    BY <2>3, <2>4, MergedClean
  <2>6. mergeHead = NoCommit
    BY <1>2 DEF MergeClean, Inv, LiveMeansThawed
  <2> QED
    BY <2>5, <2>6 DEF Ours, Theirs, Side
<1>3. CASE ResolveCommits
  <2>1. mergeHead # NoCommit
    BY <1>3 DEF ResolveCommits, AllApplied, FrozenInv, ResolvesFrozen
  <2>2. AddCommit(Anc(head) \cup Anc(mergeHead), staged, "merge")
    BY <1>3, <2>1 DEF ResolveCommits, GitCommit
  <2>3. commits'[c].tree = staged
    BY <1>1, <1>types, <2>1, <2>2 DEF Maker
  <2> QED
    BY <2>1, <2>3 DEF FrozenMarkers, InSides, Side
<1>4. CASE MutateCommits
  <2>1. PICK A \in SUBSET Nat : AddCommit(A, staged, "write")
    BY <1>4, <1>types DEF MutateCommits, GitCommit
  <2> QED
    BY <1>1, <1>types, <2>1 DEF Maker
<1>5. CASE OtherClonePushes
  <2>1. PICK t \in [Path -> Content \cup {Absent}] : AddCommit(Anc(remote), t, "edit")
    BY <1>5 DEF OtherClonePushes
  <2>2. t \in Tree
    BY DEF Tree, File
  <2> QED
    BY <1>1, <1>types, <2>1, <2>2 DEF Maker
<1>6. CASE UNCHANGED commits
  BY <1>6
<1> QED
  BY <1>2, <1>3, <1>4, <1>5, <1>6, GitActions
     DEF gitVars, FetchOk, MergeFastForward, MergeConflicts, MutateWrites, MutateStages,
         PushOk, PushFails, ResolveWrites, ResolveStages

(* A merge commit of the server holds conflict markers only where one of    *)
(* the sides it joins does -- although clients and other clones may commit  *)
(* markers, cancelled writes slip past the check for a frozen merge, and a  *)
(* resolution may be cut short between any two of its files.                *)
THEOREM MarkersCorrect == Spec => MergesBringNoMarkers
<1>1. Inv /\ FrozenInv /\ FrozenMarkers /\ [Next]_vars =>
        [\A c \in DOMAIN commits' \ DOMAIN commits :
           commits'[c].by = "merge" =>
             \A p \in Path : HasMarkers(commits'[c].tree[p]) =>
               HasMarkers(TreeOf(head)[p]) \/ HasMarkers(TreeOf(Side)[p])]_vars
  BY MergesClean
<1> QED
  BY <1>1, FrozenInvCorrect, MarkersInvCorrect, PTL DEF Spec, MergesBringNoMarkers

-----------------------------------------------------------------------------
(* The catalog and the index, while no request has been cancelled.  The     *)
(* properties hold between calls; the invariant says in addition what a     *)
(* call in progress, or a crash in the middle of one, leaves to catch up.   *)

\* Calls under a live context, as long as nobody gave up.
LiveCalls == call.live

LiveInv == cancels = 0 => LiveCalls

LEMMA CancelsStep ==
  ASSUME TypeOK, [Next]_vars, cancels' = 0
  PROVE  cancels = 0
<1>1. cancels \in Nat
  BY BoundAssumption DEF TypeOK, ServiceTypeOK
<1>2. cancels' = cancels \/ cancels' = cancels + 1
  BY DEF Next, CallStep, PullStep, MutateStep, PushStep, ResolveStep, vars, gitVars,
         derivedVars, loopVars, faultVars, MergeReturns, FetchOk, FetchFails,
         MergeNothing, MergeFastForward, MergeClean, MergeConflicts, MergeFails,
         PullIndexes, PullIndexFails, MutateBegins, MutateWrites, MutateRejects,
         MutateStages, MutateStageFails, MutateCommits, MutateCommitFails,
         MutateReturns, PushLoopWakes, PushBegins, PushNotNeeded, PushOk, PushRejected,
         PushFails, RetryFires, PullTicks, SyncBegins, ResolveBegins, ResolveWrites, ResolveStages,
         ResolveFails, ResolveRemains, ResolveCommits, ResolveCommitFails,
         ResolveReturns, Opens, OpenFails, Reindexes, Crashes, Cancels, OtherClonePushes
<1> QED
  BY <1>1, <1>2

LEMMA LiveStep ==
  ASSUME TypeOK, [Next]_vars, cancels' = 0, LiveCalls
  PROVE  LiveCalls'
<1>1. cancels = 0
  BY CancelsStep
<1>2. call' = call \/ call' = Idle \/ call'.live \/ call'.live = call.live \/ cancels' = cancels + 1
  BY CallMoves DEF CallRests, CallEnds, GivesUp, CallBegins, StillLive, Resolves, Fetched,
     Merged, Written, Staged, Committed, Touched, Applied, Completed, Keeping
<1>3. Idle.live
  BY DEF Idle
<1>4. cancels' # cancels + 1
  BY <1>1
<1>5. CASE call'.live = call.live
  BY <1>5 DEF LiveCalls
<1>6. CASE call' = call \/ call' = Idle \/ call'.live
  BY <1>3, <1>6 DEF LiveCalls
<1> QED
  BY <1>2, <1>4, <1>5, <1>6

THEOREM LiveInvCorrect == Spec => []LiveInv
<1>1. Init => LiveInv
  BY DEF Init, LiveInv, LiveCalls, Idle
<1>2. TypeOK /\ LiveInv /\ [Next]_vars => LiveInv'
  BY CancelsStep, LiveStep DEF LiveInv
<1> QED
  BY <1>1, <1>2, TypeCorrect, PTL DEF Spec

\* Apart from the paths read while changed or staged, the Git index is HEAD's
\* tree -- but for what the write in progress has staged.
StagedOK ==
  mergeHead = NoCommit =>
    \A p \in Path \ unsettled : \/ staged[p] = TreeOf(head)[p]
                                \/ call.pc = "commit" /\ p \in DOMAIN call.delta

\* The catalog and the index are those of the stamp, which a call that moves
\* HEAD leaves behind until it re-indexes what it moved.
StampOK ==
  /\ stamp # NoCommit
  /\ call.pc \notin {"index", "refresh"} => stamp = head
  /\ call.pc = "merge" => call.old = head
  /\ call.pc = "index" => call.old = stamp
  /\ call.pc = "refresh" =>
       \A p \in Path \ (unsettled \cup DOMAIN call.delta) : TreeOf(head)[p] = TreeOf(stamp)[p]

DescribesStamp ==
  \A p \in Path \ unsettled : cat[p] = TreeOf(stamp)[p] /\ idx[p] = TreeOf(stamp)[p]

\* A crash leaves the index between the stamp and HEAD.
DownOK ==
  /\ stamp # NoCommit
  /\ \A p \in Path \ unsettled : idx[p] = TreeOf(stamp)[p] \/ idx[p] = TreeOf(head)[p]

DerivedOK == IF up THEN StagedOK /\ StampOK /\ DescribesStamp ELSE DownOK

DerivedInv == cancels = 0 => DerivedOK

\* Only these steps move HEAD.
LEMMA HeadMoves ==
  ASSUME [Next]_vars
  PROVE  head' = head \/ MergeFastForward \/ MergeClean \/ MutateCommits \/ ResolveCommits
BY GitActions DEF gitVars, FetchOk, MergeConflicts, MutateWrites, MutateStages, PushOk, PushFails,
       ResolveWrites, ResolveStages, OtherClonePushes

\* A call that has moved HEAD re-indexes, unless it is cancelled or killed.
LEMMA IndexingMoves ==
  ASSUME [Next]_vars, call.pc \in {"index", "refresh"}, call.live = TRUE, cancels' = cancels, cancels = 0
  PROVE  UNCHANGED call \/ PullIndexes \/ ResolveReturns \/ MutateReturns \/ Crashes
<1>1. call # Idle
  BY DEF Idle
<1>2. ~Cancels
  BY DEF Cancels
<1>3. ~PullIndexFails
  BY DEF PullIndexFails
<1> QED
  BY <1>1, <1>2, <1>3
     DEF Next, CallStep, PullStep, MutateStep, PushStep, ResolveStep, vars,
       FetchOk, FetchFails, MergeNothing, MergeFastForward, MergeClean, MergeConflicts,
       MergeFails,
       MutateBegins, MutateWrites, MutateRejects, MutateStages, MutateStageFails,
       MutateCommits, MutateCommitFails,
       PushLoopWakes, PushBegins, PushNotNeeded, PushOk, PushRejected, PushFails, Pushing,
       RetryFires, PullTicks, SyncBegins,
       ResolveBegins, ResolveWrites, ResolveStages, ResolveFails, ResolveRemains, AllApplied,
       ResolveCommits, ResolveCommitFails,
       Opens, OpenFails, Reindexes, OtherClonePushes

\* A write that has staged commits or has nothing to commit, unless it is
\* cancelled or killed.
LEMMA CommittingMoves ==
  ASSUME [Next]_vars, call.pc = "commit", call.live = TRUE, cancels' = cancels, cancels = 0
  PROVE  UNCHANGED call \/ MutateCommits \/ (~Committable /\ UNCHANGED gitVars) \/ Crashes
<1>1. call # Idle
  BY DEF Idle
<1>2. ~Cancels
  BY DEF Cancels
<1>3. MutateCommitFails => ~Committable /\ UNCHANGED gitVars
  BY DEF MutateCommitFails
<1> QED
  BY <1>1, <1>2, <1>3
     DEF Next, CallStep, PullStep, MutateStep, PushStep, ResolveStep, vars,
       FetchOk, FetchFails, MergeNothing, MergeFastForward, MergeClean, MergeConflicts,
       MergeFails, PullIndexes, PullIndexFails,
       MutateBegins, MutateWrites, MutateRejects, MutateStages, MutateStageFails, MutateReturns,
       PushLoopWakes, PushBegins, PushNotNeeded, PushOk, PushRejected, PushFails, Pushing,
       RetryFires, PullTicks, SyncBegins,
       ResolveBegins, ResolveWrites, ResolveStages, ResolveFails, ResolveRemains, AllApplied,
       ResolveCommits, ResolveCommitFails, ResolveReturns,
       Opens, OpenFails, Reindexes, OtherClonePushes

\* The commit git makes holds the Git index.
LEMMA CommitHoldsIndex ==
  ASSUME TypeOK, NEW m \in Maker, GitCommit(m)
  PROVE  commits'[head'].tree = staged
<1>1. PICK A \in SUBSET Nat : AddCommit(A, staged, m)
  <2>1. Anc(head) \in SUBSET Nat /\ (mergeHead # NoCommit => Anc(mergeHead) \in SUBSET Nat)
    BY CommitType DEF TypeOK, GitTypeOK
  <2> QED
    BY <2>1 DEF GitCommit
<1>2. commits'[New] = [anc |-> A \cup {New}, tree |-> staged, by |-> m]
  BY <1>1, CommitsGrow DEF TypeOK, GitTypeOK
<1> QED
  BY <1>2 DEF GitCommit

\* A clean merge commits what it leaves in the Git index.
LEMMA MergeHoldsIndex ==
  ASSUME TypeOK, MergeClean
  PROVE  commits'[head'].tree = staged'
<1>1. PICK lines \in LineMerges(BothChanged) :
        /\ AddCommit(Anc(head) \cup Anc(tracking), [p \in Path |-> MergedFile(p, lines)], "merge")
        /\ staged' = [p \in Path |-> MergedFile(p, lines)]
  BY DEF MergeClean
<1>2. [p \in Path |-> MergedFile(p, lines)] \in Tree
  BY CommitType DEF MergedFile, LineMerges, OneSide, Ours, Theirs, File, Tree, TypeOK, GitTypeOK
<1>3. Anc(head) \cup Anc(tracking) \in SUBSET Nat
  BY CommitType DEF TypeOK, GitTypeOK
<1> DEFINE t == [p \in Path |-> MergedFile(p, lines)]
<1>4. t \in Tree /\ AddCommit(Anc(head) \cup Anc(tracking), t, "merge") /\ staged' = t
  BY <1>1, <1>2
<1> HIDE DEF t
<1>5. commits'[New] = [anc |-> (Anc(head) \cup Anc(tracking)) \cup {New}, tree |-> t, by |-> "merge"]
  BY <1>3, <1>4, CommitsGrow DEF TypeOK, GitTypeOK, Maker
<1> QED
  BY <1>4, <1>5 DEF MergeClean

LEMMA StagedStep ==
  ASSUME Inv, FrozenInv, [Next]_vars, cancels' = 0, LiveCalls, up, up', StagedOK
  PROVE  StagedOK'
<1> SUFFICES ASSUME mergeHead' = NoCommit, NEW p \in Path \ unsettled'
             PROVE  \/ staged'[p] = commits'[head'].tree[p]
                    \/ call'.pc = "commit" /\ p \in DOMAIN call'.delta
  BY DEF StagedOK, TreeOf
<1>0. cancels = 0 /\ cancels' = cancels /\ call.live = TRUE /\ call \in Call /\ TypeOK
  BY CancelsStep DEF Inv, LiveCalls, TypeOK, ServiceTypeOK, Call
<1>trees. \A c \in DOMAIN commits : commits'[c].tree = TreeOf(c)
  BY CommitsKept DEF TreeOf
<1>types. head \in DOMAIN commits /\ tracking \in DOMAIN commits /\ NoCommit \notin DOMAIN commits
  BY <1>0 DEF TypeOK, GitTypeOK, NoCommit
<1>1. CASE UNCHANGED <<head, staged, mergeHead>> /\ p \notin unsettled
  <2>1. staged[p] = TreeOf(head)[p] \/ (call.pc = "commit" /\ p \in DOMAIN call.delta)
    BY <1>1 DEF StagedOK
  <2>2. CASE staged[p] = TreeOf(head)[p]
    BY <1>1, <1>trees, <1>types, <2>2
  <2>3. CASE call.pc = "commit" /\ p \in DOMAIN call.delta
    <3>1. UNCHANGED call \/ MutateCommits \/ ~Committable
      BY <1>0, <2>3, CommittingMoves DEF Crashes
    <3>2. CASE MutateCommits
      <4>1. head' # head
        BY <1>types, <3>2 DEF MutateCommits, GitCommit, New, TypeOK, GitTypeOK, Inv
      <4> QED
        BY <1>1, <4>1
    <3>3. CASE ~Committable
      BY <1>1, <1>trees, <1>types, <3>3 DEF Committable, FrozenInv, SettledUnmerged
    <3> QED
      BY <2>3, <3>1, <3>2, <3>3
  <2> QED
    BY <2>1, <2>2, <2>3
<1>2. CASE p \in unsettled
  <2>1. PullIndexes \/ MutateReturns \/ ResolveReturns \/ Reindexes
    BY <1>2, DerivedActions DEF derivedVars, Opens, OpenFails, Crashes
  <2>2. UNCHANGED gitVars /\ p \notin Uncommitted
    BY <1>2, <2>1 DEF PullIndexes, MutateReturns, ResolveReturns, Reindexes, RefreshPaths, derivedVars
  <2> QED
    BY <1>trees, <1>types, <2>2 DEF Uncommitted, gitVars
<1>3. CASE MergeFastForward /\ p \notin unsettled
  <2>1. /\ call.pc = "merge" /\ Behind /\ ~FastForwardBlocked /\ head' = tracking /\ mergeHead' = mergeHead
        /\ LET moved == [q \in {r \in Changed(head, tracking) : staged[r] # Theirs(r)} |-> Theirs(q)]
           IN staged' = Overlay(staged, moved)
    BY <1>3 DEF MergeFastForward
  <2>2. staged[p] = Ours(p)
    BY <1>3, <2>1 DEF StagedOK, Ours
  <2>3. staged'[p] = Theirs(p)
    BY <2>1, <2>2 DEF Overlay, Changed, Ours, Theirs
  <2> QED
    BY <1>trees, <1>types, <2>1, <2>3 DEF Theirs
<1>4. CASE MergeClean
  BY <1>0, <1>4, MergeHoldsIndex
<1>5. CASE MutateCommits \/ ResolveCommits
  BY <1>0, <1>5, CommitHoldsIndex DEF MutateCommits, ResolveCommits, GitCommit, Maker
<1>6. CASE MutateStages /\ p \notin unsettled
  <2>1. call'.pc = "commit" /\ call'.delta = call.delta
    BY <1>0, <1>6 DEF MutateStages, Call
  <2>2. p \notin DOMAIN call.delta => staged'[p] = staged[p] /\ staged[p] = TreeOf(head)[p]
    BY <1>6 DEF MutateStages, StagedOK
  <2> QED
    BY <1>6, <1>trees, <1>types, <2>1, <2>2 DEF MutateStages
<1>7. CASE ResolveStages
  BY <1>7 DEF ResolveStages, FrozenInv, ResolvesFrozen
<1>8. CASE MergeConflicts
  BY <1>8, <1>types DEF MergeConflicts
<1> QED
  BY <1>0, <1>1, <1>2, <1>3, <1>4, <1>5, <1>6, <1>7, <1>8, GitActions
     DEF gitVars, FetchOk, MutateWrites, PushOk, PushFails, ResolveWrites, OtherClonePushes

\* Reading again the paths that changed since the stamp makes the catalog and
\* the index those of HEAD.
LEMMA RefreshCatchesUp ==
  ASSUME TypeOK, DescribesStamp, call.live = TRUE, NEW paths, RefreshPaths(paths),
         \A p \in Path \ (unsettled \cup paths) : TreeOf(head)[p] = TreeOf(stamp)[p]
  PROVE  /\ stamp' = head
         /\ \A p \in Path \ unsettled' : cat'[p] = TreeOf(head)[p] /\ idx'[p] = TreeOf(head)[p]
<1>1. stamp' = head
  BY DEF RefreshPaths
<1>2. ASSUME NEW p \in Path \ unsettled'
      PROVE  cat'[p] = TreeOf(head)[p] /\ idx'[p] = TreeOf(head)[p]
  <2>1. CASE p \in paths
    BY <1>2, <2>1 DEF RefreshPaths, Overlay, Uncommitted
  <2>2. CASE p \notin paths
    <3>1. p \notin unsettled
      BY <1>2, <2>2 DEF RefreshPaths
    <3>2. cat[p] = TreeOf(head)[p] /\ idx[p] = TreeOf(head)[p]
      BY <1>2, <2>2, <3>1 DEF DescribesStamp
    <3> QED
      BY <1>2, <2>2, <3>2 DEF RefreshPaths, Overlay
  <2> QED
    BY <2>1, <2>2
<1> QED
  BY <1>1, <1>2

\* A call that re-indexes is over, or goes on to write or push.
LEMMA IndexedCall ==
  ASSUME TypeOK, call.live = TRUE, cancels = 0, cancels' = cancels,
         PullIndexes \/ MutateReturns \/ ResolveReturns \/ Reindexes
  PROVE  call'.pc \in {"idle", "write", "push", "repush"}
<1>1. CASE PullIndexes
  <2>1. call' = Idle \/ \E pc \in {"write", "push", "repush"} : Begin(call.kind, pc, call.live)
    BY <1>1 DEF PullIndexes, PullReturns
  <2> QED
    BY <2>1 DEF Begin, Idle
<1> QED
  BY <1>1 DEF MutateReturns, ResolveReturns, Reindexes, Idle

LEMMA StampStep ==
  ASSUME Inv, FrozenInv, [Next]_vars, cancels' = 0, LiveCalls, up, up', StagedOK, StampOK, DescribesStamp
  PROVE  StampOK' /\ DescribesStamp'
<1>0. cancels = 0 /\ cancels' = cancels /\ call.live = TRUE /\ call \in Call /\ TypeOK
  BY CancelsStep DEF Inv, LiveCalls, TypeOK, ServiceTypeOK, Call
<1>trees. \A c \in DOMAIN commits : commits'[c].tree = TreeOf(c)
  BY CommitsKept DEF TreeOf
<1>types. /\ head \in DOMAIN commits /\ NoCommit \notin DOMAIN commits
          /\ stamp \in DOMAIN commits
  BY <1>0 DEF TypeOK, GitTypeOK, DerivedTypeOK, NoCommit, StampOK
<1>1. ASSUME UNCHANGED gitVars, stamp' = head, call'.pc \in {"idle", "write", "push", "repush"},
             \A p \in Path \ unsettled' : cat'[p] = TreeOf(head)[p] /\ idx'[p] = TreeOf(head)[p]
      PROVE  StampOK' /\ DescribesStamp'
  BY <1>1, <1>types DEF gitVars, StampOK, DescribesStamp, TreeOf
<1>2. CASE PullIndexes \/ ResolveReturns
  <2>1. /\ call.pc = "index" /\ UNCHANGED gitVars /\ call'.pc \in {"idle", "write", "push", "repush"}
        /\ call.old = stamp
    BY <1>0, <1>2, IndexedCall DEF PullIndexes, ResolveReturns, StampOK
  <2>2. CASE RefreshPaths(Changed(call.old, head))
    <3>1. \A p \in Path \ (unsettled \cup Changed(call.old, head)) : TreeOf(head)[p] = TreeOf(stamp)[p]
      BY <2>1 DEF Changed
    <3>2. /\ stamp' = head
          /\ \A p \in Path \ unsettled' : cat'[p] = TreeOf(head)[p] /\ idx'[p] = TreeOf(head)[p]
      BY <1>0, <2>2, <3>1, RefreshCatchesUp
    <3> QED
      BY <1>1, <2>1, <3>2
  <2>3. CASE UNCHANGED derivedVars /\ call.old = head
    <3>1. /\ stamp' = head
          /\ \A p \in Path \ unsettled' : cat'[p] = TreeOf(head)[p] /\ idx'[p] = TreeOf(head)[p]
      BY <2>1, <2>3 DEF derivedVars, DescribesStamp
    <3> QED
      BY <1>1, <2>1, <3>1
  <2> QED
    BY <1>0, <1>2, <2>2, <2>3 DEF PullIndexes, ResolveReturns
<1>3. CASE MutateReturns
  <2>1. /\ call.pc = "refresh" /\ UNCHANGED gitVars /\ call'.pc \in {"idle", "write", "push", "repush"}
        /\ RefreshPaths(DOMAIN call.delta)
    BY <1>0, <1>3, IndexedCall DEF MutateReturns
  <2>2. \A p \in Path \ (unsettled \cup DOMAIN call.delta) : TreeOf(head)[p] = TreeOf(stamp)[p]
    BY <2>1 DEF StampOK
  <2>3. /\ stamp' = head
        /\ \A p \in Path \ unsettled' : cat'[p] = TreeOf(head)[p] /\ idx'[p] = TreeOf(head)[p]
    BY <1>0, <2>1, <2>2, RefreshCatchesUp
  <2> QED
    BY <1>1, <2>1, <2>3
<1>4. CASE Reindexes
  <2>1. UNCHANGED gitVars /\ (stamp' = head \/ cancels' = cancels + 1)
    BY <1>4 DEF Reindexes
  <2>2. call'.pc \in {"idle", "write", "push", "repush"}
    BY <1>0, <1>4, IndexedCall
  <2>3. stamp' = head
    BY <1>0, <2>1
  <2>4. \A p \in Path \ unsettled' : cat'[p] = TreeOf(head)[p] /\ idx'[p] = TreeOf(head)[p]
    BY <1>4 DEF Reindexes, Uncommitted
  <2> QED
    BY <1>1, <2>1, <2>2, <2>3, <2>4
<1>5. CASE UNCHANGED derivedVars
  <2>1. DescribesStamp'
    BY <1>5, <1>trees, <1>types DEF derivedVars, DescribesStamp, TreeOf
  <2>2. stamp' # NoCommit /\ stamp' = stamp
    BY <1>5, <1>types DEF derivedVars
  <2>3. CASE MergeFastForward \/ MergeClean
    <3>1. /\ call.pc = "merge" /\ MergeReturns(FALSE)
      BY <2>3 DEF MergeFastForward, MergeClean
    <3>2. call' = [call EXCEPT !.pc = "index"]
      BY <1>0, <3>1 DEF MergeReturns
    <3>3. call'.pc = "index" /\ call'.old = call.old
      BY <1>0, <3>2 DEF Call
    <3>4. call.old = stamp
      BY <3>1 DEF StampOK
    <3>5. StampOK'
      BY <2>2, <3>3, <3>4 DEF StampOK
    <3> QED
      BY <2>1, <3>5
  <2>4. CASE MutateCommits
    <3>1. call.pc = "commit" /\ call' = [call EXCEPT !.pc = "refresh"] /\ GitCommit("write")
      BY <1>0, <2>4 DEF MutateCommits
    <3>2. call'.pc = "refresh" /\ call'.delta = call.delta
      BY <1>0, <3>1 DEF Call
    <3>3. commits'[head'].tree = staged
      BY <1>0, <3>1, CommitHoldsIndex DEF Maker
    <3>4. stamp = head /\ mergeHead = NoCommit
      BY <1>0, <3>1 DEF StampOK, Inv, LiveMeansThawed
    <3>5. ASSUME NEW p \in Path \ (unsettled \cup DOMAIN call.delta)
          PROVE  commits'[head'].tree[p] = TreeOf(stamp)[p]
      BY <3>3, <3>4, <3>5 DEF StagedOK
    <3>6. StampOK'
      BY <1>5, <1>trees, <1>types, <2>2, <3>2, <3>5 DEF derivedVars, StampOK, TreeOf
    <3> QED
      BY <2>1, <3>6
  <2>5. CASE ResolveCommits
    <3>1. call.pc = "resolve" /\ call' = [call EXCEPT !.pc = "index", !.old = head]
      BY <1>0, <2>5 DEF ResolveCommits, AllApplied
    <3>2. call'.pc = "index" /\ call'.old = head /\ stamp = head
      BY <1>0, <3>1 DEF Call, StampOK
    <3>3. StampOK'
      BY <2>2, <3>2 DEF StampOK
    <3> QED
      BY <2>1, <3>3
  <2>6. CASE head' = head /\ call.pc \in {"index", "refresh"}
    <3>1. CASE UNCHANGED call
      BY <1>5, <1>trees, <1>types, <2>1, <2>6, <3>1 DEF derivedVars, StampOK, TreeOf
    <3> QED
      BY <1>0, <1>2, <1>3, <2>6, <3>1, IndexingMoves DEF Crashes
  <2>7. CASE head' = head /\ call.pc \notin {"index", "refresh"} /\ ~MutateCommits /\ ~ResolveCommits
    <3>1. stamp' = head'
      BY <2>2, <2>7 DEF StampOK
    <3>2. call'.pc = "refresh" => FALSE
      BY <2>7, CallMoves DEF Inv, CallRests, CallEnds, GivesUp, CallBegins, Resolves, Fetched, Merged,
         Written, Staged, Committed, Touched, Applied, Completed, Keeping, Idle
    <3>3. call'.pc = "merge" => call'.old = head
      BY <1>0, <2>7, CallMoves DEF Inv, CallRests, CallEnds, GivesUp, CallBegins, Resolves, Fetched, Merged,
         Written, Staged, Committed, Touched, Applied, Completed, Keeping, Idle, StampOK
    <3>4. call'.pc = "index" => call'.old = stamp
      <4>1. call'.pc = "index" => Merged
        BY <2>7, CallMoves DEF Inv, CallRests, CallEnds, GivesUp, CallBegins, Resolves, Fetched,
           Written, Staged, Committed, Touched, Applied, Completed, Keeping, Idle
      <4>2. Merged => call.pc = "merge" /\ call'.old = call.old
        BY DEF Merged, MergeNothing, MergeFastForward, MergeClean
      <4> QED
        BY <2>7, <4>1, <4>2 DEF StampOK
    <3>5. StampOK'
      BY <2>2, <2>7, <3>1, <3>2, <3>3, <3>4 DEF StampOK
    <3> QED
      BY <2>1, <3>5
  <2> QED
    BY <2>3, <2>4, <2>5, <2>6, <2>7, HeadMoves
<1> QED
  BY <1>2, <1>3, <1>4, <1>5, DerivedActions DEF Opens, OpenFails, Crashes

\* Documents written in part leave an index each document of which is as old as
\* the stamp or as new as HEAD.
LEMMA PartWritten ==
  ASSUME NEW paths, WritesSome(paths), UNCHANGED <<gitVars, stamp>>, stamp # NoCommit,
         \A p \in Path \ unsettled : idx[p] = TreeOf(stamp)[p] \/ idx[p] = TreeOf(head)[p]
  PROVE  DownOK'
<1>1. PICK done \in SUBSET paths :
        /\ idx' = Overlay(idx, [p \in done |-> work[p]])
        /\ unsettled' = unsettled \cup (Uncommitted \cap done)
  BY DEF WritesSome
<1>2. ASSUME NEW p \in Path \ unsettled'
      PROVE  idx'[p] = TreeOf(stamp)[p] \/ idx'[p] = TreeOf(head)[p]
  <2>1. CASE p \in done
    BY <1>1, <1>2, <2>1 DEF Overlay, Uncommitted
  <2>2. CASE p \notin done
    BY <1>1, <1>2, <2>2 DEF Overlay
  <2> QED
    BY <2>1, <2>2
<1> QED
  BY <1>2 DEF gitVars, DownOK, TreeOf

LEMMA CrashStep ==
  ASSUME StampOK, DescribesStamp, Crashes
  PROVE  DownOK'
BY PartWritten DEF Crashes, StampOK, DescribesStamp

LEMMA OpenFailsStep ==
  ASSUME DownOK, OpenFails
  PROVE  DownOK'
BY PartWritten DEF OpenFails, DownOK

\* Opening the index catches up with what changed since the stamp.
LEMMA OpenStep ==
  ASSUME Inv, FrozenInv, DownOK, Opens
  PROVE  StagedOK' /\ StampOK' /\ DescribesStamp'
<1>1. /\ UNCHANGED gitVars /\ UNCHANGED call /\ stamp' = head /\ cat' = work
      /\ idx' = Overlay(idx, CaughtUp) /\ unsettled' = unsettled \cup Uncommitted
  BY DEF Opens
<1>2. call'.pc = "idle"
  BY <1>1 DEF Opens, FrozenInv, DownIsIdle, Idle
<1>3. CaughtUp = [p \in Changed(stamp, head) |-> work[p]]
  BY DEF DownOK, CaughtUp
<1>4. ASSUME NEW p \in Path \ unsettled'
      PROVE  /\ cat'[p] = TreeOf(head)[p] /\ idx'[p] = TreeOf(head)[p]
             /\ staged[p] = TreeOf(head)[p]
  <2>1. work[p] = TreeOf(head)[p] /\ staged[p] = TreeOf(head)[p] /\ p \notin unsettled
    BY <1>1, <1>4 DEF Uncommitted
  <2>2. idx'[p] = TreeOf(head)[p]
    BY <1>1, <1>3, <1>4, <2>1 DEF Overlay, Changed, DownOK
  <2> QED
    BY <1>1, <2>1, <2>2
<1>5. head # NoCommit
  BY DEF Inv, TypeOK, GitTypeOK, NoCommit
<1>6. StagedOK'
  BY <1>1, <1>4 DEF gitVars, StagedOK, TreeOf
<1>7. DescribesStamp'
  BY <1>1, <1>4 DEF gitVars, DescribesStamp, TreeOf
<1>8. StampOK'
  BY <1>1, <1>2, <1>5 DEF gitVars, StampOK
<1> QED
  BY <1>6, <1>7, <1>8

\* While the process is down, other clones push and it fails to come up again.
LEMMA DownStep ==
  ASSUME Inv, FrozenInv, [Next]_vars, ~up, ~up', DownOK
  PROVE  DownOK'
<1>1. call.pc = "idle"
  BY DEF FrozenInv, DownIsIdle, Idle
<1>2. UNCHANGED derivedVars \/ OpenFails
  BY <1>1, DerivedActions DEF PullIndexes, MutateReturns, ResolveReturns, Opens, Reindexes, Crashes
<1>3. head' = head
  BY <1>1, HeadMoves DEF MergeFastForward, MergeClean, MutateCommits, ResolveCommits, AllApplied
<1>4. \A c \in DOMAIN commits : commits'[c].tree = TreeOf(c)
  BY CommitsKept DEF TreeOf
<1>5. head \in DOMAIN commits /\ stamp \in DOMAIN commits
  BY DEF Inv, TypeOK, GitTypeOK, DerivedTypeOK, DownOK
<1> QED
  BY <1>2, <1>3, <1>4, <1>5, OpenFailsStep DEF derivedVars, DownOK, TreeOf

LEMMA DerivedStep ==
  ASSUME Inv, FrozenInv, [Next]_vars, cancels' = 0, LiveCalls, DerivedOK
  PROVE  DerivedOK'
<1>1. call.live = TRUE
  BY DEF LiveCalls, Inv, TypeOK, ServiceTypeOK, Call
<1>2. CASE up /\ up'
  BY <1>2, StagedStep, StampStep DEF DerivedOK
<1>3. CASE up /\ ~up'
  BY <1>1, <1>3, UpMoves, CrashStep DEF DerivedOK, Opens
<1>4. CASE ~up /\ up'
  BY <1>4, UpMoves, OpenStep DEF DerivedOK, Crashes
<1>5. CASE ~up /\ ~up'
  BY <1>5, DownStep DEF DerivedOK
<1> QED
  BY <1>2, <1>3, <1>4, <1>5

LEMMA DerivedInit == Init => DerivedInv
<1> SUFFICES ASSUME Init PROVE StagedOK /\ StampOK /\ DescribesStamp /\ up = TRUE
  BY DEF DerivedInv, DerivedOK
<1>1. PICK t \in FirstTrees :
        /\ commits = <<[anc |-> {1}, tree |-> t, by |-> "clone"]>>
        /\ staged = t /\ cat = t /\ idx = t
  BY DEF Init
<1>2. TreeOf(1) = t /\ head = 1 /\ stamp = 1 /\ call.pc = "idle" /\ up = TRUE
  BY <1>1 DEF Init, TreeOf, Idle
<1> QED
  BY <1>1, <1>2 DEF StagedOK, StampOK, DescribesStamp, NoCommit

THEOREM DerivedInvCorrect == Spec => [](LiveInv /\ DerivedInv)
<1>1. Init => DerivedInv
  BY DerivedInit
<1>2. Inv /\ FrozenInv /\ LiveInv /\ DerivedInv /\ [Next]_vars => DerivedInv'
  <2> SUFFICES ASSUME Inv, FrozenInv, LiveInv, DerivedInv, [Next]_vars, cancels' = 0
               PROVE  DerivedOK'
    BY DEF DerivedInv
  <2>1. LiveCalls /\ DerivedOK
    BY CancelsStep DEF Inv, LiveInv, DerivedInv
  <2> QED
    BY <2>1, DerivedStep
<1> QED
  BY <1>1, <1>2, FrozenInvCorrect, LiveInvCorrect, PTL DEF Spec

(* As long as no request is cancelled, the index describes the revision it  *)
(* is stamped with -- through pulls, writes, resolutions, crashes in the    *)
(* middle of a batch of documents and the reopening after them.             *)
THEOREM IndexCorrect == Spec => [](cancels = 0 => IndexIsStamped)
<1>1. DerivedInv => (cancels = 0 => IndexIsStamped)
  BY DEF DerivedInv, DerivedOK, DescribesStamp, IndexIsStamped
<1> QED
  BY <1>1, DerivedInvCorrect, PTL

(* As long as no request is cancelled, the catalog and the index are those  *)
(* of HEAD whenever no call is in progress.                                 *)
THEOREM CatalogCorrect == Spec => [](cancels = 0 => DerivedFollowsHead)
<1>1. DerivedInv => (cancels = 0 => DerivedFollowsHead)
  BY DEF DerivedInv, DerivedOK, StampOK, DescribesStamp, DerivedFollowsHead, Idle
<1> QED
  BY <1>1, DerivedInvCorrect, PTL

=============================================================================
