------------------------------ MODULE VaultSync ------------------------------
(***************************************************************************)
(* One vault of the knowledge-base server: the Service of internal/kb over *)
(* its private Git clone, the remote it shares with other clones, the      *)
(* in-memory catalog and the on-disk full-text index.                      *)
(*                                                                         *)
(* Every write, pull, push and resolution holds the mutex s.mu, so at most *)
(* one call is in progress; it advances one Git command (or one index      *)
(* update) at a time.  Between two of its steps other clones may push, the *)
(* client may cancel its request, the network may fail and the process may *)
(* die.                                                                    *)
(***************************************************************************)
EXTENDS Naturals, Sequences, FiniteSets

CONSTANTS
  Path,             \* vault-relative paths
  Content,          \* what a client or another clone may store in a file
  WithMarkers,      \* those of them in which a line looks like a conflict marker
  Absent,           \* no file at the path
  Marked,           \* a file as git merge leaves it on a conflict, both sides in it
  FirstTrees,       \* bound: what the remote holds when it is cloned
  MaxWrites,        \* bound: commits made by write tools
  MaxEdits,         \* bound: commits pushed by other clones
  MaxCancels,       \* bound: requests cancelled by the client
  MaxCrashes,       \* bound: crashes of the server process
  EmptyResolution   \* may kb_resolve_conflict be called with no resolution?

ASSUME SentinelAssumption ==
  /\ Absent \notin Content
  /\ Marked \notin Content
  /\ Absent # Marked
  /\ WithMarkers \subseteq Content

ASSUME BoundAssumption ==
  /\ FirstTrees \subseteq [Path -> Content \cup {Absent}]
  /\ MaxWrites \in Nat
  /\ MaxEdits \in Nat
  /\ MaxCancels \in Nat
  /\ MaxCrashes \in Nat
  /\ EmptyResolution \in BOOLEAN

File == Content \cup {Absent, Marked}
Tree == [Path -> File]

HasMarkers(file) == file \in WithMarkers \cup {Marked}

NoCommit == 0

VARIABLES
  (* Git, on disk and on the remote host *)
  commits,        \* every commit ever made: its ancestors, its tree, its maker
  head,           \* HEAD of the clone
  tracking,       \* refs/remotes/origin/<branch> of the clone
  remote,         \* the branch on the remote host
  mergeHead,      \* MERGE_HEAD, or NoCommit
  unmerged,       \* paths with index stages 1..3
  staged,         \* the Git index, stage 0
  work,           \* the work tree
  (* derived data *)
  cat,            \* search.Catalog, in memory: what each path was when last read
  idx,            \* the Bleve index, on disk: the document stored for each path
  stamp,          \* Stamp.Revision of the index, NoCommit when empty
  (* the service *)
  up,             \* is the process running?
  state,          \* Service.state: ok, offline, conflict
  fresh,          \* has a pull succeeded, so that lastPull may be recent?
  pushRequested,  \* the one-slot channel that wakes pushLoop
  pusher,         \* pushLoop: waiting on the channel, or due to push
  retrying,       \* a retry goroutine sleeps and will request a push
  call,           \* the call that holds s.mu
  (* history *)
  acked,          \* commits whose hash a client has received
  unsettled,      \* paths last read from disk while git status showed them
  cancels,        \* cancelled requests so far
  crashes         \* crashes so far

gitVars     == <<commits, head, tracking, remote, mergeHead, unmerged, staged, work>>
derivedVars == <<cat, idx, stamp, unsettled>>
loopVars    == <<pushRequested, pusher, retrying>>
faultVars   == <<cancels, crashes>>
vars        == <<gitVars, derivedVars, loopVars, faultVars, up, state, fresh, call, acked>>

-----------------------------------------------------------------------------
(* Commits.  A commit carries the set of its ancestors, itself included.    *)

Maker == {"clone", "write", "merge", "edit"}

Anc(c)    == commits[c].anc
TreeOf(c) == commits[c].tree
MadeBy(m) == {c \in DOMAIN commits : commits[c].by = m}
Changed_NotDeleted(c, d) == {p \in Path : TreeOf(c)[p] # TreeOf(d)[p] /\ TreeOf(d)[p] # Absent}
Changed(c, d) == {p \in Path : TreeOf(c)[p] # TreeOf(d)[p]}

New == Len(commits) + 1

AddCommit(ancestors, tree, maker) ==
  commits' = Append(commits, [anc |-> ancestors \cup {New}, tree |-> tree, by |-> maker])

\* f with the entries of g in place of its own.
Overlay(f, g) == [p \in Path |-> IF p \in DOMAIN g THEN g[p] ELSE f[p]]

(* The call that holds s.mu: which entry point, its next step, whether its  *)
(* context is still live, HEAD before its merge, and the changes it makes.  *)
NoChange == [p \in {} |-> Absent]
Idle == [kind |-> "none", pc |-> "idle", live |-> TRUE, old |-> NoCommit, delta |-> NoChange]

Begin(kind, pc, live) ==
  call' = [kind |-> kind, pc |-> pc, live |-> live, old |-> NoCommit, delta |-> NoChange]

\* Calls that run under the context of a client's request.
ClientCall == call.kind \in {"mutate", "sync", "resync", "resolve"}
MayCancel  == ClientCall /\ call.live /\ cancels < MaxCancels

-----------------------------------------------------------------------------
Init ==
  /\ \E t \in FirstTrees :
       /\ commits = <<[anc |-> {1}, tree |-> t, by |-> "clone"]>>
       /\ staged = t /\ work = t /\ cat = t /\ idx = t
  /\ head = 1 /\ tracking = 1 /\ remote = 1 /\ stamp = 1
  /\ mergeHead = NoCommit /\ unmerged = {}
  /\ up = TRUE /\ state = "ok" /\ fresh = FALSE
  /\ pushRequested = FALSE /\ pusher = "waiting" /\ retrying = FALSE
  /\ call = Idle
  /\ acked = {} /\ unsettled = {}
  /\ cancels = 0 /\ crashes = 0

-----------------------------------------------------------------------------
(* pull: fetch, merge, re-index.  It runs inside a write (pullIfStale), a   *)
(* kb_sync_now, a rejected push or the periodic pull; what happens after it *)
(* returns depends on which.                                                *)

PullReturns_PullPushes(outcome, live) ==
  LET next == CASE call.kind = "mutate" /\ outcome # "conflict" -> "write"
                [] call.kind \in {"sync", "pull"} /\ outcome = "ok" -> "push"
                [] call.kind \in {"push", "resync"} /\ outcome = "ok" -> "repush"
                [] OTHER                                        -> "idle"
  IN /\ IF next = "idle" THEN call' = Idle ELSE Begin(call.kind, next, live)
     /\ retrying' = (retrying \/ (call.kind = "push" /\ outcome = "error"))
     /\ UNCHANGED <<pushRequested, pusher>>
PullReturns(outcome, live) ==
  LET next == CASE call.kind = "mutate" /\ outcome # "conflict" -> "write"
                [] call.kind = "sync"   /\ outcome = "ok"       -> "push"
                [] call.kind \in {"push", "resync"} /\ outcome = "ok" -> "repush"
                [] OTHER                                        -> "idle"
  IN /\ IF next = "idle" THEN call' = Idle ELSE Begin(call.kind, next, live)
     /\ pushRequested' = (pushRequested \/ call.kind = "pull")
     /\ retrying' = (retrying \/ (call.kind = "push" /\ outcome = "error"))
     /\ UNCHANGED pusher

FetchOk ==
  /\ call.pc = "fetch" /\ call.live
  /\ tracking' = remote
  /\ call' = [call EXCEPT !.pc = "merge", !.old = head]
  /\ UNCHANGED <<commits, head, remote, mergeHead, unmerged, staged, work>>
  /\ UNCHANGED <<derivedVars, loopVars, faultVars, up, state, fresh, acked>>

\* The remote cannot be reached, or the request was cancelled.
FetchFails ==
  /\ call.pc = "fetch"
  /\ state' = "offline"
  /\ PullReturns("error", call.live)
  /\ UNCHANGED <<gitVars, derivedVars, faultVars, up, fresh, acked>>

(* git merge origin/<branch>.                                               *)
Ahead    == Anc(head) \ Anc(tracking)
UpToDate == tracking \in Anc(head)
Behind_EvenIfDiverged == ~UpToDate
Behind   == ~UpToDate /\ head \in Anc(tracking)
Diverged == ~UpToDate /\ head \notin Anc(tracking)

MergeBase ==
  LET common == Anc(head) \cap Anc(tracking)
  IN CHOOSE c \in common : common \subseteq Anc(c)

Base(p)   == TreeOf(MergeBase)[p]
Ours(p)   == TreeOf(head)[p]
Theirs(p) == TreeOf(tracking)[p]
BothChanged == {p \in Path : /\ Ours(p) # Theirs(p)
                             /\ Ours(p) # Base(p)
                             /\ Theirs(p) # Base(p)}
OneSide(p)  == IF Ours(p) = Base(p) THEN Theirs(p) ELSE Ours(p)

\* Files changed on both sides may still merge line by line, into lines[p], with
\* lines of the two sides; where they do not, git leaves the side that still has
\* the file, or marks both.
LineMerges(paths) ==
  {lines \in [paths -> Content] :
     \A p \in paths : HasMarkers(lines[p]) => HasMarkers(Ours(p)) \/ HasMarkers(Theirs(p))}
MergedFile(p, lines) == IF p \in BothChanged THEN lines[p] ELSE OneSide(p)
ConflictedFile(p, stuck, lines) ==
  CASE p \notin stuck     -> MergedFile(p, lines)
    [] Ours(p) = Absent   -> Theirs(p)
    [] Theirs(p) = Absent -> Ours(p)
    [] OTHER              -> Marked

\* A merge will not overwrite a file that differs from the Git index, but it
\* writes over one that is merely missing.
Dirty(p) == work[p] # staged[p] /\ work[p] # Absent

FastForwardBlocked ==
  \E p \in Changed(head, tracking) :
    staged[p] # Theirs(p) /\ (staged[p] # Ours(p) \/ Dirty(p))

TrueMergeBlocked_Always == TRUE
TrueMergeBlocked ==
  \/ staged # TreeOf(head)
  \/ \E p \in Path : /\ Dirty(p)
                     /\ p \in BothChanged \/ OneSide(p) # Ours(p)

\* The client may cancel while git runs: the command took effect, but the
\* service sees a failure and finds no merge in progress either, because that
\* check runs under the same cancelled context.
MergeReturns(conflicted) ==
  \/ /\ IF conflicted
        THEN state' = "conflict" /\ PullReturns("conflict", call.live)
        ELSE call' = [call EXCEPT !.pc = "index"] /\ UNCHANGED <<state, loopVars>>
     /\ UNCHANGED faultVars
  \/ /\ MayCancel
     /\ cancels' = cancels + 1
     /\ state' = "offline"
     /\ PullReturns("error", FALSE)
     /\ UNCHANGED crashes

MergeNothing ==
  /\ call.pc = "merge" /\ call.live
  /\ UpToDate
  /\ call' = [call EXCEPT !.pc = "index"]
  /\ UNCHANGED <<gitVars, derivedVars, loopVars, faultVars, up, state, fresh, acked>>

MergeFastForward ==
  /\ call.pc = "merge" /\ call.live
  /\ Behind /\ ~FastForwardBlocked
  /\ head' = tracking
  /\ LET moved == [p \in {q \in Changed(head, tracking) : staged[q] # Theirs(q)} |-> Theirs(p)]
     IN staged' = Overlay(staged, moved) /\ work' = Overlay(work, moved)
  /\ MergeReturns(FALSE)
  /\ UNCHANGED <<commits, tracking, remote, mergeHead, unmerged, derivedVars, up, fresh, acked>>

\* A file deleted on one side and modified on the other never merges cleanly.
MergeClean ==
  /\ call.pc = "merge" /\ call.live
  /\ Diverged /\ ~TrueMergeBlocked
  /\ \A p \in BothChanged : Ours(p) # Absent /\ Theirs(p) # Absent
  /\ \E lines \in LineMerges(BothChanged) :
       LET merged == [p \in Path |-> MergedFile(p, lines)]
           moved  == [p \in {q \in Path : merged[q] # Ours(q)} |-> merged[p]]
       IN /\ AddCommit(Anc(head) \cup Anc(tracking), merged, "merge")
          /\ staged' = merged
          /\ work' = Overlay(work, moved)
  /\ head' = New
  /\ MergeReturns(FALSE)
  /\ UNCHANGED <<tracking, remote, mergeHead, unmerged, derivedVars, up, fresh, acked>>

MergeConflicts ==
  /\ call.pc = "merge" /\ call.live
  /\ Diverged /\ ~TrueMergeBlocked
  /\ \E stuck \in (SUBSET BothChanged) \ {{}} : \E lines \in LineMerges(BothChanged \ stuck) :
       /\ \A p \in BothChanged \ stuck : Ours(p) # Absent /\ Theirs(p) # Absent
       /\ LET moved == [p \in {q \in Path : q \in stuck \/ ConflictedFile(q, stuck, lines) # Ours(q)}
                          |-> ConflictedFile(p, stuck, lines)]
          IN work' = Overlay(work, moved)
       /\ staged' = [p \in Path |-> IF p \in stuck THEN Ours(p) ELSE MergedFile(p, lines)]
       /\ unmerged' = stuck
  /\ mergeHead' = tracking
  /\ MergeReturns(TRUE)
  /\ UNCHANGED <<commits, head, tracking, remote, derivedVars, up, fresh, acked>>

\* git refuses (local changes in the way), or never starts (cancelled).
MergeFails ==
  /\ call.pc = "merge"
  /\ \/ ~call.live
     \/ Behind /\ FastForwardBlocked
     \/ Diverged /\ TrueMergeBlocked
  /\ state' = "offline"
  /\ PullReturns("error", call.live)
  /\ UNCHANGED <<gitVars, derivedVars, faultVars, up, fresh, acked>>

(* refreshPaths: read the paths from disk again, then stamp the index with  *)
(* HEAD -- with the empty revision when HEAD cannot be read any more.  What *)
(* a kill left staged may be committed later without being read again.      *)
Uncommitted == {p \in Path : work[p] # TreeOf(head)[p] \/ staged[p] # TreeOf(head)[p]}

RefreshPaths_NoStamp(paths) ==
  LET read == [p \in paths |-> work[p]]
  IN /\ cat' = Overlay(cat, read)
     /\ idx' = Overlay(idx, read)
     /\ unsettled' = (unsettled \ paths) \cup (Uncommitted \cap paths)
     /\ UNCHANGED stamp
RefreshPaths(paths) ==
  LET read == [p \in paths |-> work[p]]
  IN /\ cat' = Overlay(cat, read)
     /\ idx' = Overlay(idx, read)
     /\ stamp' = IF call.live THEN head ELSE NoCommit
     /\ unsettled' = (unsettled \ paths) \cup (Uncommitted \cap paths)

PullIndexes ==
  /\ call.pc = "index" /\ call.kind # "resolve"
  /\ IF call.old # head THEN RefreshPaths(Changed(call.old, head)) ELSE UNCHANGED derivedVars
  /\ fresh' = TRUE
  /\ state' = "ok"
  /\ PullReturns("ok", call.live)
  /\ UNCHANGED <<gitVars, faultVars, up, acked>>

\* The diff needs the context, so a cancelled pull returns before it re-indexes.
PullIndexFails ==
  /\ call.pc = "index" /\ call.kind # "resolve" /\ ~call.live
  /\ PullReturns("error", FALSE)
  /\ UNCHANGED <<gitVars, derivedVars, faultVars, up, state, fresh, acked>>

-----------------------------------------------------------------------------
(* mutate: the transaction of every write tool.                             *)

\* The write tools, as the files they leave in the work tree: create, replace,
\* patch, restore and upload put one file; delete removes one; move renames one.
Put(p, c) == [q \in {p} |-> c]
Move(from, to) == [q \in {from, to} |-> IF q = from THEN Absent ELSE work[from]]
Present == {p \in Path : work[p] # Absent}

Requests ==
  {Put(p, c) : p \in Path, c \in Content}
    \cup {Put(p, Absent) : p \in Present}
    \cup {Move(from, to) : from \in Present, to \in Path \ Present}

\* pullIfStale skips the pull while the last one is within the freshness window.
\* With a cancelled context MergeInProgress cannot run git and answers "no".
MutateBegins ==
  /\ up /\ call = Idle
  /\ Cardinality(MadeBy("write")) < MaxWrites
  /\ \E live \in BOOLEAN :
       /\ mergeHead = NoCommit \/ ~live
       /\ ~live => cancels < MaxCancels
       /\ cancels' = IF live THEN cancels ELSE cancels + 1
       /\ \/ Begin("mutate", "fetch", live)
          \/ fresh /\ Begin("mutate", "write", live)
  /\ UNCHANGED <<gitVars, derivedVars, loopVars, crashes, up, state, fresh, acked>>

MutateWrites ==
  /\ call.pc = "write"
  /\ \E d \in Requests :
       /\ work' = Overlay(work, d)
       /\ call' = [call EXCEPT !.pc = "stage", !.delta = d]
  /\ UNCHANGED <<commits, head, tracking, remote, mergeHead, unmerged, staged>>
  /\ UNCHANGED <<derivedVars, loopVars, faultVars, up, state, fresh, acked>>

\* fn rejects the request: stale etag, already_exists, not_found, patch_failed.
MutateRejects ==
  /\ call.pc = "write"
  /\ call' = Idle
  /\ UNCHANGED <<gitVars, derivedVars, loopVars, faultVars, up, state, fresh, acked>>

\* git add -A -- paths: fails as a whole when a path names nothing.
Stageable == \A p \in DOMAIN call.delta : work[p] # Absent \/ staged[p] # Absent

MutateStages ==
  /\ call.pc = "stage" /\ call.live /\ Stageable
  /\ staged' = [p \in Path |-> IF p \in DOMAIN call.delta THEN work[p] ELSE staged[p]]
  /\ unmerged' = unmerged \ DOMAIN call.delta
  /\ call' = [call EXCEPT !.pc = "commit"]
  /\ UNCHANGED <<commits, head, tracking, remote, mergeHead, work>>
  /\ UNCHANGED <<derivedVars, loopVars, faultVars, up, state, fresh, acked>>

MutateStageFails ==
  /\ call.pc = "stage" /\ (~call.live \/ ~Stageable)
  /\ call' = Idle
  /\ UNCHANGED <<gitVars, derivedVars, loopVars, faultVars, up, state, fresh, acked>>

\* git commit: the whole index becomes a commit on HEAD (and MERGE_HEAD).
Committable_Unmerged == mergeHead # NoCommit \/ staged # TreeOf(head)
Committable == unmerged = {} /\ (mergeHead # NoCommit \/ staged # TreeOf(head))

GitCommit(maker) ==
  /\ Committable
  /\ AddCommit(Anc(head) \cup (IF mergeHead = NoCommit THEN {} ELSE Anc(mergeHead)), staged, maker)
  /\ head' = New
  /\ mergeHead' = NoCommit
  /\ UNCHANGED <<tracking, remote, unmerged, staged, work>>

MutateCommits ==
  /\ call.pc = "commit" /\ call.live
  /\ GitCommit("write")
  /\ \/ call' = [call EXCEPT !.pc = "refresh"] /\ UNCHANGED cancels
     \/ MayCancel /\ cancels' = cancels + 1 /\ call' = Idle   \* done, but reported as failed
  /\ UNCHANGED <<derivedVars, loopVars, crashes, up, state, fresh, acked>>

\* Nothing to commit, or cancelled: what was written and staged stays.
MutateCommitFails ==
  /\ call.pc = "commit" /\ (~call.live \/ ~Committable)
  /\ call' = Idle
  /\ UNCHANGED <<gitVars, derivedVars, loopVars, faultVars, up, state, fresh, acked>>

MutateReturns ==
  /\ call.pc = "refresh"
  /\ RefreshPaths(DOMAIN call.delta)
  /\ acked' = IF call.live THEN acked \cup {head} ELSE acked
  /\ pushRequested' = TRUE
  /\ call' = Idle
  /\ UNCHANGED <<gitVars, pusher, retrying, faultVars, up, state, fresh>>

-----------------------------------------------------------------------------
(* push and its loop.                                                       *)

PushLoopWakes_Drops ==
  /\ up /\ pusher = "waiting" /\ pushRequested
  /\ pushRequested' = FALSE
  /\ UNCHANGED <<gitVars, derivedVars, pusher, retrying, faultVars, up, state, fresh, call, acked>>

PushLoopWakes ==
  /\ up /\ pusher = "waiting" /\ pushRequested
  /\ pushRequested' = FALSE
  /\ pusher' = "due"
  /\ UNCHANGED <<gitVars, derivedVars, retrying, faultVars, up, state, fresh, call, acked>>

PushBegins ==
  /\ up /\ call = Idle /\ pusher = "due"
  /\ pusher' = "waiting"
  /\ IF mergeHead # NoCommit THEN UNCHANGED call ELSE Begin("push", "push", TRUE)
  /\ UNCHANGED <<gitVars, derivedVars, pushRequested, retrying, faultVars, up, state, fresh, acked>>

PushNotNeeded ==
  /\ call.pc = "push" /\ call.live /\ Ahead = {}
  /\ call' = Idle
  /\ UNCHANGED <<gitVars, derivedVars, loopVars, faultVars, up, state, fresh, acked>>

Pushing == call.pc = "repush" \/ (call.pc = "push" /\ (~call.live \/ Ahead # {}))
FastForwardsRemote_Force == TRUE
FastForwardsRemote == remote \in Anc(head)

PushOk ==
  /\ Pushing /\ call.live /\ FastForwardsRemote
  /\ remote' = head
  /\ tracking' = head
  /\ state' = IF state = "offline" THEN "ok" ELSE state
  /\ call' = Idle
  /\ UNCHANGED <<commits, head, mergeHead, unmerged, staged, work>>
  /\ UNCHANGED <<derivedVars, loopVars, faultVars, up, fresh, acked>>

\* The remote moved on: pull, then push once more.
PushRejected ==
  /\ Pushing /\ call.pc = "push" /\ call.live /\ ~FastForwardsRemote
  /\ Begin(IF call.kind = "sync" THEN "resync" ELSE call.kind, "fetch", TRUE)
  /\ UNCHANGED <<gitVars, derivedVars, loopVars, faultVars, up, state, fresh, acked>>

\* An unreachable remote, a second rejection, a cancelled request -- or a push
\* that reached the remote although its answer was lost.
PushFails ==
  /\ Pushing
  /\ \/ UNCHANGED remote
     \/ call.live /\ FastForwardsRemote /\ remote' = head
  /\ state' = "offline"
  /\ retrying' = (retrying \/ call.kind = "push")
  /\ call' = Idle
  /\ UNCHANGED <<commits, head, tracking, mergeHead, unmerged, staged, work>>
  /\ UNCHANGED <<derivedVars, pushRequested, pusher, faultVars, up, fresh, acked>>

RetryFires ==
  /\ up /\ retrying
  /\ retrying' = FALSE
  /\ pushRequested' = TRUE
  /\ UNCHANGED <<gitVars, derivedVars, pusher, faultVars, up, state, fresh, call, acked>>

\* The ticker of pullLoop, and the initial pull that Start launches.
PullTicks ==
  /\ up /\ call = Idle
  /\ IF mergeHead # NoCommit
     THEN /\ state' = "conflict" /\ pushRequested' = TRUE
          /\ UNCHANGED call
     ELSE /\ Begin("pull", "fetch", TRUE)
          /\ UNCHANGED <<state, pushRequested>>
  /\ UNCHANGED <<gitVars, derivedVars, pusher, retrying, faultVars, up, fresh, acked>>

\* kb_sync_now.
SyncBegins ==
  /\ up /\ call = Idle /\ mergeHead = NoCommit
  /\ Begin("sync", "fetch", TRUE)
  /\ UNCHANGED <<gitVars, derivedVars, loopVars, faultVars, up, state, fresh, acked>>

-----------------------------------------------------------------------------
(* ResolveConflict.                                                         *)

\* delete, take ours, take theirs, or marker-free content.
Resolutions_Markers(p) == Content \cup {Absent, TreeOf(head)[p], TreeOf(mergeHead)[p]}
Resolutions(p) == (Content \ WithMarkers) \cup {Absent, TreeOf(head)[p], TreeOf(mergeHead)[p]}

ResolveBegins ==
  /\ up /\ call = Idle /\ mergeHead # NoCommit
  /\ \E paths \in SUBSET unmerged :
       /\ paths # {} \/ EmptyResolution
       /\ \E d \in [paths -> UNION {Resolutions(p) : p \in paths}] :
            /\ \A p \in paths : d[p] \in Resolutions(p)
            /\ call' = [Idle EXCEPT !.kind = "resolve", !.pc = "resolve", !.delta = d]
  /\ UNCHANGED <<gitVars, derivedVars, loopVars, faultVars, up, state, fresh, acked>>

Without(f, p) == [q \in DOMAIN f \ {p} |-> f[q]]

\* Each resolution puts its file into the work tree ...
ResolveWrites ==
  /\ call.pc = "resolve"
  /\ \E p \in DOMAIN call.delta : work' = [work EXCEPT ![p] = call.delta[p]]
  /\ call' = [call EXCEPT !.pc = "add"]
  /\ UNCHANGED <<commits, head, tracking, remote, mergeHead, unmerged, staged>>
  /\ UNCHANGED <<derivedVars, loopVars, faultVars, up, state, fresh, acked>>

\* ... and git add takes it from there.
ResolveStages ==
  /\ call.pc = "add" /\ call.live
  /\ \E p \in DOMAIN call.delta :
       /\ work[p] = call.delta[p]
       /\ staged' = [staged EXCEPT ![p] = work[p]]
       /\ unmerged' = unmerged \ {p}
       /\ call' = [call EXCEPT !.pc = "resolve", !.delta = Without(@, p)]
  /\ UNCHANGED <<commits, head, tracking, remote, mergeHead, work>>
  /\ UNCHANGED <<derivedVars, loopVars, faultVars, up, state, fresh, acked>>

\* Cancelled: the file may be written, but it is not staged.
ResolveFails ==
  /\ call.pc \in {"resolve", "add"} /\ ~call.live
  /\ DOMAIN call.delta # {}
  /\ call' = Idle
  /\ UNCHANGED <<gitVars, derivedVars, loopVars, faultVars, up, state, fresh, acked>>

AllApplied == call.pc = "resolve" /\ DOMAIN call.delta = {}

ResolveRemains ==
  /\ AllApplied /\ unmerged # {}
  /\ call' = Idle
  /\ UNCHANGED <<gitVars, derivedVars, loopVars, faultVars, up, state, fresh, acked>>

ResolveCommits ==
  /\ AllApplied /\ call.live
  /\ GitCommit("merge")
  /\ \/ call' = [call EXCEPT !.pc = "index", !.old = head] /\ UNCHANGED cancels
     \/ MayCancel /\ cancels' = cancels + 1 /\ call' = Idle   \* done, but reported as failed
  /\ UNCHANGED <<derivedVars, loopVars, crashes, up, state, fresh, acked>>

ResolveCommitFails ==
  /\ AllApplied /\ unmerged = {} /\ ~call.live
  /\ call' = Idle
  /\ UNCHANGED <<gitVars, derivedVars, loopVars, faultVars, up, state, fresh, acked>>

\* The error of the diff is dropped: a cancelled call may re-index nothing.
ResolveReturns ==
  /\ call.pc = "index" /\ call.kind = "resolve"
  /\ \/ RefreshPaths(Changed(call.old, head))
     \/ ~call.live /\ RefreshPaths({})
  /\ acked' = IF call.live THEN acked \cup {head} ELSE acked
  /\ fresh' = TRUE
  /\ state' = "ok"
  /\ pushRequested' = TRUE
  /\ call' = Idle
  /\ UNCHANGED <<gitVars, pusher, retrying, faultVars, up>>

-----------------------------------------------------------------------------
(* The process, its clients and the other clones.                           *)

\* openIndex: the catalog is a scan of the work tree; the index is kept, caught
\* up by the diff since its stamp, or -- unstamped -- filled without a reset.
CaughtUp ==
  IF stamp # NoCommit THEN [p \in Changed(stamp, head) |-> work[p]]
  ELSE [p \in Present |-> work[p]]

StateOnOpen_Ok == "ok"
StateOnOpen == IF mergeHead = NoCommit THEN "ok" ELSE "conflict"

Opens ==
  /\ ~up
  /\ up' = TRUE
  /\ state' = StateOnOpen
  /\ cat' = work
  /\ idx' = Overlay(idx, CaughtUp)
  /\ stamp' = head
  /\ unsettled' = unsettled \cup Uncommitted
  /\ UNCHANGED <<gitVars, loopVars, faultVars, fresh, call, acked>>

\* Documents are written one after the other: what cuts that short -- a failure
\* or a kill -- leaves an index, which is on disk, with some of them.
WritesSome(paths) ==
  \E done \in SUBSET paths :
    /\ idx' = Overlay(idx, [p \in done |-> work[p]])
    /\ unsettled' = unsettled \cup (Uncommitted \cap done)

\* The index is not stamped, and the service does not come up.
OpenFails ==
  /\ ~up
  /\ WritesSome(DOMAIN CaughtUp)
  /\ UNCHANGED <<gitVars, cat, stamp, loopVars, faultVars, up, state, fresh, call, acked>>

\* kb_reindex: the same with a fresh index; a cancelled one cannot read HEAD.
Reindexes ==
  /\ up /\ call = Idle
  /\ cat' = work
  /\ idx' = work
  /\ \/ stamp' = head /\ UNCHANGED cancels
     \/ stamp' = NoCommit /\ cancels < MaxCancels /\ cancels' = cancels + 1
  /\ unsettled' = Uncommitted
  /\ UNCHANGED <<gitVars, loopVars, crashes, up, state, fresh, call, acked>>

\* The documents a call is about to write to the index, one after the other.
Refreshing ==
  CASE call.pc = "refresh" -> DOMAIN call.delta
    [] call.pc = "index"   -> Changed(call.old, head)
    [] OTHER               -> {}

Crashes ==
  /\ up /\ crashes < MaxCrashes
  /\ crashes' = crashes + 1
  /\ WritesSome(Refreshing)
  /\ up' = FALSE
  /\ call' = Idle
  /\ fresh' = FALSE
  /\ pushRequested' = FALSE /\ pusher' = "waiting" /\ retrying' = FALSE
  /\ UNCHANGED <<gitVars, cat, stamp, cancels, state, acked>>

\* The client gives up on a request it is waiting for.
Cancels ==
  /\ MayCancel
  /\ cancels' = cancels + 1
  /\ call' = [call EXCEPT !.live = FALSE]
  /\ UNCHANGED <<gitVars, derivedVars, loopVars, crashes, up, state, fresh, acked>>

\* Another clone pushes one commit; the remote only accepts fast-forwards.
OtherClonePushes ==
  /\ Cardinality(MadeBy("edit")) < MaxEdits
  /\ \E t \in [Path -> Content \cup {Absent}] :
       /\ t # TreeOf(remote)
       /\ AddCommit(Anc(remote), t, "edit")
  /\ remote' = New
  /\ UNCHANGED <<head, tracking, mergeHead, unmerged, staged, work>>
  /\ UNCHANGED <<derivedVars, loopVars, faultVars, up, state, fresh, call, acked>>

PullStep ==
  \/ FetchOk \/ FetchFails
  \/ MergeNothing \/ MergeFastForward \/ MergeClean \/ MergeConflicts \/ MergeFails
  \/ PullIndexes \/ PullIndexFails

MutateStep ==
  \/ MutateWrites \/ MutateRejects
  \/ MutateStages \/ MutateStageFails
  \/ MutateCommits \/ MutateCommitFails
  \/ MutateReturns

PushStep == PushNotNeeded \/ PushOk \/ PushRejected \/ PushFails

ResolveStep ==
  \/ ResolveWrites \/ ResolveStages \/ ResolveFails \/ ResolveRemains
  \/ ResolveCommits \/ ResolveCommitFails \/ ResolveReturns

CallStep == PullStep \/ MutateStep \/ PushStep \/ ResolveStep

Next ==
  \/ CallStep
  \/ MutateBegins \/ SyncBegins \/ PullTicks \/ PushBegins \/ ResolveBegins \/ Reindexes
  \/ PushLoopWakes \/ RetryFires
  \/ Opens \/ OpenFails \/ Crashes \/ Cancels \/ OtherClonePushes

Spec == Init /\ [][Next]_vars

\* A call in progress runs on; the mutex is fair to the background loops; the
\* ticker, the retry timer and the supervisor that restarts the process do not
\* stop; the remote does not stay unreachable for ever.
Fairness ==
  /\ WF_vars(CallStep)
  /\ SF_vars(FetchOk) /\ SF_vars(PushOk)
  /\ SF_vars(PullTicks) /\ SF_vars(PushBegins)
  /\ WF_vars(PushLoopWakes) /\ WF_vars(RetryFires) /\ WF_vars(Opens)

FairSpec == Spec /\ Fairness

-----------------------------------------------------------------------------
Commit == [anc : SUBSET Nat, tree : Tree, by : Maker]

Delta == UNION {[paths -> File] : paths \in SUBSET Path}

\* The steps each kind of call may be in.
Pulling == {"fetch", "merge", "index"}
Steps == [none    |-> {"idle"},
          mutate  |-> Pulling \cup {"write", "stage", "commit", "refresh"},
          sync    |-> Pulling \cup {"push"},
          resync  |-> Pulling \cup {"repush"},
          push    |-> Pulling \cup {"push", "repush"},
          pull    |-> Pulling,
          resolve |-> {"resolve", "add", "index"}]

Call == [kind : {"none", "mutate", "sync", "resync", "push", "pull", "resolve"},
         pc : {"idle", "fetch", "merge", "index", "write", "stage", "commit", "refresh",
               "push", "repush", "resolve", "add"},
         live : BOOLEAN,
         old : Nat,
         delta : Delta]

GitTypeOK ==
  /\ commits \in Seq(Commit)
  /\ head \in DOMAIN commits /\ tracking \in DOMAIN commits /\ remote \in DOMAIN commits
  /\ mergeHead \in DOMAIN commits \cup {NoCommit}
  /\ unmerged \in SUBSET Path
  /\ staged \in Tree /\ work \in Tree

DerivedTypeOK ==
  /\ cat \in Tree /\ idx \in Tree
  /\ stamp \in DOMAIN commits \cup {NoCommit}
  /\ unsettled \in SUBSET Path

ServiceTypeOK ==
  /\ up \in BOOLEAN /\ fresh \in BOOLEAN /\ pushRequested \in BOOLEAN /\ retrying \in BOOLEAN
  /\ state \in {"ok", "offline", "conflict"}
  /\ pusher \in {"waiting", "due"}
  /\ call \in Call
  /\ cancels \in 0..MaxCancels /\ crashes \in 0..MaxCrashes

\* What the calls and the clients remember of the history.
ReferencesOK ==
  /\ call.old \in DOMAIN commits \cup {NoCommit}
  /\ acked \subseteq DOMAIN commits

\* A call takes the steps of its kind only, and no client can cancel the calls
\* of the background loops.
CallShape ==
  /\ call.pc \in Steps[call.kind]
  /\ call.kind \in {"none", "push", "pull"} => call.live

(* Every variable keeps its type, every reference names a commit, and no   *)
(* pull, push or retry carries a call into the steps of another.           *)
TypeOK == GitTypeOK /\ DerivedTypeOK /\ ServiceTypeOK /\ ReferencesOK /\ CallShape

(* History is never rewritten: what the clone or the remote once contained *)
(* it contains ever after -- across merges, rejected pushes, crashes and   *)
(* cancelled requests.                                                     *)
HistoryKept ==
  [][/\ Anc(head) \subseteq commits'[head'].anc
     /\ Anc(remote) \subseteq commits'[remote'].anc]_vars

(* A commit hash handed to a client stays in the clone's history, and the  *)
(* clone never believes the remote to hold more than it does.              *)
AckedKept ==
  /\ acked \subseteq Anc(head)
  /\ tracking \in Anc(remote)

(* While a merge is frozen nothing is pushed, and HEAD moves only when     *)
(* every conflicted path is resolved, to a commit that holds both sides.   *)
FrozenMergeHoldsHistory ==
  [][mergeHead # NoCommit =>
       /\ remote' # remote => remote' # head
       /\ head' # head => /\ unmerged = {} /\ mergeHead' = NoCommit
                          /\ Anc(head) \cup Anc(mergeHead) \subseteq commits'[head'].anc]_vars

(* Between calls, state "ok" is never reported over a frozen merge.        *)
OkMeansSettled == up /\ call = Idle /\ state = "ok" => mergeHead = NoCommit

(* While the server runs, the index holds for every path the file as it is *)
(* in the revision the index is stamped with, however the last run ended   *)
(* -- except for paths that were read while changed or staged.             *)
IndexIsStamped ==
  up /\ stamp # NoCommit => \A p \in Path \ unsettled : idx[p] = TreeOf(stamp)[p]

(* Between calls the catalog and the index are those of HEAD.              *)
DerivedFollowsHead ==
  up /\ call = Idle => /\ stamp = head
                       /\ \A p \in Path \ unsettled : cat[p] = TreeOf(head)[p]

\* The commit a merge of the clone is about to join with HEAD.
Side == IF mergeHead = NoCommit THEN tracking ELSE mergeHead

(* Clients and other clones may commit whatever they like, conflict        *)
(* markers included.  The server's own merges bring in none: a merge       *)
(* commit holds markers only where one of the two sides it joins does,     *)
(* although Git's marked files lie in the work tree of a frozen merge,     *)
(* which is settled path by path, over several calls, between crashes, and *)
(* with cancelled writes slipping in.                                      *)
MergesBringNoMarkers ==
  [][\A c \in DOMAIN commits' \ DOMAIN commits :
       commits'[c].by = "merge" =>
         \A p \in Path : HasMarkers(commits'[c].tree[p]) =>
           HasMarkers(TreeOf(head)[p]) \/ HasMarkers(TreeOf(Side)[p])]_vars

(* With a remote that answers again and again, whatever was acknowledged   *)
(* reaches the remote -- unless a frozen merge waits for a client.         *)
EventuallyPublished == []<>(acked \subseteq Anc(remote) \/ mergeHead # NoCommit)

(* Likewise, whatever other clones pushed is merged.                       *)
EventuallyMerged == []<>(remote \in Anc(head) \/ mergeHead # NoCommit)

(* The clone and the remote, as sets of commits, behave as SharedHistory.  *)
History == INSTANCE SharedHistory WITH
             local    <- Anc(head),
             upstream <- Anc(remote),
             frozen   <- (mergeHead # NoCommit),
             promised <- acked

SharedHistorySpec == History!Spec

=============================================================================
