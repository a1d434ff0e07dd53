# A TLA+ model of knowledge-base-mcp

`knowledge-base-mcp` serves Git-backed Markdown vaults over MCP. Each vault is a
private clone; every write becomes a commit, background loops pull and push, a
conflicting merge is kept until a client resolves it, and a catalog and a
full-text index follow the files. A multi-user server mounts several vaults and
adds accounts, access rules, sign-in and OAuth tokens on top.

Paths below are relative to the repository root; `kb/` stands for `internal/kb/`
and so on.

## Inventory

| Part | State | Operations | Talks to | Hard behaviour | What makes it correct |
|---|---|---|---|---|---|
| Vault service (`kb/sync.go`, `write.go`, `service.go`) | clone, sync state, last pull, push request, background loops | write tools (`mutate`), `pull`, `push`, `SyncNow`, `ResolveConflict`, `Reindex`, start, close | Git commands, catalog, index; other clones through the remote | one mutex held over many Git commands; requests cancelled between or during them; crashes; rejected pushes; frozen merges | no acknowledged commit is lost, history is never rewritten, a frozen merge is neither pushed nor passed over |
| Git access (`gitrepo/repo.go`) | refs, index, work tree on disk | fetch, merge, stage, commit, push, diff | the `git` binary | commands that took effect although the caller saw an error | what it reports is what happened |
| Derived state (`search/catalog.go`, `search/index.go`) | in-memory catalog, on-disk index with a revision stamp | upsert, delete, catch up from the stamp, rebuild | vault service | a crash or a cancellation between a commit and the stamp | what is indexed is what the stamped revision holds |
| Mount registry (`workspace/workspace.go`, `repos.go`, `kb/lock_unix.go`) | mounts by repository, start attempts, key files, locks | add, connect, replace credential, remove, close | store, vault services | concurrent administrators; a start in the background; removal racing a write | one open service per clone, none without a mount, no unpushed commit deleted unasked |
| Store (`store/`) | accounts, repositories, rules, tokens; file and backup | open, snapshot, update | disk | a crash between two renames | memory and disk agree, some good file survives |
| OAuth (`oauth/`) | clients, pending authorisations, codes, access and refresh tokens | register, authorise, exchange, refresh, revoke, verify | store, sign-in | rotation racing revocation, a save that fails | a revoked account holds no token; a code or refresh token works once |
| Sign-in (`signin/`) | mailed codes, rate limits | request, verify | mail | retries, expiry, guesses | bounded guesses; one code per address |
| Admin panel (`admin/`) | sessions, pending sign-ins | sign in, manage accounts, rules, repositories | everything above | rights withdrawn during a session | there is always one active administrator, and only it holds sessions |
| Access rules (`acl/`, `kb/scope.go`) | rules per account and repository | match, level, traversable | workspace | longest match, holes in a granted folder, renames across their edges | what an account cannot read is as if it did not exist |
| Workspace routing (`workspace/ops.go`) | none of its own | every tool, across repositories | mounts, rules | rules that change during a call; pages of one answer read at different times | a call reaches only what the caller may see; pages neither repeat nor skip |
| Vault files and notes (`vault/`), queries (`search/query.go`, `grep.go`) | none | parse, format, match, rank | service | - | pure functions over text |
| MCP server, mail, config, secrets, assembly | none that matters here | translation and I/O | all | - | - |

## Modules

| Module | Models |
|---|---|
| `SharedHistory` | what a clone and its remote promise about their history: two growing sets of commits, a freeze, promises |
| `VaultSync` | the vault service over its clone, the remote, the catalog and the index |
| `VaultSyncClaims` | statements of the repository's documents which `VaultSync` does not satisfy |
| `VaultSyncMC` | instances for TLC |
| `VaultSync_proofs` | type correctness, no history lost, `SharedHistory` implemented; frozen merges, conflict markers, and the catalog and the index against HEAD |
| `MountRegistry` | repositories added, restarted and removed by concurrent requests, their mounts, start attempts and services |
| `MountRegistryClaims` | statements of the documents and comments which `MountRegistry` does not satisfy |
| `MountRegistryMC` | instances for TLC |
| `MountRegistry_proofs` | type correctness and two safety invariants; three more for requests that do not overlap |
| `AccountModel` | the document in the state file: accounts, repositories, rules, and every function that changes it |
| `AccountModel_proofs` | every change keeps the document consistent, and an administrator in it |
| `AtomicState` | what the store promises: whole updates, one at a time, kept before they are seen |
| `StateStore` | the state file, its backup and the copy in memory, over a file system that loses what was not synced |
| `StateStoreMC` | instances for TLC |
| `StateStore_proofs` | type correctness, the inductive invariant, three safety invariants, and that `StateStore` implements `AtomicState` |
| `OAuthTokens` | clients, sign-ins, authorization codes and tokens of a multi-user server, their saving and their revocation |
| `OAuthTokensClaims` | statements of the specifications which `OAuthTokens` does not satisfy |
| `OAuthTokensMC` | instances for TLC |
| `OAuthTokens_proofs` | type correctness, the inductive invariant, and the four safety invariants |
| `SignIn` | the mailed codes: limits, codes, decoys, mails, verification |
| `AdminPanel` | the panel's sessions and its acts on accounts, with `SignIn` as their beginning |
| `AdminPanel_proofs` | type correctness, limits and guesses, sign-ins, administrators and their sessions |
| `AdminPanelClaims` | a statement of a comment which `AdminPanel` does not satisfy |
| `AdminPanelMC` | instances for TLC |
| `AccessRules` | rules on folders: matching, levels, traversable folders |
| `AccessRules_proofs` | which rule decides a path, and which folders are shown |
| `ScopedReads` | what an account reads and writes of several repositories under its rules |
| `ScopedReads_proofs` | levels against their definition, hidden files, writes within the rules, pages of results, walks through pages |
| `ScopedReadsClaims` | a statement of the specifications which `ScopedReads` does not satisfy |
| `ScopedReadsMC` | instances for TLC |

`AccountModel` is extended by `StateStore`, which adds the disk, and by `SignIn`,
which adds the people who ask for codes; `AdminPanel` extends `SignIn`.
`ScopedReads` extends `AccessRules`. `MountRegistry` and `OAuthTokens` look at one
section of the state file each and keep it as a variable that changes whole, which
is what `AtomicState` promises and `StateStore_proofs` shows.

### VaultSync and the code

Every operation of `kb.Service` that changes something holds `s.mu`, so the model
has one `call` in progress. A call is a record of its entry point (`kind`), the
next Git command or index update (`pc`), whether its context is still live, HEAD
before its merge (`old`), and the files it is about to change (`delta`). One
action is one Git command together with the Go code up to the next one.

| Variables | Code |
|---|---|
| `commits` | Git's object store; a commit is the set of its ancestors (itself included), its tree and its maker |
| `head`, `tracking`, `mergeHead`, `unmerged`, `staged`, `work` | HEAD, `refs/remotes/origin/<branch>`, `MERGE_HEAD`, stages 1-3 and stage 0 of the Git index, the work tree |
| `remote` | the branch on the remote host, which accepts fast-forwards only |
| `cat`, `idx`, `stamp` | `Service.cat`, the Bleve documents, `Stamp.Revision` (0 for the empty string) |
| `state`, `fresh` | `Service.state`; whether `lastPull` may lie within the freshness window |
| `pushRequested`, `pusher`, `retrying` | the one-slot channel, `pushLoop`, the goroutine that sleeps before a retry |
| `up` | whether the process runs |
| `acked`, `unsettled`, `cancels`, `crashes` | history variables: commits a client was told of, paths last read from disk while Git showed them changed or staged, faults so far |

| Actions | Code |
|---|---|
| `FetchOk`, `FetchFails`, `MergeNothing`, `MergeFastForward`, `MergeClean`, `MergeConflicts`, `MergeFails`, `PullIndexes`, `PullIndexFails` | `pull` (`kb/sync.go:36-70`) and what its four callers do with its result (`PullReturns`) |
| `MutateBegins` ... `MutateReturns` | `mutate` (`kb/write.go:28-63`), with `pullIfStale` in front |
| `PushNotNeeded`, `PushOk`, `PushRejected`, `PushFails` | `push` (`kb/sync.go:83-117`), with the pull and second push after a rejection |
| `PushLoopWakes`, `PushBegins`, `RetryFires`, `PullTicks` | the background loops |
| `SyncBegins` | `kb_sync_now` |
| `ResolveBegins`, `ResolveWrites`, `ResolveStages`, `ResolveFails`, `ResolveRemains`, `ResolveCommits`, `ResolveCommitFails`, `ResolveReturns` | `ResolveConflict` |
| `Reindexes`, `Opens`, `OpenFails` | `Reindex`, `OpenWith` with `openIndex`; `OpenFails` is one that failed, or whose process died, after it wrote some of the documents |
| `Crashes`, `Cancels`, `OtherClonePushes` | the environment |

Git is modelled by what its commands do to those variables: a fast-forward, a
true merge and the refusal to overwrite local changes are functions of the trees
of HEAD, the tracking branch and their merge base and of the dirty files. Two
sides that changed the same file may merge to any content or conflict; a file
deleted on one side and changed on the other always conflicts. A command whose
caller cancels while it runs has taken effect although the service sees an error
(the second disjuncts of `MergeReturns`, `MutateCommits`, `ResolveCommits`,
`PushFails`). `MergeInProgress` runs under the same context and answers "no" when
it is cancelled, which is why a cancelled write may begin in a frozen merge.

Conflict markers are the file content `Marked`; a file that is not there is
`Absent`. What a client or another clone writes is one of `Content`, and some of that,
`WithMarkers`, looks to `ResolveConflict` and `kb_replace_note` as if it held markers:
the write tools commit it, with a warning at most, and so may anybody who pushes. Debounce, backoff and the
freshness window are reduced to their order: a loop may wake at any time, `fresh`
allows but does not force the pull to be skipped.

Assumed and left out: `origin` is configured, pushing is automatic and the server
is not read-only; Git never leaves an `index.lock` behind and never applies half a
merge; `git merge` is run without rename detection and Bleve does not fail on its
own; etags and note contents reduce to a request being accepted or rejected.
`Close`, `PushNow` and `Unpushed` belong to the mount registry, where their
callers are. `kb_resolve_conflict` names a path once per call (hazard at
`kb/sync.go:413`). Links between notes, ranking and formatting are left out.

### MountRegistry and the code

Nothing serialises administrators: each request is a goroutine, `w.mu` protects
single accesses to the map of mounts, and `store.Update` single changes of the
registry. So the model has a request per administrator (`op`), an attempt per call
of `start`, and one action per stretch of code between two such accesses, channel
waits or effects on disk.

| Variables | Code |
|---|---|
| `registry`, `keyPending`, `ids` | `State.Repos` of the store, their `KeyPending`, every id `NewID` gave out |
| `clone`, `unpushed`, `keyFiles` | on disk: the clone of each repository, whether it holds commits the remote lacks, the decrypted keys |
| `phase` | the life of the process: `NewMulti`, running, `Close`, gone |
| `mounts`, `attempts` | `Workspace.mounts`, as indices into every `mount` made since the start; an attempt records the next step of its goroutine, its `svc`, and the goroutine of the first pull that `Service.Start` leaves behind |
| `op`, `client` | the requests in progress; the service a write was routed to and has not reached yet |

| Actions | Code |
|---|---|
| `ReadsCredential`, `FindsClone`, `MakesClone`, `Clones`, `Opens`, `Publishes`, `Starts`, `PullsFirst` | the goroutine of `start`, `open`, `OpenWith`, `Service.Start` (`workspace/repos.go:124-186`, `kb/service.go:66-153`) |
| `Adds`, `Connects`, `Replaces`, `Removes` | the requests up to their first shared access |
| `Updates`, `PushesNow`, `ChecksUnpushed`, `TakesMount`, `ClosesService`, `RemovesKey`, `Looks`, `StartsMount`, `Deletes`, `Erases` | what they go on with: the store, `PushNow` and `Unpushed`, `stop`, `restart`, the deletion |
| `Routes`, `Writes`, `Pushes` | a client's write, seen from here, and `pushLoop` |
| `CloseBegins`, `CloseEnds`, `Boots`, `BootStarts`, `BootEnds` | `Close` and `NewMulti`; `Boots` is possible in every state, which is a crash |

The vault lock is `Locked`: a service is open from `OpenWith` to `Close`. A clone is
`none`, `partial` (it has a `.git`, the rest does not follow) or `whole`; Git
removes what a failing clone made, but a killed one leaves it, and Go kills the
process when the context is cancelled. A store update may fail. Cloning, opening and
pushing may fail at any time, for reasons this model does not look at.

Left out: the import of a configured vault (its document is in `AccountModel`), SSH
keys and `known_hosts`, `SyncRepo` (in `VaultSync`), and the status a mount shows in
the panel. A start whose index fails to open leaves Bleve's handle behind
(`kb/service.go:117-119`); what Bleve makes of that the next time is its own affair, and
`Opens` may fail at any time. `Close` empties the map of mounts in one step under `w.mu`
and then closes one service after the other; it does the second in one step too
(`CloseEnds`), after every attempt has ended and when nothing is routed any more. A
closed service that is still used answers as before: `Writes` on it
commits, as `mutate` does, which never looks at the stop channel.

### AccountModel, StateStore and the code

A function of `store/model.go` that may refuse is the set of the documents it can
leave behind, which is empty when it returns an error; so a composed change (the
import of a vault, `EnsureAdmin`) is a union over the results of its first part.
`PanelChanges`, `AdminChanges`, `ImportClients` and `ImportChanges` are all the
functions `Update` is called with. Credentials, times of sign-in, host keys and the
OAuth section are changes that leave this document as it is (`{s}` in `Changes`).

| Variables | Code |
|---|---|
| `phase` | how far `app.NewMulti` is: the administrator, the clients of a classic server, the vault of the classic settings, serving |
| `cur`, `raw` | `Store.cur`, and whether `Store.raw` holds a serialised document |
| `op` | the `Update` in progress: the step `writeFileAtomic` is at, the file it writes, the document it will publish |
| `tmp`, `dir`, `settled` | the temporary files, the directory as processes see it, and as it is after a loss of power |

| Actions | Code |
|---|---|
| `Opens`, `SkipsImport` | `Open`, the parts of `NewMulti` that change nothing |
| `Begins`, `Creates`, `Writes`, `Syncs`, `Renames`, `Publishes`, `Fails` | `Update` and `writeFileAtomic`, backup first (`store/store.go:146-226`) |
| `Settles`, `Dies`, `LosesPower` | the file system and the machine |

A file is `synced`, `written` (whole, but not on disk) or `torn`. A loss of power
tears what is only written and undoes the renames that were not settled, the latest
first: the code syncs files, not their directory, so a whole answered update may be
lost, and `AtomicState` says so.

### OAuthTokens and the code

Each request is a goroutine and holds `Server.mu` for single accesses. An action is
one such access, so a revocation may come between the removal of a code or refresh
token from its map and `issue`.

| Variables | Code |
|---|---|
| `clients`, `refresh`, `access` | `Server.st`: the registered clients, the pairs whose refresh or access token is good |
| `saved`, `dirty` | the OAuth section in the state file; whether the last `save` failed, which is only logged |
| `pend`, `mailed`, `codes` | sign-in requests, the account whose mailed code is out, authorization codes |
| `task`, `panel` | requests of clients and of the administrator in progress |
| `status` | accounts in the store: active, disabled, gone |
| `signIns`, `grants`, `epoch`, `issued`, `asked` | history: every code and pair handed out, sign-outs of each account, ids used |

| Actions | Code |
|---|---|
| `Registers`, `AsksSignIn`, `PostsEmail`, `PostsCode`, `GrantsCode` | `handleRegister`, `handleAuthorizeGet`, the three parts of `handleAuthorizePost` |
| `TakesCode`, `Rotates`, `Issues` | `handleToken` and `issue` (`oauth/server.go:568-678`) |
| `AccessExpires`, `RefreshExpires`, `CodeExpires`, `RequestExpires` | lifetimes: what has expired leaves its map at once |
| `Disables`, `Enables`, `DeletesAccount`, `AsksSignOut`, `RevokesAccount` | `userAction` of the panel, `RevokeAccount` |
| `Crashes` | a new process, which loads the section |

Each `Issues`, `Registers` and `RevokesAccount` writes the whole section; between them
the file lags behind by what `Rotates` took out. A pair is one number in both maps, as
`Pair` links them; its client, account and sign-in are in `grants`.

### SignIn, AdminPanel and the code

The clock counts ticks; intervals and lifetimes are numbers of them. `log` is the set
of what the limiter let through, from which both of its maps follow: no two entries of
an address are made in one tick, because `AddrInterval` is at least one (it is a minute
in `DefaultLimits`; `SignInAssumption`). `doc` is the document of the store. `NewID` is
random, so an account never gets an id that codes made before remember (`FreshIds`);
otherwise the codes of a deleted account would count against its successor.

| Variables | Code |
|---|---|
| `pages` | `Server.pend`, `Panel.pending` |
| `log`, `total`, `entries`, `sent` | `Limiter.addr` and `Limiter.client`, `Limiter.total`, `Codes.entries`, `Flow.sent` |
| `task` | a request between two accesses: after the limiter, after the code, after its verification |
| `sessions`, `act` | `Panel.sessions`, the panel's requests, one for each tab, between their snapshot and their update |
| `made`, `mails`, `signIns`, `opened` | history: codes, mails, accepted codes, ids used |

| Actions | Code |
|---|---|
| `OpensPage`, `PostsAddress`, `Issues`, `Sends` | the pages; `Flow.Request` in three parts: limits and lookup, `Codes.Issue`, the mail |
| `PostsWrongCode`, `PostsRightCode`, `GrantsCode`, `StartsSession` | `Flow.Verify` with `Codes.Verify`, and what its two callers do |
| `RecoversSession`, `SignsOut`, `TurnedAway` | the recovery token, `signOut`, `sessionOf` |
| `AsksCreate`, `AsksAction`, `UpdatesAccounts` | `userCreate`, `userAction` |
| `Boots`, `Tick` | a restart, perhaps under another administrator's address; time |

Codes are numbers in the order they were made: guessing one right without the mail is
not modelled, guesses are counted instead.

### AccessRules, ScopedReads and the code

A path is a sequence of names. A repository's history is a sequence of trees: merge
commits are outside, because `git log` runs without `-m`, sees no changes of theirs, and
the log of a restricted account never shows them. The
second repository is there for answers that combine several. The client of one
account walks through a log or a listing page by page, or writes, while others commit
and the administrator changes rules.

| Definitions | Code |
|---|---|
| `Match`, `Level`, `Traversable`, `AnyAccess` | `acl/acl.go` |
| `Redact`, `LogPage`, `History`, `ShowRevision`, `Diff`, `LsTree` | `kb/scope.go:162-209`, `kb/history.go` |
| `List`, `ListPage`, `Search`, `QuickOpen`, `Grep` | `kb/read.go`, `workspace/ops.go`, `search/index.go:277-368` |
| `BeginsLog`, `ReadsLog`, `BeginsList`, `ListsPage`, `EndsWalk` | the calls of a client that follows a cursor |
| `Asks`, `Admits`, `Commits` | a write: routed, guarded, and committed later |
| `OthersCommit`, `SetsRule`, `SetsActive` | other writers, the panel |

Reads are operators on the state of one moment: each takes its snapshot of rules once
and works under the vault's lock. A score is given for each file; how Bleve computes
it is left out, and that it breaks ties in an order of its own is not
(`IndexedAt`).

## What the runs check

`p1`, `p2` are paths, `a`, `b` file contents; both are symmetric, except in the
liveness run, which uses no symmetry. W, E, C, K bound the commits made by write
tools, the commits of other clones, cancelled requests and crashes. Two paths are
enough for a rename, for a conflict beside a clean change and for a partial
resolution; two contents for an edit against a different edit. `FirstTrees`
bounds what the remote holds when it is cloned: anything (`AnyFiles`), or, with crashes,
one file beside one gap (`OneFile`), which admits every kind of change: edit, deletion,
addition, rename. One write against
one foreign commit already reaches every kind of merge; the bound on cancellations
and crashes is one, because every state after a fault is left to run on with all
other actions.

| Run | Bounds | Checks |
|---|---|---|
| `vault_history` | one path, W2 E1 C1 | `HistoryKept`: neither side loses a commit; `FrozenMergeHoldsHistory`: nothing is pushed in a frozen merge, and it ends in a commit of both sides; `SharedHistorySpec`: the clone and the remote implement `SharedHistory` |
| `vault_crashes` | two paths, one file at first, W1 E1 K1 | `TypeOK`: besides the types, that a call only takes the steps of its kind; `AckedKept`: acknowledged commits stay in HEAD, the tracking branch never runs ahead; `OkMeansSettled`: state `ok` never hides a frozen merge; `IndexIsStamped` and `DerivedFollowsHead`: index and catalog hold what they claim, also after a restart from a half written index |
| `vault_liveness` | one path, W1 E1, one content with markers, `FairSpec` | `EventuallyPublished`, `EventuallyMerged`; `MergesBringNoMarkers`: a merge commit of the server holds markers only where a side of the merge does, however resolutions are split over calls |

Fairness (`Fairness` in `VaultSync`): a call in progress runs on (weak: each Git
command returns, the code runs them under a timeout or the caller's context);
`pushLoop`, the retry timer and the supervisor restart are weakly fair; the ticker
and the due push are strongly fair, because Go's mutex hands itself to a waiter
that has starved for a millisecond; the remote answers again and again (strong
fairness of `FetchOk` and `PushOk`), without which the two properties would not be
expected. Nothing is assumed of clients: a frozen merge may wait for ever, and the
properties say so.

The runs of `MountRegistryMC`: `r1`, `r2` are repositories under one alias, so that
the second can only follow the first; `a1`, `a2` are administrators. Requests are
bounded by MaxOps, starts of the process by MaxBoots; attempts are bounded by both.
Two overlapping requests are what every race of two needs, the third begins before
or after the race. `CHECK_DEADLOCK FALSE`: when the bounds are used up and the
process is down, nothing is left to do.

| Run | Bounds | Checks |
|---|---|---|
| `mount_one_admin` | two repositories, one request at a time, 3 requests, 2 starts | `TypeOK`: besides the types, that whoever closes a service has waited for its attempt; at rest `NothingLeaked` (an open service is mounted, a key belongs to a mount) and `RemovedIsNotServed`; `DownHoldsNothing`: after `Close` only what a request is about to close is open |
| `mount_two_admins` | one repository, two requests at a time, 3 requests, `FairSpec` | `ServingIsOpen`, `OneServicePerClone`, `OperationsReturn`, `CloseReturns` |

`NothingLeaked`, `RemovedIsNotServed` and `DownHoldsNothing` hold while requests do not overlap, and
only then: see `GhostMount` and `LeakedService` below. Fairness is weak fairness
of every goroutine; a clone ends because it runs under a context that `stop` and
`Close` cancel.

The other runs, which use no fairness, and again no deadlock check where the bounds
end every process or use up every id:

| Run | Bounds | Checks |
|---|---|---|
| `store_crashes` | two writers, two accounts, one repository, five updates, two ends of the process | `StoreTypeOK`; `Recoverable`: every file a process may find is whole and consistent; `BackupIsPrevious`: the backup is the file's content or the one before; `ServesAdmin`; `StateSpec`: the store implements `AtomicState` |
| `tokens` | two clients, two accounts, two handlers, one request id, two sign-ins, three pairs, one failing save, one act of the panel, one crash | `TokenTypeOK`; `OneSession`: a sign-in is worth one code, one exchange or one live refresh token; `AccessNeedsRefresh`; `BoundToSignIn`; `CrashKeepsSessions`: while the last save went through, a crash loses nothing that was answered |
| `sign_in` | two addresses, two handlers, one request id, three codes, two ticks, two tabs of the panel, two acts or restarts | `PanelTypeOK`; `CodesWithinLimits`, for every hour wherever it begins; `GuessesBounded`: fresh codes do not buy guesses; `SignInNeedsMail`; `OneActiveAdmin`; `SessionsAreAdmins` |
| `reads` | two repositories, four files (one of them excluded), eight kinds of edits, six commits, one change of rules | `RulesNest`: levels and folders against their definition; `HiddenIsAbsent`: every answer is that of a repository without the hidden files; `PagesOfOneRanking`; `WalksMissNothing`; `WritesWithinRules` |

Five updates fill the store to two accounts and a rule after a start; two stops give a
crash during the recovery from a crash. Two handlers and two sign-ins let an exchange
overlap another of the same or of another sign-in, and three pairs a rotation of a
rotated token; every property is about tokens of one account at a time, and one act
races each of its exchanges. In `sign_in` the limits
are so small (two codes per address and hour, one mail in total, one guess per code)
that three codes meet each of them, and two ticks let an hour pass. Two tabs may act on one
snapshot: one deletes or disables whom the other is about to enable; codes, acts and
restarts together are bounded by `MaxCodes` (`MoreEvents`). The two addresses change
places under `SwapAddresses`, for the settings may name either. In `reads` the
edits were chosen for what they do to rules: a rename into, out of and inside a hidden
folder and into an excluded one, a commit that changes a shown and a hidden file, a
deletion; the rules have a hole in a granted folder and a grant inside a hidden one.

### Where the code and its documents part

Each of these runs checks one statement of the documents and finds a behaviour that
violates it.

| Run | Property | Behaviour |
|---|---|---|
| `lost_commits` | `UnpushedNeedsConsent` (`openspec/specs/repositories/spec.md`) | a commit after the count of unpushed commits, a count that fails, or no service to ask: unpushed commits are deleted unasked |
| `signed_out` | `SignedOutEverywhere` (`openspec/specs/user-accounts/spec.md`) | a refresh token is taken out, the account is signed out, its new pair is issued: the session goes on |
| `search_pages` | `SearchPagesDisjoint` (`openspec/specs/repositories/spec.md`) | notes of one score: each index cuts its hits before the ties are sorted by path, so page two repeats page one |

Further instances are kept as configurations, and each finds the violation of its
property when TLC is run on the MC module of its component (`tlc -config SweptFile.cfg
VaultSyncMC`, for example). The first four are about `openspec/specs/git-versioning/spec.md`, the fifth about
`openspec/specs/repositories/spec.md`, the last two about comments (`Workspace.Close`,
`mail/mail.go:24`).

| Configuration, module of the property | Property | Behaviour |
|---|---|---|
| `SweptFile`, `VaultSyncClaims` | `OnlyOwnFiles` | a crash between `git add` and `git commit`: the next write commits the staged file of the dead request too |
| `FrozenOverwrite`, `VaultSyncClaims` | `FrozenTreeKept` | a cancelled write does not see the frozen merge and overwrites one of its files |
| `StuckResolution`, `VaultSyncClaims` | `FrozenMergeResolvable` | a crash after the last path was resolved and before the merge commit: no call can complete the merge |
| `StaleIndex`, `VaultSync` | `IndexIsStamped` | a pull cancelled after its merge skips the re-indexing; the next write stamps the index all the same |
| `GhostMount`, `MountRegistry` | `RemovedIsNotServed` | a removal between the registration (or the look `restart` takes) and `start`: the removed repository is mounted, and cloned again |
| `LeakedService`, `MountRegistry` | `DownHoldsNothing` | two requests start one repository: the later mount hides the earlier one, whose service keeps the lock, so that the later attempt is refused, and stays open after `Close` |
| `MailKeys`, `AdminPanelClaims` | `MailKeysDiffer` | a page's count of mails is deleted when a code is accepted while the page is still open: the next mail for it has the key of the first, and the provider may drop it as a duplicate |

The code of the panel closes its page only when the administrator signs in, which is
how the last one comes about. `RequestsSingleUse` of `OAuthTokensClaims`
(`openspec/specs/mcp-transport/spec.md:50`) fails as well: two codes mailed for one
request, both accepted before the page is closed, give two authorization codes; that
each of them leads back to its own mail is `SignInNeedsMail`, which holds.

`IndexIsStamped` holds in `vault_crashes` and fails in `StaleIndex`, and
`RemovedIsNotServed` and `DownHoldsNothing` hold in `mount_one_admin` and fail in
`GhostMount` and `LeakedService`, because
the fault is another one: the index survives crashes but not cancellation, the
registry survives crashes but not overlapping requests.

The models also contain, without a run of their own: `kb_reindex` in a frozen merge
indexes the markers, and a resolution to our side leaves them there; a write that
died before its commit leaves a dirty file that blocks every later merge touching it
(`EventuallyMerged` is checked without crashes); a killed clone leaves a `.git` that
the next attempt takes for a clone; the first pull may begin after `Close`; a store
that fails after `stop` leaves a registered repository without a mount; a crash
between the deletion from the store and from disk leaves the clone behind. In
`ScopedReads`, the history of a note ends where an earlier name is hidden by a rule,
though not where it is excluded; and a search for lines may say that it was truncated
when it found exactly as many as were asked for.

## What is proved

`VaultSync_proofs` proves, for every set of paths and contents and every bound:

- `TypeCorrect`: `Spec => []TypeOK`.
- `InvCorrect`: `Spec => []Inv`, the inductive invariant.
- `AckedCorrect`: `Spec => []AckedKept`.
- `HistoryCorrect`: `Spec => HistoryKept`.
- `FrozenMergeCorrect`: `Spec => FrozenMergeHoldsHistory`.
- `ImplementsSharedHistory`: `Spec => SharedHistorySpec`.

`Inv` strengthens the types by four facts. `AncestryOK`: a commit's ancestor set
contains it, names existing commits and is closed under ancestors - without it,
"the tracking branch is in HEAD's history" says nothing about what that branch
contains. `AckedKept`: needed by itself, for a push moves `remote` to HEAD.
`MergeHeadPublished`: the commit a frozen merge joins is in the remote's history,
so settling it takes over only what others made. `LiveMeansThawed`: a call whose
context is live and that is past its beginning, other than a resolution, meets no
frozen merge - the point at which a cancelled write differs from any other.

The lemma `HistoryStep` classifies every step by what it does to the two
histories (keeps, fetches, fast-forwards, freezes, merges, records, settles,
publishes, contributes); `HistoryKept`, `FrozenMergeHoldsHistory` and the
refinement follow from the classes and never look at an action again.

Four more theorems say when the service may be believed:

- `OkCorrect`: `Spec => []OkMeansSettled`.
- `MarkersCorrect`: `Spec => MergesBringNoMarkers`.
- `IndexCorrect`: `Spec => [](cancels = 0 => IndexIsStamped)`.
- `CatalogCorrect`: `Spec => [](cancels = 0 => DerivedFollowsHead)`.

`OkCorrect` needs `FrozenInv`: the frozen merge, its unmerged paths and the step of the
call in progress fit together, and a service that is down has no call. `FrozenMarkers`
is what makes a merge clean when it is committed at last: while it is frozen, what is
staged, and what a resolution is about to stage, holds markers only where one of its two
sides does. Clients and other clones may commit markers, and do; Git's own lie in the work
tree of the unmerged paths. A cancelled write is let into a frozen merge and may change
files there, but its context is gone, so that it can run neither `git add` nor
`git commit`: the theorem needs no condition on cancellations.

`DerivedInv` follows the index: while a call runs, what
HEAD changed since the stamp is what the call is about to refresh, and after a crash, or
a reopening that failed half-way, each document is that of the stamp or that of HEAD, which is what the reopening starts
from. All of it is about paths outside `unsettled`. An attempt at this proof showed which
those are: a path that is staged by a write which dies, and read again by the reopening,
equals the work tree and yet is not what HEAD holds, and the next write commits it - so
`unsettled` takes in what is staged, too.

The condition `cancels = 0` is not a convenience. With one cancelled request
`IndexIsStamped` fails (`StaleIndex`). `vault_crashes`, which checks these two
properties, has crashes and no cancellation.

The proofs assume `SentinelAssumption` and `BoundAssumption` of `VaultSync`, which
TLC evaluates in every run.

`MountRegistry_proofs` proves, for every number of repositories, aliases,
administrators, requests and starts:

- `MountTypeCorrect`: `Spec => []TypeOK`.
- `MountsServeOpen`: `Spec => []ServingIsOpen`.
- `CloneServedOnce`: `Spec => []OneServicePerClone`.

The inductive invariant adds two facts to the types and `OneServicePerClone`.
`MountsOK`: what is mounted serves its repository and nobody has closed it.
`TakenOK`: an attempt some request waits for is mounted no more - it can never be
mounted again, because a mount only ever changes to nothing or to a new attempt. So
the one request that closes a service (`ClosesService`) closes an unmounted one. The
lemma `MountStep` sorts the steps by what they do to attempts and mounts (stays,
proceeds, takes, closes, mounts, unmounts), and the invariant is proved class by
class; `OneServicePerClone` rests on the one class that opens a service, which needs
the lock free. `RepoAssumption` and `MountBoundAssumption` are assumed, and evaluated
by TLC in every run.

`NothingLeaked`, `RemovedIsNotServed` and `DownHoldsNothing` fail when two requests on
one repository overlap (`GhostMount`, `LeakedService`). They are proved for behaviours
in which none do, `Apart`, with any number of administrators, of requests on other
repositories, of attempts, clients, shutdowns and crashes in between:

- `ApartLeaksNothing`: `Spec /\ []Apart => []NothingLeaked`.
- `ApartServesRegistered`: `Spec /\ []Apart => []RemovedIsNotServed`.
- `ApartDownHoldsNothing`: `Spec /\ []Apart => []DownHoldsNothing`.
- `OneAtATime`: all three with one administrator, which is the run `mount_one_admin`.

Their invariant, `ApartInv`, says in whose hands things are: an attempt that opened a
service or still runs is mounted or waited for by the request that took it (`OwnedOK`,
`WaitsOK`), a request that took the mount finds it empty until it starts another
(`FreedOK`), it starts only what is registered, so only that is mounted (`StartOK`,
`KnownOK`), and a key file belongs to a mount or to the request about to remove it
(`KeysOK`). `DownOK` and `BootOK` carry this over shutdown and start. `FreedOK` and
`StartOK` are what a second request on the repository breaks.

`AccountModel_proofs` proves, for every set of accounts, repositories, addresses and
folders, what one change does to a document:

- `ChangesKeepState`: a consistent `State` changes into a consistent `State`, whichever
  of `Changes` is applied: rules refer to accounts and repositories that exist, there
  is one per folder, addresses and aliases are unique, the administrator is alone and
  active.
- `AdminChangesMakeAdmin`, `AdminStays`: the start makes an administrator, and what the
  panel does afterwards keeps it.

There is a lemma for each function of `store/model.go`; the imported vault and
`EnsureAdmin` rest on those of their parts. `AddressAssumption` and `NameAssumption`
are assumed: `NormalizeEmail` maps addresses to canonical ones or refuses them, and a
valid alias is none that is refused.

`StateStore_proofs` proves, for every number of writers, updates and ends of the
process:

- `StoreTypeCorrect`: `Spec => []StoreTypeOK`.
- `AlwaysRecoverable`: `Spec => []Recoverable`.
- `BackupHolds`: `Spec => []BackupIsPrevious`.
- `AdminIsServed`: `Spec => []ServesAdmin`.
- `StoreIsAtomic`: `Spec => StateSpec`.

The inductive invariant adds to the four: `OneUpdate` (the store's lock),
`NextIsWanted` (what is about to be published is a change of what readers see, made in
this phase), `TemporaryFile` (a temporary file holds what the step says - without the
sync, nothing could be said of the file after a loss of power), `MemoryIsFile` (readers
see the state file, or the one before while an update is between its rename and its
publication) and `BackedUp` (while the state file is being replaced, the backup is what
it holds). The refinement then goes by what a step does to the file and to the
memory: only the rename of the state file is `Keep`, only the publication is `Answer`.
`WriterAssumption` and `StoreBoundAssumption` are assumed, with the two above.

`OAuthTokens_proofs` proves, for every number of clients, accounts, handlers, sign-ins,
pairs, failing saves, acts and crashes:

- `TokenTypeCorrect`: `Spec => []TokenTypeOK`.
- `SignInIsOneSession`: `Spec => []OneSession`.
- `AccessHasRefresh`: `Spec => []AccessNeedsRefresh`.
- `TokensAreBound`: `Spec => []BoundToSignIn`.
- `SessionsSurvive`: `Spec => []CrashKeepsSessions`.

The inductive invariant says without counting what `OneSession` counts: no two live
refresh tokens of a sign-in (`OnePair`), no two exchanges of it (`OneExchange`), not
one of each (`TakenOut`), and neither beside an unused code (`UnusedCode`). `OnePair`
is needed of the saved section as well, since a crash makes that the one in memory;
`TasksBound` is needed because an exchange carries a grant that is in no map. The lemma
`TokenStep` shows that a step shrinks the maps, hands out a code, takes one, rotates,
issues or is a crash; the last part, `Kept`, goes by whether the step saves.
`TokenBoundAssumption` is assumed.

`AdminPanel_proofs` proves, for every number of addresses, accounts, networks, requests
and handlers, for every limit, lifetime and bound:

- `PanelTyped`: `Spec => []PanelTypeOK`.
- `AlwaysOneActiveAdmin`: `Spec => []OneActiveAdmin`, from the lemmas of
  `AccountModel_proofs`.
- `SessionsStayAdmins`: `Spec => []SessionsAreAdmins`.
- `SignInsNeedMail`: `Spec => []SignInNeedsMail`.
- `CodesStayWithinLimits`: `Spec => []CodesWithinLimits`.
- `GuessesStayBounded`: `Spec => []GuessesBounded`.

`PanelInv` carries the first four: a request between the store and its code holds what
the store said (`IssueOK`), everybody with a session is the administrator, whom
no act of a tab is about to disable or delete (`DocOK`), and entries, mails and sign-ins lead back to codes (`CodeInv`).
`AskInv` adds the limits. The limiter forgets what is older than an hour, while the
property is about every hour there has been, so `LimitInv` counts each of them, and it
counts requests that have passed the limiter and have no code yet along with the codes:
each is one entry of the log (`LoggedOK`, `AsksDiffer`), and the hours of the log are
within the limits (`HoursOK`). `GuessesBounded` is about accounts and the limits about
addresses; `OwnersOK` joins them: the codes of an account all went to one address.

`AccessRules_proofs` proves, for every rule set and path: `MatchUnique` (the rule
that decides a path is determined), `OwnRuleDecides`, `LevelsInherit` (a path without a
rule of its own has the level of its parent, which is what the panel shows) and
`TraversableExact`. `ScopedReads_proofs` builds on them, for every set of repositories,
files, rules, histories, edits and changes of rules:

- `LevelIsNearest`: the level that `acl.go` takes from the longest matching rule is the
  one inherited folder by folder, at any depth.
- `RulesAlwaysNest`: `Spec => []RulesNest`.
- `WritesKeepRules`: `Spec => []WritesWithinRules`.
- `RedactIsStripped`: a redacted commit shows exactly what changed between the two trees
  without their hidden files, renames over the edge included.
- `HiddenStaysAbsent`: `Spec => []HiddenIsAbsent`.
- `PagesKeepOneRanking`: `Spec => []PagesOfOneRanking`.
- `ScoresKeepOneRanking`: whatever the ties, a page of a search holds the scores of its
  places in the ranking of everything; so what `search_pages` finds repeated or left out
  are notes of one score, and never more than that.
- `PagesShareNothing`: where scores tell notes apart, pages that do not overlap share no
  note.
- `WalksKeepAll`: `Spec => []WalksMissNothing`.

`LevelIsNearest` is about a recursive function on the depth of a path. That the function
exists, and what it returns, is proved by induction written with sets: a set of naturals
with 0 and the successors of its members is `Nat`, because its complement would have a
least element (`SetInduction`). `WriteInv` adds to types and rules what a write in
progress remembers (`CallOK`: the rules in force since it was asked for, one of which
admitted it) and what those committed did (`WrittenOK`); a commit only appends to a log,
so what an earlier one changed stays what it was. `ReadsAssumption` is assumed: files,
edits, rules and histories to begin with are of their types, a tree has finitely many
files, there are finitely many repositories, and no file is a folder of another.

Every sorted list of the code is `InOrder(before)` in the model: the k-th member is the
one with k - 1 members before it. For a total order of a finite set that is one place
for each member (`InOrderPlaces`), and what it returns of the first N, or of what comes
after a member, follows by counting. A page of results is then an argument about sets:
a repository that leaves a note out contributes as many better ones as the page needs
(`LeftOutIsOutdone`), and a part of an order that holds its first N members has the same
first N (`TopOfPart`). With ties the two orders differ, so `ScoresAlike` counts the notes
with a score of at least c in both instead. `Grep` is two recursive functions, over the
files of a repository and over repositories; by induction the lines found are the smaller
of the limit and the lines so far.

`WalkInv` is what holds between two pages. Of a log: a visible commit from before the walk
with fewer newer ones than the cursor counts has been read, and while no commit came in,
exactly the newest up to the cursor have (`LogWalk`; `LogEnd` when there is no next page).
A commit in between adds to what is newer, so a cursor that counts may repeat a commit and
does not pass over one. Of a listing: what was read grows in the order of paths, ends at
the cursor, and holds every path up to there that has been visible since the walk began
(`ListWalk`, `ListEnd`).

Every assumption is evaluated by TLC in the runs of the modules that extend them.

Only model-checked: liveness (`EventuallyPublished`, `EventuallyMerged`,
`OperationsReturn`, `CloseReturns`), which is about fairness. Of the properties of the
passing runs, every other one is stated by a theorem.

## Plan

1. Done: all modules of the table above with their runs, and the proofs of every safety
   property and action property of the passing runs.
2. `ConflictResolution`: the entries of one resolution call in order, a path that is
   named twice included.

## Not modelled

Parsing and formatting of notes, the query language, scores and the packing of
contexts: functions over text and floats, without state. The MCP and HTML surfaces
with their CSRF tokens, SMTP, configuration and the sealing of secrets: translation and
I/O around the handlers that are modelled. Signed links and the remote checks of the
panel keep no state. The password sign-in of a classic server, which has one user and
one file for its tokens, shares the token handlers with the multi-user server modelled
here. The mode without a remote and the read-only mode remove behaviour and add none.
Windows has no instance lock.
