----------------------------- MODULE ScopedReads -----------------------------
(***************************************************************************)
(* What one account of a multi-user server reads and writes: the routing   *)
(* of internal/workspace, the operations of internal/kb under the scope of *)
(* the account's rules, and their merging over repositories.               *)
(*                                                                         *)
(* Answers are operators on the histories and the rules.  The variables    *)
(* are those histories, the rules, and a client that reads page after page *)
(* or asks for a change, while other accounts commit and the administrator *)
(* changes its rules.                                                      *)
(*                                                                         *)
(* Histories are linear: merge commits, whose changes git log does not     *)
(* name and the scoped log therefore never shows, are outside.  Every      *)
(* repository is mounted, and the catalog and the index follow the last    *)
(* commit: VaultSync and MountRegistry are about what happens otherwise.   *)
(***************************************************************************)
EXTENDS AccessRules, FiniteSets, Functions

CONSTANTS
  DotName,    \* names the vault excludes, with all below them
  File,       \* paths of files
  Repo,       \* repositories, as names in the order of their aliases
  Score,      \* how well a file matches the query: its relevance, its matching lines
  PageSize,   \* the limit of a listing or a log that is read in pages
  Edits,      \* the changes of files that accounts and editors make
  Settings,   \* the changes of rules that the administrator makes
  InitialRules, InitialLogs,    \* the rules and the histories to begin with
  MaxCommits, MaxRuleChanges    \* bounds: commits in all, changes of rules

\* The files of a commit; a content is known by the commit and the path it came with.
IsRevision(tree) ==
  /\ DOMAIN tree \subseteq File /\ IsFiniteSet(DOMAIN tree)
  /\ tree \in [DOMAIN tree -> Nat \X File]

ASSUME ReadsAssumption ==
  /\ DotName \subseteq Name /\ Name \subseteq Nat /\ Repo \subseteq Name /\ IsFiniteSet(Repo)
  /\ File \subseteq Path \ {<<>>} /\ \A p, q \in File : Within(p, q) => p = q
  /\ Score \in [Repo \X File -> Nat]
  /\ Edits \subseteq [repo : Repo, kind : {"put", "delete", "move", "several"}, paths : Seq(File)]
  /\ \A e \in Edits : Len(e.paths) >= IF e.kind = "move" THEN 2 ELSE 1
  /\ Settings \subseteq [repo : Repo, folder : Path, level : Access \cup {"inherit"}]
  /\ PageSize \in Nat \ {0} /\ MaxCommits \in Nat /\ MaxRuleChanges \in Nat
  /\ InitialRules \subseteq [Repo -> SUBSET Rule]
  /\ \A scopes \in InitialRules : \A r \in Repo : RuleSet(scopes[r])
  /\ \A logs \in InitialLogs :
       LET known == UNION {Range(logs[r]) : r \in Repo}
       IN logs \in [Repo -> Seq(known)] /\ \A tree \in known : IsRevision(tree)

VARIABLES
  log,       \* the history of each repository, as the files after each commit
  rules,     \* the account's rules in each repository
  active,    \* is the account neither disabled nor gone?
  call,      \* what its client is about
  written,   \* past: the account's commits, each with the rules in force meanwhile
  changes    \* past: changes of rules

vars == <<log, rules, active, call, written, changes>>

Excluded(p) == \E i \in DOMAIN p : p[i] \in DotName

TreeAt(history, i) == IF i = 0 THEN [p \in {} |-> 0] ELSE history[i]
Tip(history) == TreeAt(history, Len(history))

Above(p)        == {SubSeq(p, 1, n) : n \in 0..Len(p) - 1}
FoldersOf(tree) == {<<>>} \cup UNION {Above(p) : p \in DOMAIN tree}

\* The members of a set in their order, which is given as those before each.
InOrder(before) ==
  [k \in 1..Cardinality(DOMAIN before) |-> CHOOSE x \in DOMAIN before : Cardinality(before[x]) = k - 1]

\* The total order that listings and ties are sorted by.
Less(p, q) ==
  \E i \in DOMAIN q : (\A j \in 1..i - 1 : j \in DOMAIN p /\ p[j] = q[j])
                      /\ (i \notin DOMAIN p \/ p[i] < q[i])
Sorted(paths) == InOrder([p \in paths |-> {q \in paths : Less(q, p)}])

Slice(s, offset, limit) ==
  SubSeq(s, offset + 1, IF offset + limit < Len(s) THEN offset + limit ELSE Len(s))

-----------------------------------------------------------------------------
(* Routing: a repository exists for an active account with a rule to read  *)
(* something in it.                                                        *)

Reachable == {r \in Repo : active /\ AnyAccess(rules[r])}

-----------------------------------------------------------------------------
(* History.                                                                 *)

NoPath == <<>>
Change(status, path, old) == [status |-> status, path |-> path, old |-> old]

\* What Git reports between two trees; a file that keeps its content under
\* another path is renamed.
Changes(t, u) ==
  LET gone    == DOMAIN t \ DOMAIN u
      new     == DOMAIN u \ DOMAIN t
      renamed == {m \in gone \X new : t[m[1]] = u[m[2]]}
  IN {Change("M", p, NoPath) : p \in {x \in DOMAIN t \cap DOMAIN u : t[x] # u[x]}}
     \cup {Change("D", p, NoPath) : p \in gone \ {m[1] : m \in renamed}}
     \cup {Change("A", p, NoPath) : p \in new \ {m[2] : m \in renamed}}
     \cup {Change("R", m[2], m[1]) : m \in renamed}

ChangesAt(history, i) == Changes(TreeAt(history, i - 1), TreeAt(history, i))

\* redactCommit: the visible part, and is there another?
Redact_Renames(scope, full) ==
  LET Shown(p) == ~Excluded(p) /\ CanRead(scope, p)
      moves == {c \in full : c.old # NoPath}
  IN [shown  |-> {c \in full : Shown(c.path)}
                 \cup {Change("D", c.old, NoPath) : c \in {m \in moves : ~Shown(m.path) /\ Shown(m.old)}},
      hidden |-> \/ \E c \in full \ moves : ~Excluded(c.path) /\ ~CanRead(scope, c.path)
                 \/ \E c \in moves : /\ ~(Shown(c.path) /\ Shown(c.old))
                                     /\ ~(Excluded(c.path) /\ Excluded(c.old))]
Redact(scope, full) ==
  LET Shown(p) == ~Excluded(p) /\ CanRead(scope, p)
      moves == {c \in full : c.old # NoPath}
  IN [shown  |-> {c \in full : Shown(c.path) /\ (c \in moves => Shown(c.old))}
                 \cup {Change("A", c.path, NoPath) : c \in {m \in moves : Shown(m.path) /\ ~Shown(m.old)}}
                 \cup {Change("D", c.old, NoPath) : c \in {m \in moves : ~Shown(m.path) /\ Shown(m.old)}},
      hidden |-> \/ \E c \in full \ moves : ~Excluded(c.path) /\ ~CanRead(scope, c.path)
                 \/ \E c \in moves : /\ ~(Shown(c.path) /\ Shown(c.old))
                                     /\ ~(Excluded(c.path) /\ Excluded(c.old))]

Touches(full, folder) ==
  \E c \in full : Within(folder, c.path) \/ (c.old # NoPath /\ Within(folder, c.old))

\* scopedLog, newest first; a folder is asked for before and after redaction.
Listed(scope, history, folder, i) ==
  LET full == ChangesAt(history, i)
  IN Touches(full, folder) /\ Touches(Redact(scope, full).shown, folder)
NewestFirst(commits) == InOrder([i \in commits |-> {j \in commits : i < j}])
ShownCommits(scope, history, folder) ==
  NewestFirst({i \in 1..Len(history) : Listed(scope, history, folder, i)})

\* A cursor counts visible commits; 0 is none.
LogPage_RawCursor(scope, history, folder, cursor, limit) ==
  LET rest == NewestFirst({i \in 1..Len(history) - cursor : Listed(scope, history, folder, i)})
  IN [commits |-> Slice(rest, 0, limit), next |-> IF limit < Len(rest) THEN cursor + limit ELSE 0]
LogPage(scope, history, folder, cursor, limit) ==
  LET shown == ShownCommits(scope, history, folder)
  IN [commits |-> Slice(shown, cursor, limit),
      next    |-> IF cursor + limit < Len(shown) THEN cursor + limit ELSE 0]

\* The names a file had, followed back from the last commit through renames.
NameAt(history, path) ==
  LET name[i \in 0..Len(history)] ==
        IF i = Len(history) THEN path
        ELSE LET from == {c.old : c \in {d \in ChangesAt(history, i + 1) : d.path = name[i + 1]}} \ {NoPath}
             IN IF from = {} THEN name[i + 1] ELSE CHOOSE p \in from : TRUE
  IN name

\* History stops where the file came from a path the caller may not see.
History(scope, history, path) ==
  LET name == NameAt(history, path)
      hiddenFrom == {i \in 1..Len(history) : name[i - 1] # name[i] /\ ~CanRead(scope, name[i - 1])}
  IN {i \in 1..Len(history) :
        /\ CanRead(scope, path) /\ \A h \in hiddenFrom : h <= i
        /\ \E c \in ChangesAt(history, i) : c.path = name[i]
        /\ Redact(scope, ChangesAt(history, i)).shown # {}}

\* The one content, or not_found.
ShowRevision(scope, tree, path) ==
  {tree[p] : p \in {q \in {path} \cap DOMAIN tree : ~Excluded(q) /\ CanRead(scope, q)}}

\* The paths that differ are filtered before Git compares them.
Diff(scope, t, u, path) ==
  LET paths == {p \in DOMAIN t \cup DOMAIN u : Within(path, p) /\ ~Excluded(p) /\ CanRead(scope, p)}
  IN Changes(Restrict(t, DOMAIN t \cap paths), Restrict(u, DOMAIN u \cap paths))

-----------------------------------------------------------------------------
(* Listings.                                                                *)

\* Vault.List: the children of a folder, or all files below it.
Children(tree, folder) ==
  {SubSeq(p, 1, Len(folder) + 1) : p \in {f \in DOMAIN tree : Within(folder, f) /\ f # folder}}
Below(tree, folder, recursive) ==
  {p \in IF recursive THEN {f \in DOMAIN tree : Within(folder, f)} ELSE Children(tree, folder) : ~Excluded(p)}

\* List; what it answers of a folder it does not find is the same as nothing.
List_Readable(scope, tree, folder, recursive) ==
  {p \in Below(tree, folder, recursive) : Traversable(scope, folder) /\ CanRead(scope, p)}
List(scope, tree, folder, recursive) ==
  {p \in Below(tree, folder, recursive) :
     Traversable(scope, folder) /\ IF p \in DOMAIN tree THEN CanRead(scope, p) ELSE Traversable(scope, p)}

\* LsTree: the same for a revision.
LsTree(scope, tree, folder) == List(scope, tree, folder, FALSE)

\* The root of the workspace, all below it: the listings of the repositories.
RootListing == UNION {{<<r>> \o p : p \in List(rules[r], Tip(log[r]), <<>>, TRUE)} : r \in Reachable}

\* A cursor is the last path of a page.
ListPage(cursor, limit) ==
  LET rest == Sorted({p \in RootListing : cursor = NoPath \/ Less(cursor, p)})
  IN [entries |-> Slice(rest, 0, limit), next |-> IF limit < Len(rest) THEN rest[limit] ELSE NoPath]

-----------------------------------------------------------------------------
(* Searching.                                                               *)

\* The notes that match the query.
Notes(r) == {p \in DOMAIN Tip(log[r]) : ~Excluded(p) /\ Score[<<r, p>>] > 0}

\* When a file was put into the index last: the order of documents there.
IndexedAt(r, p) ==
  CHOOSE i \in 1..Len(log[r]) :
    /\ \A j \in i..Len(log[r]) : p \in DOMAIN log[r][j] /\ log[r][j][p] = log[r][i][p]
    /\ p \notin DOMAIN TreeAt(log[r], i - 1) \/ TreeAt(log[r], i - 1)[p] # log[r][i][p]

\* The ranking of one index breaks ties by that order (files of one commit come
\* in any: here by path), the workspace by path.
RankedBefore(r, p, q) ==
  \/ Score[<<r, p>>] > Score[<<r, q>>]
  \/ /\ Score[<<r, p>>] = Score[<<r, q>>]
     /\ \/ IndexedAt(r, p) < IndexedAt(r, q)
        \/ IndexedAt(r, p) = IndexedAt(r, q) /\ Less(p, q)
Ranked(r, notes) == InOrder([p \in notes |-> {q \in notes : RankedBefore(r, q, p)}])

Better(g, h) ==
  \/ Score[g] > Score[h]
  \/ Score[g] = Score[h] /\ Less(<<g[1]>> \o g[2], <<h[1]>> \o h[2])
Best(hits) == InOrder([h \in hits |-> {g \in hits : Better(g, h)}])

Readable(r) == {p \in Notes(r) : CanRead(rules[r], p)}
Hits(r, notes) == {<<r, p>> : p \in notes}

\* searchVisible: filtered first, then cut.
SearchVisible_CutFirst(r, offset, limit) ==
  SelectSeq(Slice(Ranked(r, Notes(r)), offset, limit), LAMBDA p : CanRead(rules[r], p))
SearchVisible(r, offset, limit) == Slice(Ranked(r, Readable(r)), offset, limit)

\* Each repository contributes its best offset + limit.
Search(offset, limit) ==
  Slice(Best(UNION {Hits(r, Range(SearchVisible(r, 0, offset + limit))) : r \in Reachable}), offset, limit)

\* QuickOpen: the best of each, then the best of those.
QuickOpen(limit) ==
  Slice(Best(UNION {Range(Slice(Best(Hits(r, Readable(r))), 0, limit)) : r \in Reachable}), 0, limit)

\* Grep: a limit on lines, passed on from file to file and to each repository.
GrepFile(found, hit) ==
  LET room == found.limit - found.total
      n == IF Score[hit] < room THEN Score[hit] ELSE room
  IN [found EXCEPT !.total = @ + n, !.truncated = @ \/ n < Score[hit],
                   !.files = IF n = 0 THEN @ ELSE Append(@, <<hit, n>>)]
GrepRepo(found, r) ==
  LET files == Sorted(Readable(r))
      after[n \in 0..Len(files)] == IF n = 0 THEN found ELSE GrepFile(after[n - 1], <<r, files[n]>>)
  IN IF found.total = found.limit THEN [found EXCEPT !.truncated = TRUE] ELSE after[Len(files)]
Grep(limit) ==
  LET repos == InOrder([r \in Reachable |-> {q \in Reachable : q < r}])
      none == [limit |-> limit, total |-> 0, truncated |-> FALSE, files |-> <<>>]
      after[n \in 0..Len(repos)] == IF n = 0 THEN none ELSE GrepRepo(after[n - 1], repos[n])
  IN after[Len(repos)]

-----------------------------------------------------------------------------
(* The client.                                                              *)

NoCall == [pc |-> "idle"]

Init ==
  /\ rules \in InitialRules /\ active = TRUE
  /\ log \in InitialLogs
  /\ call = NoCall /\ written = {} /\ changes = 0

Quiet == UNCHANGED <<log, rules, active, written, changes>>

\* What a walk that begins now looks back to.
Begun == [r \in Repo |-> Len(log[r])]

\* Reading the log of a repository, page after page.
BeginsLog(r) ==
  /\ call = NoCall
  /\ call' = [pc |-> "log", repo |-> r, cursor |-> 0, got |-> <<>>, steady |-> TRUE, begun |-> Begun]
  /\ Quiet

ReadsLog ==
  /\ call.pc = "log"
  /\ LET page == LogPage(rules[call.repo], log[call.repo], <<>>, call.cursor, PageSize)
     IN call' = IF call.repo \notin Reachable THEN NoCall
                ELSE [call EXCEPT !.got = @ \o page.commits, !.cursor = page.next,
                                  !.pc = IF page.next = 0 THEN "logged" ELSE "log"]
  /\ Quiet

\* Listing everything, page after page.
BeginsList ==
  /\ call = NoCall
  /\ call' = [pc |-> "list", cursor |-> NoPath, got |-> <<>>, steady |-> TRUE, begun |-> Begun]
  /\ Quiet

ListsPage ==
  /\ call.pc = "list"
  /\ LET page == ListPage(call.cursor, PageSize)
     IN call' = [call EXCEPT !.got = @ \o page.entries, !.cursor = page.next,
                             !.pc = IF page.next = NoPath THEN "listed" ELSE "list"]
  /\ Quiet

EndsWalk == call.pc \in {"logged", "listed"} /\ call' = NoCall /\ Quiet

-----------------------------------------------------------------------------
(* Changing files.                                                          *)

\* What a change leaves of a tree, if it can be made; editors may commit several files.
Edited(tree, kind, paths, n) ==
  LET p == paths[1]
      Put(ps) == [q \in DOMAIN tree \cup ps |-> IF q \in ps THEN <<n, q>> ELSE tree[q]]
  IN CASE kind = "put"    -> {Put({p})}
       [] kind = "several"  -> {Put(Range(paths))}
       [] kind = "delete" -> {Restrict(tree, DOMAIN tree \ {q}) : q \in {p} \cap DOMAIN tree}
       [] kind = "move"   -> {[q \in (DOMAIN tree \ {p}) \cup {paths[2]} |->
                                 IF q = paths[2] THEN tree[p] ELSE tree[q]] :
                              x \in {y \in {p} : p \in DOMAIN tree /\ paths[2] \notin DOMAIN tree}}

Commit(e) ==
  /\ FoldFunction(LAMBDA h, n : Len(h) + n, 0, log) < MaxCommits
  /\ \E t \in Edited(Tip(log[e.repo]), e.kind, e.paths, Len(log[e.repo]) + 1) :
       log' = [log EXCEPT ![e.repo] = Append(@, t)]

\* A write of the account: the path is routed and guarded under the rules of
\* one moment; the lock of the vault and the remote come after.
InForce(r) == IF active THEN rules[r] ELSE {}

Asks(e) ==
  /\ call = NoCall /\ e.kind # "several"
  /\ call' = [pc |-> "asked", edit |-> e, since |-> {InForce(e.repo)}]
  /\ Quiet

\* writable, and the two guards of MoveNote.
Guarded_Readable(scope, paths) == \A i \in DOMAIN paths : CanRead(scope, paths[i])
Guarded(scope, paths) == \A i \in DOMAIN paths : CanRead(scope, paths[i]) /\ CanWrite(scope, paths[i])

Admits ==
  /\ call.pc = "asked"
  /\ call' = IF call.edit.repo \in Reachable /\ Guarded(rules[call.edit.repo], call.edit.paths)
             THEN [call EXCEPT !.pc = "admitted"] ELSE NoCall
  /\ Quiet

\* An excluded path fails Check; so may the rest of the operation.
Commits ==
  /\ call.pc = "admitted"
  /\ \/ /\ \A i \in DOMAIN call.edit.paths : ~Excluded(call.edit.paths[i])
        /\ Commit(call.edit)
        /\ written' = written \cup {[repo |-> call.edit.repo, commit |-> Len(log'[call.edit.repo]),
                                     since |-> call.since]}
     \/ UNCHANGED <<log, written>>
  /\ call' = NoCall
  /\ UNCHANGED <<rules, active, changes>>

\* Other accounts, editors and the remote.
OthersCommit(e) == Commit(e) /\ UNCHANGED <<rules, active, call, written, changes>>

-----------------------------------------------------------------------------
(* The administrator.                                                       *)

RulesChange ==
  /\ changes < MaxRuleChanges /\ changes' = changes + 1
  /\ call' = CASE call.pc \in {"asked", "admitted"} ->
                    [call EXCEPT !.since = @ \cup {IF active' THEN rules'[call.edit.repo] ELSE {}}]
               [] call.pc = "idle" -> call
               [] OTHER -> [call EXCEPT !.steady = FALSE]
  /\ UNCHANGED <<log, written>>

\* accessPost: a level is set on folders that exist, and cleared on any.
SetsRule(s) ==
  /\ s.level = "inherit" \/ s.folder \in FoldersOf(Tip(log[s.repo]))
  /\ rules' = [rules EXCEPT ![s.repo] = {q \in @ : q.path # s.folder}
                 \cup IF s.level = "inherit" THEN {} ELSE {[path |-> s.folder, level |-> s.level]}]
  /\ UNCHANGED active
  /\ RulesChange

SetsActive(on) == active' = on /\ UNCHANGED rules /\ RulesChange

Next ==
  \/ \E r \in Repo : BeginsLog(r)
  \/ ReadsLog \/ BeginsList \/ ListsPage \/ EndsWalk
  \/ \E e \in Edits : Asks(e) \/ OthersCommit(e)
  \/ Admits \/ Commits
  \/ \E s \in Settings : SetsRule(s)
  \/ \E on \in BOOLEAN \ {active} : SetsActive(on)

Spec == Init /\ [][Next]_vars

-----------------------------------------------------------------------------
(* What must hold.  Answers depend on nothing that a client is about: what   *)
(* is said of them is said where there is none.                             *)

\* The level a path inherits from its parent, unless it has its own.
Own(scope, p) == {q.level : q \in {x \in scope : x.path = p}}
Nearest(scope, p) ==
  LET down[n \in 0..Len(p)] ==
        IF Own(scope, SubSeq(p, 1, n)) # {} THEN CHOOSE l \in Own(scope, SubSeq(p, 1, n)) : TRUE
        ELSE IF n = 0 THEN "none" ELSE down[n - 1]
  IN down[Len(p)]

\* One rule decides each path, the nearest one at or above it, as the panel
\* shows it.  A folder is shown exactly when it or something granted below it
\* is readable (acl.go:46-91).
RulesNest ==
  \A r \in Repo :
    LET paths == File \cup (UNION {Above(p) : p \in File}) \cup {q.path : q \in rules[r]}
    IN /\ RuleSet(rules[r])
       /\ \A p \in paths : Level(rules[r], p) = Nearest(rules[r], p)
       /\ \A f \in paths : Traversable(rules[r], f) <=>
                            \E p \in paths : Within(f, p) /\ Reads(Nearest(rules[r], p))

\* The tree without what the account may not see.
Strip(scope, tree) ==
  Restrict(tree, {p \in DOMAIN tree : ~Excluded(p) /\ CanRead(scope, p)})

\* A rename as a deletion and an addition.
Unpaired(full) ==
  {c \in full : c.status # "R"}
  \cup UNION {{Change("D", c.old, NoPath), Change("A", c.path, NoPath)} : c \in {d \in full : d.status = "R"}}

\* What an account cannot read is as if it did not exist, in whatever way the
\* repository is asked: a commit shows exactly what changed in the tree
\* without the hidden files, and keeps its message to itself when it changed
\* any of those; a listing holds the files of that tree and every folder on
\* the way to them; a diff of two revisions is the diff of two such trees;
\* and the history of a note never goes on under a name that is hidden
\* (scope.go:163-209, history.go:115-280, read.go:148-193).
HiddenIsAbsent ==
  call = NoCall => \A r \in Repo :
    LET scope == rules[r]
        Trees == {TreeAt(log[r], i) : i \in 0..Len(log[r])}
    IN /\ \A i \in 1..Len(log[r]) :
            LET full == ChangesAt(log[r], i)
                seen == Redact(scope, full)
            IN /\ Unpaired(seen.shown) =
                    Unpaired(Changes(Strip(scope, TreeAt(log[r], i - 1)), Strip(scope, log[r][i])))
               /\ (\E c \in Unpaired(full) : ~Excluded(c.path) /\ ~CanRead(scope, c.path)) => seen.hidden
               /\ seen.hidden => \E c \in Unpaired(full) : Excluded(c.path) \/ ~CanRead(scope, c.path)
       /\ \A t \in Trees :
            /\ List(scope, t, <<>>, TRUE) = DOMAIN Strip(scope, t)
            /\ \A p \in DOMAIN Strip(scope, t) : \A n \in 0..Len(p) - 1 :
                 SubSeq(p, 1, n + 1) \in LsTree(scope, t, SubSeq(p, 1, n))
       /\ \A t, u \in Trees : Diff(scope, t, u, <<>>) = Changes(Strip(scope, t), Strip(scope, u))
       /\ \A p \in File : \A i \in History(scope, log[r], p) : \A j \in i..Len(log[r]) :
            CanRead(scope, NameAt(log[r], p)[j])

\* Scores that tell all notes apart.
Distinct == \A g, h \in Repo \X File : Score[g] = Score[h] /\ Score[g] > 0 => g = h

\* The matching lines of files.
Lines(hits) == UNION {{g} \X (1..Score[g]) : g \in hits}

\* Pages of results are cut from one ranking of what the account may read, of
\* all repositories together: no note is left out or comes twice because of
\* a limit, an offset or a note that is hidden, whatever each repository
\* contributed (ops.go:124-205 and 254-264, index.go:309-336).
PagesOfOneRanking ==
  call = NoCall =>
  LET all == UNION {Hits(r, Readable(r)) : r \in Reachable}
      lines == Cardinality(Lines(all))
      ranking == Best(all)
  IN /\ Distinct => \A offset \in 0..Cardinality(all), limit \in 1..Cardinality(all) + 1 :
                      Search(offset, limit) = Slice(ranking, offset, limit)
     /\ \A limit \in 1..Cardinality(all) + 1 : QuickOpen(limit) = Slice(ranking, 0, limit)
     /\ \A limit \in 1..lines + 1 :
          LET found == Grep(limit)
          IN /\ found.total = IF limit < lines THEN limit ELSE lines
             /\ limit < lines => found.truncated
             /\ {f[1] : f \in Range(found.files)} \subseteq all

\* A client that follows the cursor of a log or of a listing to its end while
\* others commit has seen everything that was there all the time; each entry
\* once, and each commit once when none came in between (history.go:61-99,
\* ops.go:66-88).
WalksMissNothing ==
  /\ call.pc = "logged" /\ call.steady =>
       LET Then(n) == ShownCommits(rules[call.repo], SubSeq(log[call.repo], 1, n), <<>>)
       IN /\ Range(Then(call.begun[call.repo])) \subseteq Range(call.got)
          /\ call.begun[call.repo] = Len(log[call.repo]) => call.got = Then(call.begun[call.repo])
  /\ call.pc = "listed" /\ call.steady =>
       /\ \A i, j \in DOMAIN call.got : i < j => Less(call.got[i], call.got[j])
       /\ \A r \in Reachable, p \in File :
            (\A i \in call.begun[r]..Len(log[r]) : p \in DOMAIN Strip(rules[r], TreeAt(log[r], i)))
              => <<r>> \o p \in Range(call.got)

\* A commit of an account changes only paths that the rules of one moment
\* since it asked let it write, all of them in that moment; so an account
\* that was already disabled when it asked commits nothing
\* (write.go's writable, scope.go:134-143, workspace.go:300-323).
WritesWithinRules ==
  \A w \in written : \E scope \in w.since :
    \A c \in Unpaired(ChangesAt(log[w.repo], w.commit)) : CanWrite(scope, c.path) /\ ~Excluded(c.path)

=============================================================================
