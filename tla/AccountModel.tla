----------------------------- MODULE AccountModel -----------------------------
(***************************************************************************)
(* The document a multi-user server keeps in its state file -- accounts,   *)
(* repositories and access rules -- and the functions of                   *)
(* internal/store/model.go that change it.                                 *)
(*                                                                         *)
(* A function that may refuse is the set of the documents it can leave     *)
(* behind: empty when it returns an error.                                 *)
(***************************************************************************)
EXTENDS Naturals, FiniteSets, Functions

CONSTANTS
  AccountId, RepoId,   \* what NewID hands out
  Address,             \* addresses as people type them
  Email,               \* canonical addresses
  Canonical,           \* NormalizeEmail: an address to its canonical form
  Alias,               \* names of repositories that ValidAlias accepts
  BadAlias,            \* names it rejects
  Folder,              \* paths of folders in a repository
  Root,                \* the path of the repository itself
  AdminAddress         \* administrators' addresses the settings may name

NoEmail == "not an address"

ASSUME AddressAssumption ==
  /\ Canonical \in [Address -> Email \cup {NoEmail}] /\ NoEmail \notin Email
  /\ AdminAddress \subseteq Address
ASSUME NameAssumption == Root \in Folder /\ Alias \cap BadAlias = {}

Levels   == {"none", "read", "write"}
BadLevel == "owner"    \* what a form may say instead

Account  == [email : Email, admin : BOOLEAN, disabled : BOOLEAN]
RuleType == [account : AccountId, repo : RepoId, path : Folder, level : Levels]
State    == [accounts : UNION {[A -> Account] : A \in SUBSET AccountId},
             repos    : UNION {[R -> Alias] : R \in SUBSET RepoId},
             rules    : SUBSET RuleType,
             migrated : BOOLEAN,    \* OAuthMigrated
             imported : BOOLEAN]

emptyState == [accounts |-> [a \in {} |-> 0], repos |-> [r \in {} |-> 0], rules |-> {},
               migrated |-> FALSE, imported |-> FALSE]

Provided(allowed, s) == IF allowed THEN {s} ELSE {}

With(f, key, value) == [x \in DOMAIN f \cup {key} |-> IF x = key THEN value ELSE f[x]]
Without(f, key)     == Restrict(f, DOMAIN f \ {key})

NewAccountIds(s) == AccountId \ DOMAIN s.accounts
NewRepoIds(s)    == RepoId \ DOMAIN s.repos

-----------------------------------------------------------------------------
(* Accounts.                                                                *)

AccountByEmail(s, address) ==
  {a \in DOMAIN s.accounts : s.accounts[a].email = Canonical[address]}

AddAccount(s, address, admin, id) ==
  Provided(Canonical[address] # NoEmail /\ AccountByEmail(s, address) = {},
           [s EXCEPT !.accounts = With(@, id, [email |-> Canonical[address], admin |-> admin,
                                               disabled |-> FALSE])])

\* The panel's form makes nobody an administrator.
AddUser(s, address, id) == AddAccount(s, address, FALSE, id)

\* The account of an address becomes the only administrator, and active.
OnlyAdmin(s, id) ==
  [s EXCEPT !.accounts = [a \in DOMAIN @ |->
      IF a = id THEN [@[a] EXCEPT !.admin = TRUE, !.disabled = FALSE]
      ELSE [@[a] EXCEPT !.admin = FALSE]]]

EnsureAdmin_AddsUser(s, address, id) ==
  {OnlyAdmin(s, a) : a \in AccountByEmail(s, address)} \cup AddAccount(s, address, FALSE, id)
EnsureAdmin(s, address, id) ==
  {OnlyAdmin(s, a) : a \in AccountByEmail(s, address)}
  \cup {OnlyAdmin(t, id) : t \in AddAccount(s, address, TRUE, id)}

SetDisabled(s, id, disabled) ==
  Provided(id \in DOMAIN s.accounts, [s EXCEPT !.accounts[id].disabled = disabled])

DeleteAccount(s, id) ==
  LET rest == [s EXCEPT !.rules = {r \in @ : r.account # id}]
  IN Provided(id \in DOMAIN s.accounts, [rest EXCEPT !.accounts = Without(@, id)])

-----------------------------------------------------------------------------
(* Repositories.                                                            *)

RepoByAlias(s, alias) == {r \in DOMAIN s.repos : s.repos[r] = alias}

AddRepo(s, alias, id) ==
  Provided(alias \in Alias /\ RepoByAlias(s, alias) = {}, [s EXCEPT !.repos = With(@, id, alias)])

DeleteRepo(s, id) ==
  LET rest == [s EXCEPT !.rules = {r \in @ : r.repo # id}]
  IN Provided(id \in DOMAIN s.repos, [rest EXCEPT !.repos = Without(@, id)])

-----------------------------------------------------------------------------
(* Rules: at most one of an account on a folder.                            *)

RulesFor(s, account, repo) == {r \in s.rules : r.account = account /\ r.repo = repo}

OnFolder(s, account, repo, path) == {r \in RulesFor(s, account, repo) : r.path = path}

SetRule_AnyLevel(s, account, repo, path, level) ==
  Provided(account \in DOMAIN s.accounts /\ repo \in DOMAIN s.repos,
           [s EXCEPT !.rules = (@ \ OnFolder(s, account, repo, path)) \cup
                       {[account |-> account, repo |-> repo, path |-> path, level |-> level]}])
SetRule(s, account, repo, path, level) ==
  Provided(level \in Levels /\ account \in DOMAIN s.accounts /\ repo \in DOMAIN s.repos,
           [s EXCEPT !.rules = (@ \ OnFolder(s, account, repo, path)) \cup
                       {[account |-> account, repo |-> repo, path |-> path, level |-> level]}])

ClearRule(s, account, repo, path) ==
  {[s EXCEPT !.rules = @ \ OnFolder(s, account, repo, path)]}

-----------------------------------------------------------------------------
(* What Update is called with.                                              *)

\* The clients of a classic server, once; the OAuth section is OAuthTokens.
ImportClients(s) == Provided(~s.migrated, [s EXCEPT !.migrated = TRUE])

\* The vault of the classic settings, once and only into an empty registry;
\* its administrator may write to it.
Imports(s) == ~s.imported /\ DOMAIN s.repos = {}
ImportVault(s, alias, id) ==
  LET admins == {a \in DOMAIN s.accounts : s.accounts[a].admin}
      granted == {[account |-> a, repo |-> id, path |-> Root, level |-> "write"] : a \in admins}
      marked == [s EXCEPT !.imported = TRUE]
  IN {[t EXCEPT !.rules = @ \cup granted] : t \in AddRepo(marked, alias, id)}

\* The panel leaves the administrator's account alone.
Others(s) == {a \in DOMAIN s.accounts : ~s.accounts[a].admin}

PanelChanges(s) ==
  (UNION {AddUser(s, e, i) : e \in Address, i \in NewAccountIds(s)})
  \cup (UNION {SetDisabled(s, a, d) : a \in Others(s), d \in BOOLEAN})
  \cup (UNION {DeleteAccount(s, a) : a \in Others(s)})
  \cup (UNION {AddRepo(s, n, i) : n \in Alias \cup BadAlias, i \in NewRepoIds(s)})
  \cup (UNION {DeleteRepo(s, r) : r \in DOMAIN s.repos})
  \cup (UNION {SetRule(s, a, r, p, l) : a \in DOMAIN s.accounts, r \in DOMAIN s.repos, p \in Folder,
                                      l \in Levels \cup {BadLevel}})
  \cup (UNION {ClearRule(s, a, r, p) : a \in DOMAIN s.accounts, r \in DOMAIN s.repos, p \in Folder})

AdminChanges(s)  == UNION {EnsureAdmin(s, e, i) : e \in AdminAddress, i \in NewAccountIds(s)}
ImportChanges(s) == UNION {ImportVault(s, n, i) : n \in Alias, i \in NewRepoIds(s)}

\* With s itself: credentials, times of sign-in, the OAuth section.
Changes(s) == {s} \cup PanelChanges(s) \cup AdminChanges(s) \cup ImportClients(s) \cup ImportChanges(s)

-----------------------------------------------------------------------------
(* What every document should satisfy.                                      *)

RulesRefer(s)    == \A r \in s.rules : r.account \in DOMAIN s.accounts /\ r.repo \in DOMAIN s.repos
OneRuleEach(s)   == \A r, q \in s.rules :
                      r.account = q.account /\ r.repo = q.repo /\ r.path = q.path => r = q
OneEmailEach(s)  == \A a, b \in DOMAIN s.accounts : s.accounts[a].email = s.accounts[b].email => a = b
OneAliasEach(s)  == \A r, q \in DOMAIN s.repos : s.repos[r] = s.repos[q] => r = q
AdminIsActive(s) == \A a, b \in DOMAIN s.accounts :
                      s.accounts[a].admin => ~s.accounts[a].disabled /\ (s.accounts[b].admin => a = b)
HasAdmin(s) == \E a \in DOMAIN s.accounts : s.accounts[a].admin /\ ~s.accounts[a].disabled
Consistent(s) ==
  RulesRefer(s) /\ OneRuleEach(s) /\ OneEmailEach(s) /\ OneAliasEach(s) /\ AdminIsActive(s)
=============================================================================
