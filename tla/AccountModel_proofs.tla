------------------------- MODULE AccountModel_proofs -------------------------
(***************************************************************************)
(* Every change of internal/store/model.go keeps the document well formed: *)
(* rules refer to what exists and are one to a folder, addresses and names *)
(* are unique, and there is at most one administrator, who is active.      *)
(***************************************************************************)
EXTENDS AccountModel, TLAPS

-----------------------------------------------------------------------------
(* What a document is made of.                                              *)

LEMMA StateFields ==
  ASSUME NEW s \in State
  PROVE  /\ DOMAIN s.accounts \subseteq AccountId /\ s.accounts \in [DOMAIN s.accounts -> Account]
         /\ DOMAIN s.repos \subseteq RepoId /\ s.repos \in [DOMAIN s.repos -> Alias]
         /\ s.rules \subseteq RuleType /\ s.migrated \in BOOLEAN /\ s.imported \in BOOLEAN
         /\ s = [accounts |-> s.accounts, repos |-> s.repos, rules |-> s.rules,
                 migrated |-> s.migrated, imported |-> s.imported]
BY DEF State

LEMMA StateMade ==
  ASSUME NEW A \in SUBSET AccountId, NEW a \in [A -> Account],
         NEW R \in SUBSET RepoId, NEW r \in [R -> Alias],
         NEW u \in SUBSET RuleType, NEW m \in BOOLEAN, NEW i \in BOOLEAN
  PROVE  [accounts |-> a, repos |-> r, rules |-> u, migrated |-> m, imported |-> i] \in State
<1>1. a \in UNION {[B -> Account] : B \in SUBSET AccountId}
  OBVIOUS
<1>2. r \in UNION {[B -> Alias] : B \in SUBSET RepoId}
  OBVIOUS
<1> QED
  BY <1>1, <1>2 DEF State

LEMMA SetAccounts ==
  ASSUME NEW s \in State, NEW a
  PROVE  [s EXCEPT !.accounts = a] = [accounts |-> a, repos |-> s.repos, rules |-> s.rules,
                                      migrated |-> s.migrated, imported |-> s.imported]
BY StateFields

LEMMA SetRepos ==
  ASSUME NEW s \in State, NEW r
  PROVE  [s EXCEPT !.repos = r] = [accounts |-> s.accounts, repos |-> r, rules |-> s.rules,
                                   migrated |-> s.migrated, imported |-> s.imported]
BY StateFields

LEMMA SetRules ==
  ASSUME NEW s \in State, NEW u
  PROVE  [s EXCEPT !.rules = u] = [accounts |-> s.accounts, repos |-> s.repos, rules |-> u,
                                   migrated |-> s.migrated, imported |-> s.imported]
BY StateFields

LEMMA SetMarks ==
  ASSUME NEW s \in State, NEW m
  PROVE  /\ [s EXCEPT !.migrated = m] = [accounts |-> s.accounts, repos |-> s.repos,
                                        rules |-> s.rules, migrated |-> m, imported |-> s.imported]
         /\ [s EXCEPT !.imported = m] = [accounts |-> s.accounts, repos |-> s.repos,
                                        rules |-> s.rules, migrated |-> s.migrated, imported |-> m]
BY StateFields

(* Fewer rules are still rules.                                            *)
LEMMA FewerRules ==
  ASSUME NEW s \in State, NEW u \in SUBSET s.rules
  PROVE  /\ [s EXCEPT !.rules = u] \in State
         /\ [s EXCEPT !.rules = u].rules = u
         /\ [s EXCEPT !.rules = u].accounts = s.accounts /\ [s EXCEPT !.rules = u].repos = s.repos
         /\ Consistent(s) => Consistent([s EXCEPT !.rules = u])
<1> DEFINE t == [s EXCEPT !.rules = u]
<1>1. t = [accounts |-> s.accounts, repos |-> s.repos, rules |-> u,
           migrated |-> s.migrated, imported |-> s.imported]
  BY SetRules, Zenon
<1> HIDE DEF t
<1>2. t.accounts = s.accounts /\ t.repos = s.repos /\ t.rules = u
  BY <1>1
<1>3. t \in State
  BY <1>1, StateFields, StateMade
<1>4. Consistent(s) => Consistent(t)
  BY <1>2 DEF Consistent, RulesRefer, OneRuleEach, OneEmailEach, OneAliasEach, AdminIsActive
<1> QED
  BY <1>2, <1>3, <1>4 DEF t

LEMMA EmptyIsWell == emptyState \in State /\ Consistent(emptyState)
<1>1. emptyState \in State
  <2>1. [a \in {} |-> 0] \in [{} -> Account] /\ [a \in {} |-> 0] \in [{} -> Alias]
    OBVIOUS
  <2> QED
    BY <2>1, StateMade DEF emptyState
<1>2. Consistent(emptyState)
  BY DEF emptyState, Consistent, RulesRefer, OneRuleEach, OneEmailEach, OneAliasEach, AdminIsActive
<1> QED
  BY <1>1, <1>2

(* All but the last: what holds while an administrator is being made.      *)
AlmostConsistent(s) == RulesRefer(s) /\ OneRuleEach(s) /\ OneEmailEach(s) /\ OneAliasEach(s)

-----------------------------------------------------------------------------
(* Accounts.                                                                *)

LEMMA NewAccountKeeps ==
  ASSUME NEW s \in State, AlmostConsistent(s), NEW id \in NewAccountIds(s), NEW new \in Account,
         \A a \in DOMAIN s.accounts : s.accounts[a].email # new.email,
         NEW t, t = [accounts |-> With(s.accounts, id, new), repos |-> s.repos, rules |-> s.rules,
                     migrated |-> s.migrated, imported |-> s.imported]
  PROVE  /\ t \in State /\ AlmostConsistent(t)
         /\ \A a \in DOMAIN s.accounts : a \in DOMAIN t.accounts /\ t.accounts[a] = s.accounts[a]
         /\ DOMAIN t.accounts = DOMAIN s.accounts \cup {id} /\ t.accounts[id] = new
<1>1. t.accounts = With(s.accounts, id, new) /\ t.repos = s.repos /\ t.rules = s.rules
  OBVIOUS
<1>2. id \in AccountId /\ id \notin DOMAIN s.accounts
  BY DEF NewAccountIds
<1>3. /\ t.accounts \in [DOMAIN s.accounts \cup {id} -> Account] /\ t.accounts[id] = new
      /\ \A x \in DOMAIN s.accounts : x # id => t.accounts[x] = s.accounts[x]
      /\ DOMAIN t.accounts = DOMAIN s.accounts \cup {id}
  <2>1. s.accounts \in [DOMAIN s.accounts -> Account]
    BY StateFields
  <2>2. /\ With(s.accounts, id, new) \in [DOMAIN s.accounts \cup {id} -> Account]
        /\ DOMAIN With(s.accounts, id, new) = DOMAIN s.accounts \cup {id}
        /\ With(s.accounts, id, new)[id] = new
        /\ \A x \in DOMAIN s.accounts : x # id => With(s.accounts, id, new)[x] = s.accounts[x]
    BY <2>1 DEF With
  <2> QED
    BY <1>1, <2>2, Zenon
<1>4. t \in State
  <2> DEFINE A == With(s.accounts, id, new)
      B == DOMAIN s.accounts \cup {id}
  <2>1. A \in [B -> Account] /\ B \subseteq AccountId
    BY <1>1, <1>2, <1>3, StateFields
  <2> HIDE DEF A, B
  <2>2. [accounts |-> A, repos |-> s.repos, rules |-> s.rules,
         migrated |-> s.migrated, imported |-> s.imported] \in State
    BY <2>1, StateFields, StateMade
  <2> QED
    BY <2>2 DEF A
<1>5. RulesRefer(t) /\ OneRuleEach(t) /\ OneAliasEach(t)
  BY <1>1, <1>3 DEF AlmostConsistent, RulesRefer, OneRuleEach, OneAliasEach
<1>6. OneEmailEach(t)
  BY <1>2, <1>3 DEF AlmostConsistent, OneEmailEach
<1> QED
  BY <1>2, <1>3, <1>4, <1>5, <1>6 DEF AlmostConsistent

(* EnsureAdmin's loop leaves one administrator, an active one.             *)
LEMMA OnlyAdminKeeps ==
  ASSUME NEW s \in State, AlmostConsistent(s), NEW id \in DOMAIN s.accounts
  PROVE  /\ OnlyAdmin(s, id) \in State /\ Consistent(OnlyAdmin(s, id))
         /\ DOMAIN OnlyAdmin(s, id).accounts = DOMAIN s.accounts
         /\ OnlyAdmin(s, id).accounts[id].admin /\ ~OnlyAdmin(s, id).accounts[id].disabled
<1> DEFINE t == OnlyAdmin(s, id)
<1>1. s.accounts \in [DOMAIN s.accounts -> Account] /\ DOMAIN s.accounts \subseteq AccountId
  BY StateFields
<1>2. /\ t.repos = s.repos /\ t.rules = s.rules
      /\ t.accounts = [a \in DOMAIN s.accounts |->
            IF a = id THEN [s.accounts[a] EXCEPT !.admin = TRUE, !.disabled = FALSE]
            ELSE [s.accounts[a] EXCEPT !.admin = FALSE]]
      /\ t = [accounts |-> t.accounts, repos |-> s.repos, rules |-> s.rules,
              migrated |-> s.migrated, imported |-> s.imported]
  <2> DEFINE a == [x \in DOMAIN s.accounts |->
                     IF x = id THEN [s.accounts[x] EXCEPT !.admin = TRUE, !.disabled = FALSE]
                     ELSE [s.accounts[x] EXCEPT !.admin = FALSE]]
  <2>1. t = [s EXCEPT !.accounts = a]
    BY Zenon DEF OnlyAdmin
  <2>2. t = [accounts |-> a, repos |-> s.repos, rules |-> s.rules,
             migrated |-> s.migrated, imported |-> s.imported]
    BY <2>1, SetAccounts, Zenon
  <2>3. t.accounts = a /\ t.repos = s.repos /\ t.rules = s.rules
    <3> HIDE DEF a, t
    <3> QED BY <2>2
  <2> QED
    BY <2>2, <2>3, Zenon
<1> HIDE DEF t
<1>3. ASSUME NEW a \in DOMAIN s.accounts
      PROVE  /\ t.accounts[a] \in Account /\ t.accounts[a].email = s.accounts[a].email
             /\ t.accounts[a].admin = (a = id) /\ (a = id => ~t.accounts[a].disabled)
  <2>1. s.accounts[a] \in Account
    BY <1>1
  <2> QED
    BY <1>2, <2>1 DEF Account
<1>4. DOMAIN t.accounts = DOMAIN s.accounts
  BY <1>2
<1>5. t.accounts \in [DOMAIN s.accounts -> Account]
  BY <1>2, <1>3
<1>6. t \in State
  <2>1. [accounts |-> t.accounts, repos |-> s.repos, rules |-> s.rules,
         migrated |-> s.migrated, imported |-> s.imported] \in State
    BY <1>1, <1>5, StateFields, StateMade
  <2> QED
    BY <1>2, <2>1, Zenon
<1>7. RulesRefer(t) /\ OneRuleEach(t) /\ OneAliasEach(t)
  BY <1>2, <1>4 DEF AlmostConsistent, RulesRefer, OneRuleEach, OneAliasEach
<1>8. OneEmailEach(t)
  BY <1>3, <1>4 DEF AlmostConsistent, OneEmailEach
<1>9. AdminIsActive(t)
  BY <1>3, <1>4 DEF AdminIsActive
<1> QED
  BY <1>3, <1>4, <1>6, <1>7, <1>8, <1>9 DEF Consistent, t

LEMMA EnsureAdminKeeps ==
  ASSUME NEW s \in State, Consistent(s), NEW address \in AdminAddress,
         NEW id \in NewAccountIds(s), NEW t \in EnsureAdmin(s, address, id)
  PROVE  t \in State /\ Consistent(t) /\ HasAdmin(t)
<1>1. AlmostConsistent(s)
  BY DEF Consistent, AlmostConsistent
<1>2. CASE \E a \in AccountByEmail(s, address) : t = OnlyAdmin(s, a)
  <2>1. PICK a \in AccountByEmail(s, address) : t = OnlyAdmin(s, a)
    BY <1>2
  <2>2. a \in DOMAIN s.accounts
    BY DEF AccountByEmail
  <2> QED
    BY <1>1, <2>1, <2>2, OnlyAdminKeeps DEF HasAdmin
<1>3. CASE \E v \in AddAccount(s, address, TRUE, id) : t = OnlyAdmin(v, id)
  <2>1. PICK v \in AddAccount(s, address, TRUE, id) : t = OnlyAdmin(v, id)
    BY <1>3
  <2>2. /\ v = [s EXCEPT !.accounts = With(s.accounts, id, [email |-> Canonical[address],
                                         admin |-> TRUE, disabled |-> FALSE])]
        /\ Canonical[address] # NoEmail /\ AccountByEmail(s, address) = {}
    BY <2>1 DEF AddAccount, Provided
  <2> DEFINE new == [email |-> Canonical[address], admin |-> TRUE, disabled |-> FALSE]
  <2>3. new \in Account /\ \A a \in DOMAIN s.accounts : s.accounts[a].email # new.email
    BY <2>2, AddressAssumption DEF Account, AccountByEmail
  <2>4. v = [accounts |-> With(s.accounts, id, new), repos |-> s.repos, rules |-> s.rules,
             migrated |-> s.migrated, imported |-> s.imported]
    BY <2>2, SetAccounts, Zenon
  <2> HIDE DEF new
  <2>5. v \in State /\ AlmostConsistent(v) /\ id \in DOMAIN v.accounts
    BY <1>1, <2>3, <2>4, NewAccountKeeps
  <2> QED
    BY <2>1, <2>5, OnlyAdminKeeps DEF HasAdmin
<1> QED
  BY <1>2, <1>3 DEF EnsureAdmin

LEMMA PlainAccountKeeps ==
  ASSUME NEW s \in State, Consistent(s), NEW id \in NewAccountIds(s), NEW new \in Account, ~new.admin,
         \A a \in DOMAIN s.accounts : s.accounts[a].email # new.email,
         NEW t, t = [accounts |-> With(s.accounts, id, new), repos |-> s.repos, rules |-> s.rules,
                     migrated |-> s.migrated, imported |-> s.imported]
  PROVE  t \in State /\ Consistent(t) /\ (HasAdmin(s) => HasAdmin(t))
<1>1. AlmostConsistent(s) /\ AdminIsActive(s)
  BY DEF Consistent, AlmostConsistent
<1>2. /\ t \in State /\ AlmostConsistent(t)
      /\ \A a \in DOMAIN s.accounts : a \in DOMAIN t.accounts /\ t.accounts[a] = s.accounts[a]
      /\ DOMAIN t.accounts = DOMAIN s.accounts \cup {id} /\ t.accounts[id] = new
  BY <1>1, NewAccountKeeps
<1>3. AdminIsActive(t)
  BY <1>1, <1>2 DEF AdminIsActive
<1> QED
  BY <1>2, <1>3 DEF Consistent, AlmostConsistent, HasAdmin

LEMMA AddUserKeeps ==
  ASSUME NEW s \in State, Consistent(s), NEW address \in Address,
         NEW id \in NewAccountIds(s), NEW t \in AddUser(s, address, id)
  PROVE  t \in State /\ Consistent(t) /\ (HasAdmin(s) => HasAdmin(t))
<1> DEFINE new == [email |-> Canonical[address], admin |-> FALSE, disabled |-> FALSE]
<1>1. /\ t = [s EXCEPT !.accounts = With(s.accounts, id, new)]
      /\ Canonical[address] # NoEmail /\ AccountByEmail(s, address) = {}
  BY DEF AddUser, AddAccount, Provided
<1>2. new \in Account /\ ~new.admin /\ \A a \in DOMAIN s.accounts : s.accounts[a].email # new.email
  BY <1>1, AddressAssumption DEF Account, AccountByEmail
<1> HIDE DEF new
<1>3. t = [accounts |-> With(s.accounts, id, new), repos |-> s.repos, rules |-> s.rules,
           migrated |-> s.migrated, imported |-> s.imported]
  BY <1>1, SetAccounts, Zenon
<1> QED
  BY <1>2, <1>3, PlainAccountKeeps

(* The panel's own look leaves the administrator out.                      *)
LEMMA SetDisabledKeeps ==
  ASSUME NEW s \in State, Consistent(s), NEW id \in Others(s), NEW d \in BOOLEAN,
         NEW t \in SetDisabled(s, id, d)
  PROVE  t \in State /\ Consistent(t) /\ (HasAdmin(s) => HasAdmin(t))
<1>1. id \in DOMAIN s.accounts /\ ~s.accounts[id].admin
  BY DEF Others
<1> DEFINE a == [s.accounts EXCEPT ![id].disabled = d]
<1>2. s.accounts \in [DOMAIN s.accounts -> Account] /\ DOMAIN s.accounts \subseteq AccountId
  BY StateFields
<1>3. /\ a \in [DOMAIN s.accounts -> Account]
      /\ \A x \in DOMAIN s.accounts : a[x].email = s.accounts[x].email /\ a[x].admin = s.accounts[x].admin
                                      /\ (x # id => a[x] = s.accounts[x])
  BY <1>1, <1>2 DEF Account
<1> HIDE DEF a
<1>4. t = [s EXCEPT !.accounts = a]
  BY DEF SetDisabled, Provided, a
<1>5. t = [accounts |-> a, repos |-> s.repos, rules |-> s.rules, migrated |-> s.migrated, imported |-> s.imported]
  BY <1>4, SetAccounts
<1>6. t.accounts = a /\ t.repos = s.repos /\ t.rules = s.rules
  BY <1>5
<1>7. t \in State
  BY <1>2, <1>3, <1>5, StateFields, StateMade
<1>8. DOMAIN t.accounts = DOMAIN s.accounts
  BY <1>3, <1>6
<1>9. RulesRefer(t) /\ OneRuleEach(t) /\ OneAliasEach(t)
  BY <1>6, <1>8 DEF Consistent, RulesRefer, OneRuleEach, OneAliasEach
<1>10. OneEmailEach(t)
  BY <1>3, <1>6, <1>8 DEF Consistent, OneEmailEach
<1>11. AdminIsActive(t)
  BY <1>1, <1>3, <1>6, <1>8 DEF Consistent, AdminIsActive
<1>12. HasAdmin(s) => HasAdmin(t)
  BY <1>1, <1>3, <1>6, <1>8 DEF HasAdmin
<1> QED
  BY <1>7, <1>9, <1>10, <1>11, <1>12 DEF Consistent

(* An account takes its rules with it.                                     *)
LEMMA DeleteAccountKeeps ==
  ASSUME NEW s \in State, Consistent(s), NEW id \in Others(s), NEW t \in DeleteAccount(s, id)
  PROVE  t \in State /\ Consistent(t) /\ (HasAdmin(s) => HasAdmin(t))
<1>1. id \in DOMAIN s.accounts /\ ~s.accounts[id].admin
  BY DEF Others
<1> DEFINE rest == [s EXCEPT !.rules = {r \in s.rules : r.account # id}]
<1>2. /\ rest \in State /\ Consistent(rest) /\ rest.accounts = s.accounts /\ rest.repos = s.repos
      /\ rest.rules = {r \in s.rules : r.account # id}
  BY FewerRules
<1>3. t = [rest EXCEPT !.accounts = Without(rest.accounts, id)]
  BY DEF DeleteAccount, Provided
<1> HIDE DEF rest
<1>4. t = [accounts |-> Without(rest.accounts, id), repos |-> rest.repos, rules |-> rest.rules,
           migrated |-> rest.migrated, imported |-> rest.imported]
  BY <1>2, <1>3, SetAccounts, Zenon
<1>5. t.accounts = Without(s.accounts, id) /\ t.repos = s.repos /\ t.rules = rest.rules
  BY <1>2, <1>4
<1>6. /\ t.accounts \in [DOMAIN s.accounts \ {id} -> Account] /\ DOMAIN t.accounts = DOMAIN s.accounts \ {id}
      /\ \A x \in DOMAIN s.accounts \ {id} : t.accounts[x] = s.accounts[x]
  BY <1>5, StateFields DEF Without, Restrict
<1>7. t \in State
  <2>1. t = [accounts |-> t.accounts, repos |-> rest.repos, rules |-> rest.rules,
             migrated |-> rest.migrated, imported |-> rest.imported]
    BY <1>2, <1>4, <1>5, Zenon
  <2> QED
    BY <1>2, <1>6, <2>1, StateFields, StateMade
<1>8. RulesRefer(t)
  BY <1>2, <1>5, <1>6 DEF Consistent, RulesRefer
<1>9. OneRuleEach(t) /\ OneAliasEach(t)
  BY <1>2, <1>5 DEF Consistent, OneRuleEach, OneAliasEach
<1>10. OneEmailEach(t) /\ AdminIsActive(t)
  BY <1>6 DEF Consistent, OneEmailEach, AdminIsActive
<1>11. HasAdmin(s) => HasAdmin(t)
  BY <1>1, <1>6 DEF HasAdmin
<1> QED
  BY <1>7, <1>8, <1>9, <1>10, <1>11 DEF Consistent

-----------------------------------------------------------------------------
(* Repositories.                                                            *)

LEMMA AddRepoKeeps ==
  ASSUME NEW s \in State, Consistent(s), NEW alias, NEW id \in NewRepoIds(s),
         NEW t \in AddRepo(s, alias, id)
  PROVE  /\ t \in State /\ Consistent(t) /\ t.accounts = s.accounts /\ t.rules = s.rules
         /\ DOMAIN t.repos = DOMAIN s.repos \cup {id} /\ id \in RepoId /\ id \notin DOMAIN s.repos
<1>1. t = [s EXCEPT !.repos = With(s.repos, id, alias)] /\ alias \in Alias /\ RepoByAlias(s, alias) = {}
  BY DEF AddRepo, Provided
<1>2. t = [accounts |-> s.accounts, repos |-> With(s.repos, id, alias), rules |-> s.rules,
           migrated |-> s.migrated, imported |-> s.imported]
  BY <1>1, SetRepos, Zenon
<1>3. t.accounts = s.accounts /\ t.rules = s.rules /\ t.repos = With(s.repos, id, alias)
  BY <1>2
<1>4. id \in RepoId /\ id \notin DOMAIN s.repos
  BY DEF NewRepoIds
<1>5. /\ With(s.repos, id, alias) \in [DOMAIN s.repos \cup {id} -> Alias]
      /\ DOMAIN With(s.repos, id, alias) = DOMAIN s.repos \cup {id}
      /\ With(s.repos, id, alias)[id] = alias
      /\ \A x \in DOMAIN s.repos : x # id => With(s.repos, id, alias)[x] = s.repos[x]
  <2>1. s.repos \in [DOMAIN s.repos -> Alias]
    BY StateFields
  <2> QED
    BY <1>1, <2>1 DEF With
<1>6. t \in State
  <2> DEFINE F == With(s.repos, id, alias)
      D == DOMAIN s.repos \cup {id}
  <2>1. F \in [D -> Alias] /\ D \subseteq RepoId
    BY <1>4, <1>5, StateFields
  <2> HIDE DEF F, D
  <2>2. [accounts |-> s.accounts, repos |-> F, rules |-> s.rules,
         migrated |-> s.migrated, imported |-> s.imported] \in State
    BY <2>1, StateFields, StateMade
  <2> QED
    BY <1>2, <2>2 DEF F
<1>7. RulesRefer(t) /\ OneRuleEach(t) /\ OneEmailEach(t) /\ AdminIsActive(t)
  BY <1>3, <1>5 DEF Consistent, RulesRefer, OneRuleEach, OneEmailEach, AdminIsActive
<1>8. OneAliasEach(t)
  <2>1. \A r \in DOMAIN s.repos : s.repos[r] # alias
    BY <1>1 DEF RepoByAlias
  <2> QED
    BY <1>3, <1>4, <1>5, <2>1 DEF Consistent, OneAliasEach
<1> QED
  BY <1>3, <1>4, <1>5, <1>6, <1>7, <1>8 DEF Consistent

(* A repository takes its rules with it, too.                              *)
LEMMA DeleteRepoKeeps ==
  ASSUME NEW s \in State, Consistent(s), NEW id \in DOMAIN s.repos, NEW t \in DeleteRepo(s, id)
  PROVE  t \in State /\ Consistent(t) /\ t.accounts = s.accounts
<1> DEFINE rest == [s EXCEPT !.rules = {r \in s.rules : r.repo # id}]
<1>1. /\ rest \in State /\ Consistent(rest) /\ rest.accounts = s.accounts /\ rest.repos = s.repos
      /\ rest.rules = {r \in s.rules : r.repo # id}
  BY FewerRules
<1>2. t = [rest EXCEPT !.repos = Without(rest.repos, id)]
  BY DEF DeleteRepo, Provided
<1> HIDE DEF rest
<1>3. t = [accounts |-> rest.accounts, repos |-> Without(rest.repos, id), rules |-> rest.rules,
           migrated |-> rest.migrated, imported |-> rest.imported]
  BY <1>1, <1>2, SetRepos, Zenon
<1>4. t.accounts = s.accounts /\ t.repos = Without(s.repos, id) /\ t.rules = rest.rules
  BY <1>1, <1>3
<1>5. /\ t.repos \in [DOMAIN s.repos \ {id} -> Alias] /\ DOMAIN t.repos = DOMAIN s.repos \ {id}
      /\ \A x \in DOMAIN s.repos \ {id} : t.repos[x] = s.repos[x]
  BY <1>4, StateFields DEF Without, Restrict
<1>6. t \in State
  <2>1. t = [accounts |-> rest.accounts, repos |-> t.repos, rules |-> rest.rules,
             migrated |-> rest.migrated, imported |-> rest.imported]
    BY <1>1, <1>3, <1>4, Zenon
  <2> QED
    BY <1>1, <1>5, <2>1, StateFields, StateMade
<1>7. RulesRefer(t) /\ OneRuleEach(t) /\ OneEmailEach(t) /\ AdminIsActive(t)
  BY <1>1, <1>4, <1>5 DEF Consistent, RulesRefer, OneRuleEach, OneEmailEach, AdminIsActive
<1>8. OneAliasEach(t)
  BY <1>5 DEF Consistent, OneAliasEach
<1> QED
  BY <1>4, <1>6, <1>7, <1>8 DEF Consistent

-----------------------------------------------------------------------------
(* Rules.                                                                   *)

LEMMA ClearRuleKeeps ==
  ASSUME NEW s \in State, Consistent(s), NEW account, NEW repo, NEW path,
         NEW t \in ClearRule(s, account, repo, path)
  PROVE  t \in State /\ Consistent(t) /\ t.accounts = s.accounts
<1>1. t = [s EXCEPT !.rules = s.rules \ OnFolder(s, account, repo, path)]
  BY DEF ClearRule
<1> QED
  BY <1>1, FewerRules

(* A rule replaces the one its account had on the folder.                  *)
LEMMA SetRuleKeeps ==
  ASSUME NEW s \in State, Consistent(s), NEW account \in DOMAIN s.accounts,
         NEW repo \in DOMAIN s.repos, NEW path \in Folder, NEW level,
         NEW t \in SetRule(s, account, repo, path, level)
  PROVE  t \in State /\ Consistent(t) /\ t.accounts = s.accounts
<1> DEFINE rule == [account |-> account, repo |-> repo, path |-> path, level |-> level]
      u == (s.rules \ OnFolder(s, account, repo, path)) \cup {rule}
<1>1. t = [s EXCEPT !.rules = u] /\ level \in Levels
  BY DEF SetRule, Provided
<1>2. rule \in RuleType /\ u \subseteq RuleType
  BY <1>1, StateFields DEF RuleType
<1>3. /\ \A r \in u : r = rule \/ (r \in s.rules /\ ~(r.account = account /\ r.repo = repo /\ r.path = path))
      /\ rule.account = account /\ rule.repo = repo /\ rule.path = path
  BY DEF OnFolder, RulesFor
<1> HIDE DEF rule, u
<1>4. t = [accounts |-> s.accounts, repos |-> s.repos, rules |-> u,
           migrated |-> s.migrated, imported |-> s.imported]
  BY <1>1, SetRules, Zenon
<1>5. t.accounts = s.accounts /\ t.repos = s.repos /\ t.rules = u
  BY <1>4
<1>6. t \in State
  BY <1>2, <1>4, StateFields, StateMade
<1>7. RulesRefer(t)
  BY <1>3, <1>5 DEF Consistent, RulesRefer
<1>8. OneRuleEach(t)
  BY <1>3, <1>5 DEF Consistent, OneRuleEach
<1>9. OneEmailEach(t) /\ OneAliasEach(t) /\ AdminIsActive(t)
  BY <1>5 DEF Consistent, OneEmailEach, OneAliasEach, AdminIsActive
<1> QED
  BY <1>5, <1>6, <1>7, <1>8, <1>9 DEF Consistent

-----------------------------------------------------------------------------
(* The imports of a classic server.                                         *)

LEMMA ImportClientsKeeps ==
  ASSUME NEW s \in State, Consistent(s), NEW t \in ImportClients(s)
  PROVE  t \in State /\ Consistent(t) /\ t.accounts = s.accounts
<1>1. t = [s EXCEPT !.migrated = TRUE]
  BY DEF ImportClients, Provided
<1>2. t = [accounts |-> s.accounts, repos |-> s.repos, rules |-> s.rules,
           migrated |-> TRUE, imported |-> s.imported]
  BY <1>1, SetMarks, Zenon
<1>3. t.accounts = s.accounts /\ t.repos = s.repos /\ t.rules = s.rules
  BY <1>2
<1>4. t \in State
  BY <1>2, StateFields, StateMade
<1>5. Consistent(t)
  BY <1>3 DEF Consistent, RulesRefer, OneRuleEach, OneEmailEach, OneAliasEach, AdminIsActive
<1> QED
  BY <1>3, <1>4, <1>5

LEMMA MarkKeeps ==
  ASSUME NEW s \in State, Consistent(s)
  PROVE  LET t == [s EXCEPT !.imported = TRUE]
         IN t \in State /\ Consistent(t) /\ t.accounts = s.accounts /\ t.repos = s.repos
<1> DEFINE t == [s EXCEPT !.imported = TRUE]
<1>1. t = [accounts |-> s.accounts, repos |-> s.repos, rules |-> s.rules,
           migrated |-> s.migrated, imported |-> TRUE]
  BY SetMarks, Zenon
<1> HIDE DEF t
<1>2. t.accounts = s.accounts /\ t.repos = s.repos /\ t.rules = s.rules
  BY <1>1
<1>3. t \in State
  BY <1>1, StateFields, StateMade
<1>4. Consistent(t)
  BY <1>2 DEF Consistent, RulesRefer, OneRuleEach, OneEmailEach, OneAliasEach, AdminIsActive
<1> QED
  BY <1>2, <1>3, <1>4 DEF t

(* The rules granted with an imported vault are new: nothing can refer to  *)
(* a repository that did not exist.                                        *)
LEMMA ImportVaultKeeps ==
  ASSUME NEW s \in State, Consistent(s), NEW alias, NEW id \in NewRepoIds(s),
         NEW t \in ImportVault(s, alias, id)
  PROVE  t \in State /\ Consistent(t) /\ t.accounts = s.accounts
<1> DEFINE admins == {a \in DOMAIN s.accounts : s.accounts[a].admin}
      granted == {[account |-> a, repo |-> id, path |-> Root, level |-> "write"] : a \in admins}
      marked == [s EXCEPT !.imported = TRUE]
<1>1. /\ marked \in State /\ Consistent(marked) /\ marked.accounts = s.accounts
      /\ marked.repos = s.repos /\ id \in NewRepoIds(marked)
  BY MarkKeeps DEF NewRepoIds
<1>2. PICK v \in AddRepo(marked, alias, id) : t = [v EXCEPT !.rules = v.rules \cup granted]
  BY Zenon DEF ImportVault
<1> HIDE DEF marked
<1>3. /\ v \in State /\ Consistent(v) /\ v.accounts = s.accounts /\ v.rules = marked.rules
      /\ DOMAIN v.repos = DOMAIN s.repos \cup {id} /\ id \in RepoId /\ id \notin DOMAIN s.repos
  BY <1>1, AddRepoKeeps
<1>4. /\ \A g \in granted : g.account \in DOMAIN s.accounts /\ g.repo = id /\ g.path = Root
      /\ \A g, h \in granted : g.account = h.account => g = h
  OBVIOUS
<1>5. granted \subseteq RuleType
  BY <1>3, StateFields, NameAssumption DEF RuleType, Levels
<1> HIDE DEF granted
<1>6. t = [accounts |-> v.accounts, repos |-> v.repos, rules |-> v.rules \cup granted,
           migrated |-> v.migrated, imported |-> v.imported]
  BY <1>2, <1>3, SetRules, Zenon
<1>7. t.accounts = v.accounts /\ t.repos = v.repos /\ t.rules = v.rules \cup granted
  BY <1>6
<1>8. t \in State
  BY <1>3, <1>5, <1>6, StateFields, StateMade
<1>9. RulesRefer(t)
  BY <1>3, <1>4, <1>7 DEF Consistent, RulesRefer
<1>10. OneRuleEach(t)
  <2>1. \A r \in v.rules : r.repo # id
    BY <1>1, <1>3 DEF Consistent, RulesRefer
  <2> QED
    BY <1>3, <1>4, <1>7, <2>1 DEF Consistent, OneRuleEach
<1>11. OneEmailEach(t) /\ OneAliasEach(t) /\ AdminIsActive(t)
  BY <1>3, <1>7 DEF Consistent, OneEmailEach, OneAliasEach, AdminIsActive
<1> QED
  BY <1>3, <1>7, <1>8, <1>9, <1>10, <1>11 DEF Consistent

-----------------------------------------------------------------------------
(* What an update of the panel is.                                          *)
LEMMA PanelCases ==
  ASSUME NEW s, NEW t \in PanelChanges(s)
  PROVE  \/ \E e \in Address, i \in NewAccountIds(s) : t \in AddUser(s, e, i)
         \/ \E a \in Others(s), d \in BOOLEAN : t \in SetDisabled(s, a, d)
         \/ \E a \in Others(s) : t \in DeleteAccount(s, a)
         \/ \E n \in Alias \cup BadAlias, i \in NewRepoIds(s) : t \in AddRepo(s, n, i)
         \/ \E r \in DOMAIN s.repos : t \in DeleteRepo(s, r)
         \/ \E a \in DOMAIN s.accounts, r \in DOMAIN s.repos, p \in Folder, l \in Levels \cup {BadLevel} :
              t \in SetRule(s, a, r, p, l)
         \/ \E a \in DOMAIN s.accounts, r \in DOMAIN s.repos, p \in Folder : t \in ClearRule(s, a, r, p)
<1>1. ASSUME t \in UNION {AddUser(s, e, i) : e \in Address, i \in NewAccountIds(s)}
      PROVE  \E e \in Address, i \in NewAccountIds(s) : t \in AddUser(s, e, i)
  BY <1>1
<1>2. ASSUME t \in UNION {SetDisabled(s, a, d) : a \in Others(s), d \in BOOLEAN}
      PROVE  \E a \in Others(s), d \in BOOLEAN : t \in SetDisabled(s, a, d)
  BY <1>2
<1>3. ASSUME t \in UNION {SetRule(s, a, r, p, l) : a \in DOMAIN s.accounts, r \in DOMAIN s.repos,
                                                p \in Folder, l \in Levels \cup {BadLevel}}
      PROVE  \E a \in DOMAIN s.accounts, r \in DOMAIN s.repos, p \in Folder, l \in Levels \cup {BadLevel} :
               t \in SetRule(s, a, r, p, l)
  BY <1>3
<1>4. ASSUME t \in UNION {ClearRule(s, a, r, p) : a \in DOMAIN s.accounts, r \in DOMAIN s.repos, p \in Folder}
      PROVE  \E a \in DOMAIN s.accounts, r \in DOMAIN s.repos, p \in Folder : t \in ClearRule(s, a, r, p)
  BY <1>4
<1>5. ASSUME t \in UNION {AddRepo(s, n, i) : n \in Alias \cup BadAlias, i \in NewRepoIds(s)}
      PROVE  \E n \in Alias \cup BadAlias, i \in NewRepoIds(s) : t \in AddRepo(s, n, i)
  BY <1>5
<1>6. ASSUME t \in UNION {DeleteAccount(s, a) : a \in Others(s)}
      PROVE  \E a \in Others(s) : t \in DeleteAccount(s, a)
  BY <1>6
<1>7. ASSUME t \in UNION {DeleteRepo(s, r) : r \in DOMAIN s.repos}
      PROVE  \E r \in DOMAIN s.repos : t \in DeleteRepo(s, r)
  BY <1>7
<1> QED
  BY <1>1, <1>2, <1>3, <1>4, <1>5, <1>6, <1>7, SMTT(30) DEF PanelChanges

-----------------------------------------------------------------------------
(* Whatever Update is called with keeps the document well formed: the      *)
(* function of internal/store/model.go it runs may start from any document *)
(* of that kind, not only from those some server reaches.                  *)
THEOREM ChangesKeepState ==
  ASSUME NEW s \in State, Consistent(s), NEW t \in Changes(s)
  PROVE  t \in State /\ Consistent(t)
<1>1. CASE t = s
  BY <1>1
<1>2. CASE t \in PanelChanges(s)
  <2>1. CASE \E e \in Address, i \in NewAccountIds(s) : t \in AddUser(s, e, i)
    BY <2>1, AddUserKeeps
  <2>2. CASE \E a \in Others(s), d \in BOOLEAN : t \in SetDisabled(s, a, d)
    BY <2>2, SetDisabledKeeps
  <2>3. CASE \E a \in Others(s) : t \in DeleteAccount(s, a)
    BY <2>3, DeleteAccountKeeps
  <2>4. CASE \E n \in Alias \cup BadAlias, i \in NewRepoIds(s) : t \in AddRepo(s, n, i)
    BY <2>4, AddRepoKeeps
  <2>5. CASE \E r \in DOMAIN s.repos : t \in DeleteRepo(s, r)
    BY <2>5, DeleteRepoKeeps
  <2>6. CASE \E a \in DOMAIN s.accounts, r \in DOMAIN s.repos, p \in Folder, l \in Levels \cup {BadLevel} :
               t \in SetRule(s, a, r, p, l)
    BY <2>6, SetRuleKeeps
  <2>7. CASE \E a \in DOMAIN s.accounts, r \in DOMAIN s.repos, p \in Folder : t \in ClearRule(s, a, r, p)
    BY <2>7, ClearRuleKeeps
  <2> QED
    BY <1>2, <2>1, <2>2, <2>3, <2>4, <2>5, <2>6, <2>7, PanelCases, Zenon
<1>3. CASE t \in AdminChanges(s)
  BY <1>3, EnsureAdminKeeps DEF AdminChanges
<1>4. CASE t \in ImportClients(s)
  BY <1>4, ImportClientsKeeps
<1>5. CASE t \in ImportChanges(s)
  BY <1>5, ImportVaultKeeps DEF ImportChanges
<1> QED
  BY <1>1, <1>2, <1>3, <1>4, <1>5 DEF Changes

(* NewMulti's first update leaves an administrator ...                     *)
THEOREM AdminChangesMakeAdmin ==
  ASSUME NEW s \in State, Consistent(s), NEW t \in AdminChanges(s)
  PROVE  HasAdmin(t)
BY EnsureAdminKeeps DEF AdminChanges

(* ... whom no later update takes away: not the imports, and nothing the   *)
(* panel can be asked for.                                                 *)
THEOREM AdminStays ==
  ASSUME NEW s \in State, Consistent(s), HasAdmin(s),
         NEW t \in {s} \cup PanelChanges(s) \cup ImportClients(s) \cup ImportChanges(s)
  PROVE  HasAdmin(t)
<1>1. CASE t = s
  BY <1>1
<1>2. CASE t \in PanelChanges(s)
  <2>1. CASE \E e \in Address, i \in NewAccountIds(s) : t \in AddUser(s, e, i)
    BY <2>1, AddUserKeeps
  <2>2. CASE \E a \in Others(s), d \in BOOLEAN : t \in SetDisabled(s, a, d)
    BY <2>2, SetDisabledKeeps
  <2>3. CASE \E a \in Others(s) : t \in DeleteAccount(s, a)
    BY <2>3, DeleteAccountKeeps
  <2>4. CASE t.accounts = s.accounts
    BY <2>4 DEF HasAdmin
  <2>5. \/ \E n \in Alias \cup BadAlias, i \in NewRepoIds(s) : t \in AddRepo(s, n, i)
        \/ \E r \in DOMAIN s.repos : t \in DeleteRepo(s, r)
        \/ \E a \in DOMAIN s.accounts, r \in DOMAIN s.repos, p \in Folder, l \in Levels \cup {BadLevel} :
               t \in SetRule(s, a, r, p, l)
        \/ \E a \in DOMAIN s.accounts, r \in DOMAIN s.repos, p \in Folder : t \in ClearRule(s, a, r, p)
        => t.accounts = s.accounts
    BY AddRepoKeeps, DeleteRepoKeeps, SetRuleKeeps, ClearRuleKeeps
  <2> QED
    BY <1>2, <2>1, <2>2, <2>3, <2>4, <2>5, PanelCases, Zenon
<1>3. CASE t \in ImportClients(s)
  BY <1>3, ImportClientsKeeps DEF HasAdmin
<1>4. CASE t \in ImportChanges(s)
  BY <1>4, ImportVaultKeeps DEF ImportChanges, HasAdmin
<1> QED
  BY <1>1, <1>2, <1>3, <1>4
=============================================================================
