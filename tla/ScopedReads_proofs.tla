-------------------------- MODULE ScopedReads_proofs --------------------------
(***************************************************************************)
(* What one account reads and writes, for any repositories, files, rules,  *)
(* histories and changes of them.                                          *)
(***************************************************************************)
EXTENDS ScopedReads, AccessRules_proofs, SequenceTheorems, FiniteSetTheorems, WellFoundedInduction, TLAPS

\* A set of natural numbers that is not empty has a least member.
LEMMA LeastNumber ==
  ASSUME NEW S \in SUBSET Nat, S # {}
  PROVE  \E m \in S : \A k \in S : m <= k
<1>1. PICK m \in S : \A k \in S : <<k, m>> \notin OpToRel(<, Nat)
  BY NatLessThanWellFounded, WFMin
<1>2. \A k \in S : ~(k < m)
  BY <1>1 DEF OpToRel
<1> QED
  BY <1>2

\* Induction over the natural numbers, as a set of them.
LEMMA SetInduction ==
  ASSUME NEW S \in SUBSET Nat, 0 \in S, \A n \in S : n + 1 \in S
  PROVE  S = Nat
<1> SUFFICES ASSUME Nat \ S # {} PROVE FALSE
  OBVIOUS
<1>1. PICK m \in Nat \ S : \A k \in Nat \ S : m <= k
  <2>1. Nat \ S \subseteq Nat
    OBVIOUS
  <2> QED
    BY <2>1, LeastNumber
<1>2. m # 0 /\ m - 1 \in Nat
  OBVIOUS
<1>3. m - 1 \in S
  BY <1>1, <1>2
<1> QED
  BY <1>3

-----------------------------------------------------------------------------
(* The level of a path is the one it inherits or has of its own.            *)

\* A prefix of a prefix is a shorter prefix.
LEMMA ShorterPrefix ==
  ASSUME NEW p \in Path, NEW n \in 1..Len(p)
  PROVE  SubSeq(SubSeq(p, 1, n), 1, n - 1) = SubSeq(p, 1, n - 1)
<1> DEFINE q == SubSeq(p, 1, n)
           a == SubSeq(q, 1, n - 1)
           b == SubSeq(p, 1, n - 1)
<1>0. n \in Nat /\ n <= Len(p) /\ n - 1 \in Nat /\ n - 1 <= Len(p) /\ n - 1 <= n
  BY LenProperties DEF Path
<1>1. q \in Path /\ Len(q) = n /\ \A i \in 1..n : q[i] = p[i]
  BY <1>0, PrefixOfPath
<1>2. b \in Path /\ Len(b) = n - 1 /\ \A i \in 1..n - 1 : b[i] = p[i]
  BY <1>0, PrefixOfPath
<1> HIDE DEF q, b
<1>3. a \in Path /\ Len(a) = n - 1 /\ \A i \in 1..n - 1 : a[i] = q[i]
  BY <1>0, <1>1, PrefixOfPath
<1> HIDE DEF a
<1>4. \A i \in 1..n - 1 : a[i] = b[i]
  BY <1>0, <1>1, <1>2, <1>3
<1>5. a = b
  BY <1>0, <1>2, <1>3, <1>4, SeqEqual DEF Path
<1> QED
  BY <1>5 DEF a, b, q

\* A rule on a path is its level.
LEMMA OwnLevel ==
  ASSUME NEW scope, RuleSet(scope), NEW p \in Path, Own(scope, p) # {}
  PROVE  (CHOOSE l \in Own(scope, p) : TRUE) = Level(scope, p)
<1>1. PICK r \in scope : r.path = p
  BY DEF Own
<1>2. Match(scope, p) = {r} /\ r.level \in Access
  BY <1>1, OwnRuleDecides DEF RuleSet, Rule
<1>3. Level(scope, p) = r.level
  BY <1>2 DEF Level, CanWrite, CanRead, Reads, Access
<1>4. Own(scope, p) = {r.level}
  BY <1>1 DEF Own, RuleSet
<1> QED
  BY <1>3, <1>4

\* The whole repository has no level without a rule.
LEMMA RootLevel ==
  ASSUME NEW scope, RuleSet(scope), Own(scope, <<>>) = {}
  PROVE  Level(scope, <<>>) = "none"
<1>1. ASSUME NEW r \in scope PROVE ~Within(r.path, <<>>)
  <2>1. r.path \in Path /\ r.path # <<>>
    BY DEF RuleSet, Rule, Own
  <2> QED
    BY <2>1, EmptySeq, LenProperties DEF Within, Path
<1> QED
  BY <1>1 DEF Level, CanWrite, CanRead, Match

\* A path with no rule of its own has the level of its parent.
LEMMA InheritedLevel ==
  ASSUME NEW scope, RuleSet(scope), NEW p \in Path, NEW n \in 1..Len(p), Own(scope, SubSeq(p, 1, n)) = {}
  PROVE  Level(scope, SubSeq(p, 1, n)) = Level(scope, SubSeq(p, 1, n - 1))
<1> DEFINE q == SubSeq(p, 1, n)
<1>0. n \in Nat /\ n <= Len(p)
  BY LenProperties DEF Path
<1>1. q \in Path /\ Len(q) = n
  BY <1>0, PrefixOfPath
<1>2. SubSeq(q, 1, n - 1) = SubSeq(p, 1, n - 1)
  BY ShorterPrefix
<1>3. \A r \in scope : r.path # q
  BY DEF Own
<1> HIDE DEF q
<1>4. q # <<>>
  BY <1>1
<1>5. Level(scope, q) = Level(scope, SubSeq(q, 1, Len(q) - 1))
  BY <1>1, <1>3, <1>4, LevelsInherit
<1> QED
  BY <1>1, <1>2, <1>5 DEF q

(* The level acl.go computes from the longest matching rule is the one     *)
(* reached by inheriting from folder to folder, for every set of rules and *)
(* a path of any depth (acl.go:46-73).                                     *)
THEOREM LevelIsNearest ==
  ASSUME NEW scope, RuleSet(scope), NEW p \in Path
  PROVE  Level(scope, p) = Nearest(scope, p)
<1> DEFINE at(n) == SubSeq(p, 1, n)
           decide(n, inherited) == IF Own(scope, at(n)) # {} THEN CHOOSE l \in Own(scope, at(n)) : TRUE
                                   ELSE IF n = 0 THEN "none" ELSE inherited
           level == [n \in 0..Len(p) |-> Level(scope, at(n))]
<1>t. Len(p) \in Nat /\ at(0) = <<>> /\ at(Len(p)) = p /\ \A n \in 0..Len(p) : at(n) \in Path
  <2>1. Len(p) \in Nat
    BY LenProperties DEF Path
  <2>2. at(0) \in Path /\ Len(at(0)) = 0
    BY <2>1, PrefixOfPath
  <2>3. at(0) = <<>>
    <3> HIDE DEF at
    <3> QED
      BY <2>2, EmptySeq DEF Path
  <2>4. at(Len(p)) = p
    <3>1. at(Len(p)) \in Path /\ Len(at(Len(p))) = Len(p) /\ \A i \in 1..Len(p) : at(Len(p))[i] = p[i]
      BY <2>1, PrefixOfPath
    <3> HIDE DEF at
    <3> QED
      BY <3>1, SeqEqual DEF Path
  <2>5. \A n \in 0..Len(p) : at(n) \in Path
    BY <2>1, PrefixOfPath
  <2> QED
    BY <2>1, <2>3, <2>4, <2>5
<1>1. ASSUME NEW n \in 0..Len(p) PROVE level[n] = decide(n, level[n - 1])
  <2>1. CASE Own(scope, at(n)) # {}
    BY <1>t, <2>1, OwnLevel
  <2>2. CASE Own(scope, at(n)) = {} /\ n = 0
    BY <1>t, <2>2, RootLevel
  <2>3. CASE Own(scope, at(n)) = {} /\ n # 0
    <3>1. n \in 1..Len(p) /\ n - 1 \in 0..Len(p)
      BY <1>t, <2>3
    <3> QED
      BY <2>3, <3>1, InheritedLevel
  <2> QED
    BY <2>1, <2>2, <2>3
<1>2. \E f : f = [n \in 0..Len(p) |-> decide(n, f[n - 1])] /\ Nearest(scope, p) = f[Len(p)]
  <2>1. level = [n \in 0..Len(p) |-> decide(n, level[n - 1])]
    BY <1>1
  <2> HIDE DEF level
  <2> QED
    BY <2>1 DEF Nearest
<1>3. PICK f : f = [n \in 0..Len(p) |-> decide(n, f[n - 1])] /\ Nearest(scope, p) = f[Len(p)]
  BY <1>2
<1> DEFINE S == {n \in Nat : n <= Len(p) => f[n] = level[n]}
<1>4. S = Nat
  <2> HIDE DEF level
  <2>1. \A n \in 0..Len(p) : f[n] = decide(n, f[n - 1])
    BY <1>3
  <2> HIDE DEF decide
  <2>2. 0 \in S
    <3>1. f[0] = decide(0, f[0 - 1]) /\ level[0] = decide(0, level[0 - 1])
      BY <1>t, <1>1, <2>1
    <3> QED
      BY <3>1 DEF decide
  <2>3. ASSUME NEW n \in S PROVE n + 1 \in S
    <3> SUFFICES ASSUME n + 1 <= Len(p) PROVE f[n + 1] = level[n + 1]
      OBVIOUS
    <3>1. n + 1 \in 0..Len(p) /\ (n + 1) - 1 = n /\ f[n] = level[n]
      BY <1>t
    <3> QED
      BY <1>1, <2>1, <3>1
  <2> QED
    BY <2>2, <2>3, SetInduction
<1>5. f[Len(p)] = level[Len(p)]
  <2>1. Len(p) \in S
    BY <1>t, <1>4
  <2> HIDE DEF level
  <2> QED
    BY <1>t, <2>1
<1>6. level[Len(p)] = Level(scope, at(Len(p)))
  BY <1>t
<1> HIDE DEF level, at
<1> QED
  BY <1>t, <1>3, <1>5, <1>6

-----------------------------------------------------------------------------
(* The rules of an account.                                                 *)

RulesOK == rules \in [Repo -> SUBSET Rule] /\ \A r \in Repo : RuleSet(rules[r])

\* A rule that replaces the one of its folder leaves one rule for each folder.
LEMMA SetRuleKeeps ==
  ASSUME NEW scope, RuleSet(scope), NEW folder \in Path, NEW level \in Access \cup {"inherit"}
  PROVE  RuleSet({q \in scope : q.path # folder}
                 \cup IF level = "inherit" THEN {} ELSE {[path |-> folder, level |-> level]})
<1> DEFINE rest == {q \in scope : q.path # folder}
           own  == IF level = "inherit" THEN {} ELSE {[path |-> folder, level |-> level]}
<1>1. \A q \in own : q \in Rule /\ q.path = folder
  BY DEF Rule
<1>2. \A q, r \in own : q = r
  OBVIOUS
<1>3. rest \subseteq Rule /\ \A q \in rest : q.path # folder
  BY DEF RuleSet
<1>4. \A q, r \in rest : q.path = r.path => q = r
  BY DEF RuleSet
<1> HIDE DEF rest, own
<1>5. RuleSet(rest \cup own)
  BY <1>1, <1>2, <1>3, <1>4 DEF RuleSet
<1> QED
  BY <1>5 DEF rest, own

\* Most steps leave the rules as they are.
LEMMA RulesMove ==
  ASSUME [Next]_vars
  PROVE  \/ UNCHANGED <<rules, active>>
         \/ \E s \in Settings : SetsRule(s)
         \/ \E on \in BOOLEAN \ {active} : SetsActive(on)
<1>1. Next \/ UNCHANGED vars
  OBVIOUS
<1> QED
  BY <1>1 DEF Next, vars, Quiet, BeginsLog, ReadsLog, BeginsList, ListsPage, EndsWalk, Asks, OthersCommit,
     Admits, Commits

\* The administrator begins with one rule for each folder, and keeps it so.
LEMMA RulesInit == Init => RulesOK
BY ReadsAssumption DEF Init, RulesOK

LEMMA RulesStep == RulesOK /\ [Next]_vars => RulesOK'
<1> SUFFICES ASSUME RulesOK, [Next]_vars PROVE RulesOK'
  OBVIOUS
<1>1. CASE UNCHANGED rules
  BY <1>1 DEF RulesOK
<1>2. ASSUME NEW s \in Settings, SetsRule(s) PROVE RulesOK'
  <2> DEFINE after == {q \in rules[s.repo] : q.path # s.folder}
                      \cup IF s.level = "inherit" THEN {} ELSE {[path |-> s.folder, level |-> s.level]}
  <2>1. s.repo \in Repo /\ s.folder \in Path /\ s.level \in Access \cup {"inherit"}
    BY ReadsAssumption
  <2>2. RuleSet(after)
    BY <2>1, SetRuleKeeps DEF RulesOK
  <2>3. rules' = [rules EXCEPT ![s.repo] = after]
    BY <1>2 DEF SetsRule
  <2> HIDE DEF after
  <2>4. after \in SUBSET Rule
    BY <2>2 DEF RuleSet
  <2> QED
    BY <2>1, <2>2, <2>3, <2>4 DEF RulesOK
<1> QED
  BY <1>1, <1>2, RulesMove DEF SetsActive

(* Whatever the administrator changes, one rule decides each path: the     *)
(* nearest one at or above it; and a folder is shown exactly when it, or   *)
(* something granted below it, is readable.                                *)
THEOREM RulesAlwaysNest == Spec => []RulesNest
<1>1. RulesOK => RulesNest
  <2> SUFFICES ASSUME RulesOK, NEW r \in Repo
               PROVE  LET paths == File \cup (UNION {Above(p) : p \in File}) \cup {q.path : q \in rules[r]}
                      IN /\ RuleSet(rules[r])
                         /\ \A p \in paths : Level(rules[r], p) = Nearest(rules[r], p)
                         /\ \A f \in paths : Traversable(rules[r], f) <=>
                                              \E p \in paths : Within(f, p) /\ Reads(Nearest(rules[r], p))
    BY DEF RulesNest
  <2> DEFINE scope == rules[r]
             paths == File \cup (UNION {Above(p) : p \in File}) \cup {q.path : q \in scope}
  <2>1. RuleSet(scope)
    BY DEF RulesOK
  <2>2. paths \subseteq Path
    <3>1. \A p \in File : p \in Path /\ Above(p) \subseteq Path
      <4>1. ASSUME NEW p \in File, NEW n \in 0..Len(p) - 1 PROVE SubSeq(p, 1, n) \in Path
        <5>1. p \in Path /\ n \in Nat /\ n <= Len(p)
          BY ReadsAssumption, LenProperties DEF Path
        <5> QED
          BY <5>1, PrefixOfPath
      <4> QED
        BY <4>1, ReadsAssumption DEF Above
    <3>2. \A q \in scope : q.path \in Path
      BY <2>1 DEF RuleSet, Rule
    <3> QED
      BY <3>1, <3>2
  <2>3. \A q \in scope : q.path \in paths
    OBVIOUS
  <2> HIDE DEF scope, paths
  <2>4. \A p \in paths : Level(scope, p) = Nearest(scope, p)
    BY <2>1, <2>2, LevelIsNearest
  <2>5. \A p \in paths : Reads(Nearest(scope, p)) <=> CanRead(scope, p)
    <3>1. ASSUME NEW p \in paths PROVE Reads(Level(scope, p)) <=> CanRead(scope, p)
      BY DEF Level, CanWrite, CanRead, Reads
    <3> QED
      BY <2>4, <3>1
  <2>6. ASSUME NEW f \in paths, Traversable(scope, f)
        PROVE  \E p \in paths : Within(f, p) /\ CanRead(scope, p)
    <3>1. CASE CanRead(scope, f)
      BY <2>2, <3>1, WithinItself
    <3>2. CASE \E q \in scope : Reads(q.level) /\ q.path # f /\ Within(f, q.path)
      <4>1. PICK q \in scope : Reads(q.level) /\ Within(f, q.path)
        BY <3>2
      <4>2. CanRead(scope, q.path)
        BY <2>1, <4>1, OwnRuleDecides DEF CanRead
      <4> QED
        BY <2>3, <4>1, <4>2
    <3> QED
      BY <2>6, <3>1, <3>2 DEF Traversable
  <2>7. ASSUME NEW f \in paths, NEW p \in paths, Within(f, p), CanRead(scope, p)
        PROVE  Traversable(scope, f)
    BY <2>1, <2>2, <2>7, ReadableIsReachable
  <2>8. /\ RuleSet(scope)
        /\ \A p \in paths : Level(scope, p) = Nearest(scope, p)
        /\ \A f \in paths : Traversable(scope, f) <=>
                             \E p \in paths : Within(f, p) /\ Reads(Nearest(scope, p))
    BY <2>1, <2>4, <2>5, <2>6, <2>7
  <2> QED
    BY <2>8 DEF scope, paths
<1> QED
  BY <1>1, RulesInit, RulesStep, PTL DEF Spec
-----------------------------------------------------------------------------
(* What changed between two trees.                                          *)

Effect(t, u) ==
  {Change("M", p, NoPath) : p \in {x \in DOMAIN t \cap DOMAIN u : t[x] # u[x]}}
  \cup {Change("D", p, NoPath) : p \in DOMAIN t \ DOMAIN u}
  \cup {Change("A", p, NoPath) : p \in DOMAIN u \ DOMAIN t}

\* What a change is made of.
LEMMA ChangeFields ==
  \A status, path, old : /\ Change(status, path, old).status = status
                         /\ Change(status, path, old).path = path
                         /\ Change(status, path, old).old = old
BY DEF Change

\* Renames apart, Git reports every path that came, went or was modified.
LEMMA UnpairedIsEffect ==
  ASSUME NEW t, NEW u
  PROVE  Unpaired(Changes(t, u)) = Effect(t, u)
<1> DEFINE gone    == DOMAIN t \ DOMAIN u
           new     == DOMAIN u \ DOMAIN t
           renamed == {m \in gone \X new : t[m[1]] = u[m[2]]}
           full    == Changes(t, u)
           M == {Change("M", p, NoPath) : p \in {x \in DOMAIN t \cap DOMAIN u : t[x] # u[x]}}
           D == {Change("D", p, NoPath) : p \in gone \ {m[1] : m \in renamed}}
           A == {Change("A", p, NoPath) : p \in new \ {m[2] : m \in renamed}}
           R == {Change("R", m[2], m[1]) : m \in renamed}
<1>1. full = M \cup D \cup A \cup R
  BY DEF Changes
<1>2. /\ \A c \in M : c.status = "M"
      /\ \A c \in D : c.status = "D"
      /\ \A c \in A : c.status = "A"
      /\ \A c \in R : c.status = "R"
  BY ChangeFields
<1>3. {c \in full : c.status # "R"} = M \cup D \cup A
  <2> HIDE DEF M, D, A, R, full
  <2> QED
    BY <1>1, <1>2
<1>4. {c \in full : c.status = "R"} = R
  <2> HIDE DEF M, D, A, R, full
  <2> QED
    BY <1>1, <1>2
<1>5. UNION {{Change("D", c.old, NoPath), Change("A", c.path, NoPath)} : c \in R}
        = {Change("D", m[1], NoPath) : m \in renamed} \cup {Change("A", m[2], NoPath) : m \in renamed}
  <2> DEFINE pair(c) == {Change("D", c.old, NoPath), Change("A", c.path, NoPath)}
  <2>1. \A m \in renamed : pair(Change("R", m[2], m[1])) = {Change("D", m[1], NoPath), Change("A", m[2], NoPath)}
    BY ChangeFields
  <2> HIDE DEF pair, renamed
  <2>2. UNION {pair(c) : c \in R} = UNION {pair(Change("R", m[2], m[1])) : m \in renamed}
    OBVIOUS
  <2>3. UNION {pair(Change("R", m[2], m[1])) : m \in renamed}
          = {Change("D", m[1], NoPath) : m \in renamed} \cup {Change("A", m[2], NoPath) : m \in renamed}
    BY <2>1
  <2>4. UNION {pair(c) : c \in R}
          = {Change("D", m[1], NoPath) : m \in renamed} \cup {Change("A", m[2], NoPath) : m \in renamed}
    BY <2>2, <2>3
  <2> QED
    BY <2>4 DEF pair
<1>6. D \cup {Change("D", m[1], NoPath) : m \in renamed} = {Change("D", p, NoPath) : p \in gone}
  <2>1. \A m \in renamed : m[1] \in gone
    OBVIOUS
  <2> HIDE DEF renamed, gone
  <2> QED
    BY <2>1
<1>7. A \cup {Change("A", m[2], NoPath) : m \in renamed} = {Change("A", p, NoPath) : p \in new}
  <2>1. \A m \in renamed : m[2] \in new
    OBVIOUS
  <2> HIDE DEF renamed, new
  <2> QED
    BY <2>1
<1>8. Unpaired(full) = {c \in full : c.status # "R"}
          \cup UNION {{Change("D", c.old, NoPath), Change("A", c.path, NoPath)} : c \in {d \in full : d.status = "R"}}
  BY DEF Unpaired
<1>9. Effect(t, u) = M \cup {Change("D", p, NoPath) : p \in gone} \cup {Change("A", p, NoPath) : p \in new}
  BY DEF Effect
<1> HIDE DEF M, D, A, R, renamed, gone, new
<1>10. Unpaired(full) = (M \cup D \cup A) \cup {Change("D", m[1], NoPath) : m \in renamed} \cup {Change("A", m[2], NoPath) : m \in renamed}
  BY <1>3, <1>4, <1>5, <1>8
<1> QED
  BY <1>6, <1>7, <1>9, <1>10

-----------------------------------------------------------------------------
(* Histories.                                                               *)

Revision == UNION {[paths -> Nat \X File] : paths \in {s \in SUBSET File : IsFiniteSet(s)}}

\* Revision is the set of what IsRevision tells of.
LEMMA RevisionForm ==
  \A tree : tree \in Revision <=> IsRevision(tree)
<1>1. ASSUME NEW tree \in Revision PROVE IsRevision(tree)
  BY DEF Revision, IsRevision
<1>2. ASSUME NEW tree, IsRevision(tree) PROVE tree \in Revision
  BY <1>2 DEF Revision, IsRevision
<1> QED
  BY <1>1, <1>2

\* The tree before the first commit is a revision without files.
LEMMA TreeAtType ==
  ASSUME NEW history \in Seq(Revision), NEW i \in 0..Len(history)
  PROVE  IsRevision(TreeAt(history, i))
<1>1. CASE i = 0
  BY <1>1, FS_EmptySet DEF TreeAt, IsRevision
<1>2. CASE i # 0
  <2>1. history[i] \in Revision
    BY <1>2
  <2> QED
    BY <1>2, <2>1, RevisionForm DEF TreeAt
<1> QED
  BY <1>1, <1>2

\* One more commit leaves what the earlier ones changed.
LEMMA HistoryGrows ==
  ASSUME NEW history \in Seq(Revision), NEW tree \in Revision
  PROVE  /\ Append(history, tree) \in Seq(Revision) /\ Len(Append(history, tree)) = Len(history) + 1
         /\ \A i \in 1..Len(history) : ChangesAt(Append(history, tree), i) = ChangesAt(history, i)
         /\ ChangesAt(Append(history, tree), Len(history) + 1) = Changes(Tip(history), tree)
<1> DEFINE longer == Append(history, tree)
<1>1. /\ longer \in Seq(Revision) /\ Len(longer) = Len(history) + 1 /\ Len(history) \in Nat
      /\ \A i \in 1..Len(history) : longer[i] = history[i]
      /\ longer[Len(history) + 1] = tree
  OBVIOUS
<1> HIDE DEF longer
<1>2. \A i \in 0..Len(history) : TreeAt(longer, i) = TreeAt(history, i)
  BY <1>1 DEF TreeAt
<1>3. TreeAt(longer, Len(history) + 1) = tree
  BY <1>1 DEF TreeAt
<1>4. \A i \in 1..Len(history) : ChangesAt(longer, i) = ChangesAt(history, i)
  <2>1. ASSUME NEW i \in 1..Len(history)
        PROVE  TreeAt(longer, i - 1) = TreeAt(history, i - 1) /\ TreeAt(longer, i) = TreeAt(history, i)
    BY <1>1, <1>2
  <2> QED
    BY <2>1 DEF ChangesAt
<1>5. ChangesAt(longer, Len(history) + 1) = Changes(Tip(history), tree)
  <2>1. (Len(history) + 1) - 1 = Len(history) /\ Len(history) \in 0..Len(history)
    BY <1>1
  <2> QED
    BY <1>2, <1>3, <2>1 DEF ChangesAt, Tip
<1> QED
  BY <1>1, <1>4, <1>5 DEF longer

\* A sequence has finitely many members.
LEMMA RangeFinite ==
  ASSUME NEW T, NEW s \in Seq(T)
  PROVE  Range(s) \subseteq T /\ IsFiniteSet(Range(s))
<1>1. Len(s) \in Nat /\ DOMAIN s = 1..Len(s) /\ Range(s) \subseteq T
  BY DEF Range
<1>2. s \in Surjection(1..Len(s), Range(s))
  BY <1>1 DEF Range, Surjection
<1>3. IsFiniteSet(1..Len(s))
  BY <1>1, FS_Interval
<1> QED
  BY <1>1, <1>2, <1>3, FS_Surjection

\* What a change leaves of a tree is a tree again ...
LEMMA EditedType ==
  ASSUME NEW tree, IsRevision(tree), NEW e \in Edits, NEW n \in Nat,
         NEW after \in Edited(tree, e.kind, e.paths, n)
  PROVE  IsRevision(after)
<1> DEFINE p == e.paths[1]
           q == e.paths[2]
<1>t. /\ e.kind \in {"put", "delete", "move", "several"}
      /\ e.paths \in Seq(File) /\ Len(e.paths) >= 1 /\ p \in File
      /\ e.kind = "move" => q \in File
  <2>1. e.kind \in {"put", "delete", "move", "several"} /\ e.paths \in Seq(File)
    BY ReadsAssumption
  <2>2. Len(e.paths) >= IF e.kind = "move" THEN 2 ELSE 1
    BY ReadsAssumption
  <2>3. Len(e.paths) \in Nat
    BY <2>1
  <2> QED
    BY <2>1, <2>2, <2>3
<1> HIDE DEF p, q
<1>f. /\ IsFiniteSet(DOMAIN tree) /\ IsFiniteSet(DOMAIN tree \ {p})
      /\ \A ps : IsFiniteSet(ps) => IsFiniteSet(DOMAIN tree \cup ps) /\ IsFiniteSet((DOMAIN tree \ {p}) \cup ps)
      /\ \A x : IsFiniteSet({x})
  <2>1. IsFiniteSet(DOMAIN tree) /\ IsFiniteSet(DOMAIN tree \ {p})
    BY FS_RemoveElement DEF IsRevision
  <2> QED
    BY <2>1, FS_Union, FS_Singleton
<1>p. ASSUME NEW ps \in SUBSET File, IsFiniteSet(ps)
      PROVE  IsRevision([x \in DOMAIN tree \cup ps |-> IF x \in ps THEN <<n, x>> ELSE tree[x]])
  BY <1>f, <1>p DEF IsRevision
<1>1. CASE e.kind = "put"
  <2>1. after = [x \in DOMAIN tree \cup {p} |-> IF x \in {p} THEN <<n, x>> ELSE tree[x]]
    BY <1>1 DEF Edited, p
  <2> QED
    BY <1>f, <1>p, <1>t, <2>1
<1>2. CASE e.kind = "several"
  <2>1. after = [x \in DOMAIN tree \cup Range(e.paths) |-> IF x \in Range(e.paths) THEN <<n, x>> ELSE tree[x]]
    BY <1>2 DEF Edited
  <2>2. Range(e.paths) \in SUBSET File /\ IsFiniteSet(Range(e.paths))
    BY <1>t, RangeFinite
  <2> QED
    BY <1>p, <2>1, <2>2
<1>3. CASE e.kind = "delete"
  <2>1. after = Restrict(tree, DOMAIN tree \ {p})
    BY <1>3 DEF Edited, p
  <2> QED
    BY <1>f, <2>1 DEF Restrict, IsRevision
<1>4. CASE e.kind = "move"
  <2>1. /\ p \in DOMAIN tree
        /\ after = [x \in (DOMAIN tree \ {p}) \cup {q} |-> IF x = q THEN tree[p] ELSE tree[x]]
    BY <1>4 DEF Edited, p, q
  <2> QED
    BY <1>4, <1>f, <1>t, <2>1 DEF IsRevision
<1> QED
  BY <1>1, <1>2, <1>3, <1>4, <1>t

\* ... and a change that an account asks for changes only the paths it names.
LEMMA EditedPaths ==
  ASSUME NEW tree, IsRevision(tree), NEW e \in Edits, e.kind # "several", NEW n \in Nat,
         NEW after \in Edited(tree, e.kind, e.paths, n),
         NEW c \in Unpaired(Changes(tree, after))
  PROVE  \E i \in DOMAIN e.paths : c.path = e.paths[i]
<1> DEFINE p == e.paths[1]
           q == e.paths[2]
<1>t. /\ e.kind \in {"put", "delete", "move"} /\ 1 \in DOMAIN e.paths
      /\ e.kind = "move" => 2 \in DOMAIN e.paths
  <2>1. e.kind \in {"put", "delete", "move"} /\ e.paths \in Seq(File)
    BY ReadsAssumption
  <2>2. Len(e.paths) >= IF e.kind = "move" THEN 2 ELSE 1
    BY ReadsAssumption
  <2>3. Len(e.paths) \in Nat /\ DOMAIN e.paths = 1..Len(e.paths)
    BY <2>1
  <2> QED
    BY <2>1, <2>2, <2>3
<1> HIDE DEF p, q
<1>1. c \in Effect(tree, after)
  BY UnpairedIsEffect
<1>2. \/ c.path \in DOMAIN tree \cap DOMAIN after /\ tree[c.path] # after[c.path]
      \/ c.path \in DOMAIN tree \ DOMAIN after
      \/ c.path \in DOMAIN after \ DOMAIN tree
  BY <1>1, ChangeFields DEF Effect
<1>3. CASE e.kind = "put"
  <2>1. after = [x \in DOMAIN tree \cup {p} |-> IF x \in {p} THEN <<n, x>> ELSE tree[x]]
    BY <1>3 DEF Edited, p
  <2>2. c.path = p
    BY <1>2, <2>1
  <2> QED
    BY <1>t, <2>2 DEF p
<1>4. CASE e.kind = "delete"
  <2>1. after = Restrict(tree, DOMAIN tree \ {p})
    BY <1>4 DEF Edited, p
  <2>2. c.path = p
    BY <1>2, <2>1 DEF Restrict
  <2> QED
    BY <1>t, <2>2 DEF p
<1>5. CASE e.kind = "move"
  <2>1. after = [x \in (DOMAIN tree \ {p}) \cup {q} |-> IF x = q THEN tree[p] ELSE tree[x]]
    BY <1>5 DEF Edited, p, q
  <2>2. c.path \in {p, q}
    BY <1>2, <2>1
  <2> QED
    BY <1>t, <1>5, <2>2 DEF p, q
<1> QED
  BY <1>3, <1>4, <1>5, <1>t
-----------------------------------------------------------------------------
(* Writes.                                                                  *)

LogOK == log \in [Repo -> Seq(Revision)]

\* The histories to begin with consist of revisions.
LEMMA LogInit == Init => LogOK
<1> SUFFICES ASSUME Init PROVE LogOK
  OBVIOUS
<1> DEFINE known == UNION {Range(log[r]) : r \in Repo}
<1>1. log \in [Repo -> Seq(known)] /\ \A tree \in known : IsRevision(tree)
  BY ReadsAssumption DEF Init
<1> HIDE DEF known
<1>2. known \subseteq Revision
  BY <1>1, RevisionForm
<1> QED
  BY <1>1, <1>2 DEF LogOK

\* The call of a client that asks for a change remembers the rules that were in
\* force since; once admitted, one of them let it make the change.
CallOK ==
  /\ "pc" \in DOMAIN call
  /\ call.pc \in {"idle", "log", "logged", "list", "listed", "asked", "admitted"}
  /\ call.pc = "idle" => call = NoCall
  /\ call.pc \in {"asked", "admitted"} =>
       /\ call \in [pc : {"asked", "admitted"}, edit : Edits, since : SUBSET SUBSET Rule]
       /\ call.edit.kind # "several" /\ InForce(call.edit.repo) \in call.since
  /\ call.pc = "admitted" => \E scope \in call.since : Guarded(scope, call.edit.paths)

WithinRules(w) ==
  \E scope \in w.since :
    \A c \in Unpaired(ChangesAt(log[w.repo], w.commit)) : CanWrite(scope, c.path) /\ ~Excluded(c.path)

WrittenOK == \A w \in written : w.repo \in Repo /\ w.commit \in 1..Len(log[w.repo]) /\ WithinRules(w)

WriteInv == RulesOK /\ LogOK /\ CallOK /\ WrittenOK

\* What an edit is made of.
LEMMA EditType ==
  \A e \in Edits : e.repo \in Repo /\ e.kind \in {"put", "delete", "move", "several"} /\ e.paths \in Seq(File)
BY ReadsAssumption

\* A commit adds a revision to one history; unless it is of several files, it changes
\* only the paths it was asked to change.
LEMMA CommitGrows ==
  ASSUME LogOK, NEW e \in Edits, Commit(e)
  PROVE  /\ LogOK'
         /\ \A r \in Repo : /\ Len(log'[r]) \in Nat /\ Len(log[r]) <= Len(log'[r])
                            /\ \A i \in 1..Len(log[r]) : ChangesAt(log'[r], i) = ChangesAt(log[r], i)
         /\ Len(log'[e.repo]) = Len(log[e.repo]) + 1
         /\ e.kind # "several" =>
              \A c \in Unpaired(ChangesAt(log'[e.repo], Len(log'[e.repo]))) :
                \E i \in DOMAIN e.paths : c.path = e.paths[i]
<1> DEFINE h == log[e.repo]
<1>1. PICK t \in Edited(Tip(h), e.kind, e.paths, Len(h) + 1) : log' = [log EXCEPT ![e.repo] = Append(h, t)]
  BY DEF Commit
<1>2. e.repo \in Repo /\ h \in Seq(Revision) /\ Len(h) \in Nat
  BY EditType DEF LogOK
<1>3. IsRevision(Tip(h)) /\ t \in Revision
  <2>1. IsRevision(TreeAt(h, Len(h)))
    BY <1>2, TreeAtType
  <2>2. IsRevision(Tip(h))
    BY <2>1 DEF Tip
  <2>3. Len(h) + 1 \in Nat
    BY <1>2
  <2> HIDE DEF h
  <2>4. IsRevision(t)
    BY <2>2, <2>3, EditedType
  <2> QED
    BY <2>2, <2>4, RevisionForm
<1>4. /\ Append(h, t) \in Seq(Revision) /\ Len(Append(h, t)) = Len(h) + 1
      /\ \A i \in 1..Len(h) : ChangesAt(Append(h, t), i) = ChangesAt(h, i)
      /\ ChangesAt(Append(h, t), Len(h) + 1) = Changes(Tip(h), t)
  <2> HIDE DEF h
  <2> QED
    BY <1>2, <1>3, HistoryGrows
<1>5. log'[e.repo] = Append(h, t) /\ \A r \in Repo : r # e.repo => log'[r] = log[r]
  BY <1>1, <1>2 DEF LogOK
<1>6. LogOK'
  BY <1>1, <1>2, <1>4 DEF LogOK
<1>7. ASSUME NEW r \in Repo
      PROVE  /\ Len(log'[r]) \in Nat /\ Len(log[r]) <= Len(log'[r])
             /\ \A i \in 1..Len(log[r]) : ChangesAt(log'[r], i) = ChangesAt(log[r], i)
  <2>1. CASE r = e.repo
    <3>1. log'[r] = Append(h, t) /\ log[r] = h
      BY <1>5, <2>1
    <3> HIDE DEF h
    <3> QED
      BY <1>2, <1>4, <3>1
  <2>2. CASE r # e.repo
    <3>1. log'[r] = log[r] /\ log[r] \in Seq(Revision)
      BY <1>5, <2>2 DEF LogOK
    <3> QED
      BY <3>1
  <2> QED
    BY <2>1, <2>2
<1>8. ASSUME e.kind # "several", NEW c \in Unpaired(Changes(Tip(h), t))
      PROVE  \E i \in DOMAIN e.paths : c.path = e.paths[i]
  <2>1. Len(h) + 1 \in Nat
    BY <1>2
  <2> HIDE DEF h
  <2> QED
    BY <1>3, <1>8, <2>1, EditedPaths
<1> QED
  BY <1>4, <1>5, <1>6, <1>7, <1>8

\* Steps that commit nothing, and those that do.
LEMMA LogMoves ==
  ASSUME [Next]_vars
  PROVE  \/ UNCHANGED <<log, written>>
         \/ Commits /\ call.pc = "admitted" /\ Commit(call.edit)
         \/ \E e \in Edits : OthersCommit(e)
<1>1. Next \/ UNCHANGED vars
  OBVIOUS
<1>2. CASE Commits
  BY <1>2 DEF Commits
<1>3. CASE ~Commits
  BY <1>1, <1>3 DEF Next, vars, Quiet, BeginsLog, ReadsLog, BeginsList, ListsPage, EndsWalk, Asks, Admits,
     SetsRule, SetsActive, RulesChange
<1> QED
  BY <1>2, <1>3

\* Only a commit touches a history.
LEMMA LogStep == LogOK /\ CallOK /\ [Next]_vars => LogOK'
<1> SUFFICES ASSUME LogOK, CallOK, [Next]_vars PROVE LogOK'
  OBVIOUS
<1>1. CASE UNCHANGED <<log, written>>
  BY <1>1 DEF LogOK
<1>2. CASE Commits /\ call.pc = "admitted" /\ Commit(call.edit)
  <2>1. call.edit \in Edits
    BY <1>2 DEF CallOK
  <2> QED
    BY <1>2, <2>1, CommitGrows
<1>3. CASE \E e \in Edits : OthersCommit(e)
  BY <1>3, CommitGrows DEF OthersCommit
<1> QED
  BY <1>1, <1>2, <1>3, LogMoves

\* What is recorded of a commit is the scopes since it was asked, and the one
\* that admitted it is among them.
LEMMA WrittenStep == LogOK /\ CallOK /\ WrittenOK /\ [Next]_vars => WrittenOK'
<1> SUFFICES ASSUME LogOK, CallOK, WrittenOK, [Next]_vars, NEW w \in written'
             PROVE  w.repo \in Repo /\ w.commit \in 1..Len(log'[w.repo]) /\ WithinRules(w)'
  BY DEF WrittenOK
<1>o. ASSUME w \in written
      PROVE  w.repo \in Repo /\ w.commit \in 1..Len(log[w.repo]) /\ WithinRules(w)
  BY <1>o DEF WrittenOK
<1>1. CASE UNCHANGED <<log, written>>
  BY <1>1, <1>o DEF WithinRules
<1>2. ASSUME NEW e \in Edits, Commit(e), w \in written
      PROVE  w.repo \in Repo /\ w.commit \in 1..Len(log'[w.repo]) /\ WithinRules(w)'
  <2>1. w.repo \in Repo /\ w.commit \in 1..Len(log[w.repo]) /\ WithinRules(w)
    BY <1>2, <1>o
  <2>2. Len(log[w.repo]) \in Nat
    BY <2>1 DEF LogOK
  <2>3. /\ Len(log'[w.repo]) \in Nat /\ Len(log[w.repo]) <= Len(log'[w.repo])
        /\ ChangesAt(log'[w.repo], w.commit) = ChangesAt(log[w.repo], w.commit)
    BY <1>2, <2>1, CommitGrows
  <2>4. w.commit \in 1..Len(log'[w.repo])
    BY <2>1, <2>2, <2>3
  <2>5. WithinRules(w)'
    BY <2>1, <2>3 DEF WithinRules
  <2> QED
    BY <2>1, <2>4, <2>5
<1>3. CASE \E e \in Edits : OthersCommit(e)
  BY <1>2, <1>3 DEF OthersCommit
<1>4. CASE Commits /\ call.pc = "admitted" /\ Commit(call.edit)
  <2> DEFINE e == call.edit
             v == [repo |-> e.repo, commit |-> Len(log'[e.repo]), since |-> call.since]
  <2>1. e \in Edits /\ e.kind # "several" /\ e.repo \in Repo
    BY <1>4, EditType DEF CallOK
  <2>2. CASE w \in written
    BY <1>2, <1>4, <2>1, <2>2
  <2>3. CASE w \notin written
    <3>1. w = v /\ \A i \in DOMAIN e.paths : ~Excluded(e.paths[i])
      BY <1>4, <2>3 DEF Commits
    <3>2. PICK scope \in call.since : Guarded(scope, e.paths)
      BY <1>4 DEF CallOK
    <3> HIDE DEF e
    <3>3. /\ Len(log'[e.repo]) \in Nat /\ Len(log'[e.repo]) >= 1
          /\ \A c \in Unpaired(ChangesAt(log'[e.repo], Len(log'[e.repo]))) :
               \E i \in DOMAIN e.paths : c.path = e.paths[i]
      <4>1. Len(log[e.repo]) \in Nat
        BY <2>1 DEF LogOK
      <4>2. Commit(e)
        BY <1>4 DEF e
      <4> QED
        BY <2>1, <4>1, <4>2, CommitGrows
    <3>4. \A c \in Unpaired(ChangesAt(log'[e.repo], Len(log'[e.repo]))) :
            CanWrite(scope, c.path) /\ ~Excluded(c.path)
      BY <3>1, <3>2, <3>3 DEF Guarded
    <3> QED
      BY <2>1, <3>1, <3>2, <3>3, <3>4 DEF WithinRules
  <2> QED
    BY <2>2, <2>3
<1> QED
  BY <1>1, <1>3, <1>4, LogMoves

\* A request that was admitted was so under one of the scopes since it was asked,
\* and the present one is among them, whatever the administrator sets.
LEMMA CallStep == RulesOK /\ CallOK /\ [Next]_vars => CallOK'
<1> SUFFICES ASSUME RulesOK, CallOK, [Next]_vars PROVE CallOK'
  OBVIOUS
<1> DEFINE Plain == {"idle", "log", "logged", "list", "listed"}
<1>n. NoCall.pc = "idle" /\ "pc" \in DOMAIN NoCall
  BY DEF NoCall
<1>i. ASSUME call' = NoCall PROVE CallOK'
  BY <1>i, <1>n DEF CallOK
<1>w. ASSUME "pc" \in DOMAIN call', call'.pc \in Plain \ {"idle"} PROVE CallOK'
  BY <1>w DEF CallOK
<1>r. rules \in [Repo -> SUBSET Rule]
  BY DEF RulesOK
<1>1. CASE UNCHANGED <<call, rules, active>>
  BY <1>1 DEF CallOK, InForce
<1>2. CASE (\E r \in Repo : BeginsLog(r)) \/ BeginsList
  <2>1. "pc" \in DOMAIN call' /\ call'.pc \in {"log", "list"}
    BY <1>2 DEF BeginsLog, BeginsList
  <2> QED
    BY <1>w, <2>1
<1>3. CASE ReadsLog
  <2>1. CASE call.repo \notin Reachable
    BY <1>3, <1>i, <2>1 DEF ReadsLog
  <2>2. CASE call.repo \in Reachable
    <3>1. "pc" \in DOMAIN call' /\ call'.pc \in {"log", "logged"}
      BY <1>3, <2>2 DEF ReadsLog, CallOK
    <3> QED
      BY <1>w, <3>1
  <2> QED
    BY <2>1, <2>2
<1>4. CASE ListsPage
  <2>1. "pc" \in DOMAIN call' /\ call'.pc \in {"list", "listed"}
    BY <1>4 DEF ListsPage, CallOK
  <2> QED
    BY <1>w, <2>1
<1>5. CASE EndsWalk \/ Commits
  BY <1>5, <1>i DEF EndsWalk, Commits
<1>6. ASSUME NEW e \in Edits, Asks(e) PROVE CallOK'
  <2>1. /\ e.kind # "several" /\ rules' = rules /\ active' = active
        /\ call' = [pc |-> "asked", edit |-> e, since |-> {InForce(e.repo)}]
    BY <1>6 DEF Asks, Quiet
  <2>2. InForce(e.repo) \in SUBSET Rule
    BY <1>r, EditType DEF InForce
  <2>3. InForce(e.repo)' = InForce(e.repo)
    BY <2>1 DEF InForce
  <2> QED
    BY <2>1, <2>2, <2>3 DEF CallOK
<1>7. CASE Admits
  <2>1. CASE call.edit.repo \in Reachable /\ Guarded(rules[call.edit.repo], call.edit.paths)
    <3>1. /\ call.pc = "asked" /\ call' = [call EXCEPT !.pc = "admitted"]
          /\ rules' = rules /\ active' = active
      BY <1>7, <2>1 DEF Admits, Quiet
    <3>2. /\ call \in [pc : {"asked", "admitted"}, edit : Edits, since : SUBSET SUBSET Rule]
          /\ call.edit.kind # "several" /\ InForce(call.edit.repo) \in call.since
      BY <3>1 DEF CallOK
    <3>3. /\ call' \in [pc : {"asked", "admitted"}, edit : Edits, since : SUBSET SUBSET Rule]
          /\ "pc" \in DOMAIN call' /\ call'.pc = "admitted"
          /\ call'.edit = call.edit /\ call'.since = call.since
      BY <3>1, <3>2
    <3>4. InForce(call.edit.repo) = rules[call.edit.repo] /\ InForce(call.edit.repo)' = InForce(call.edit.repo)
      BY <2>1, <3>1, <3>3 DEF Reachable, InForce
    <3> QED
      BY <2>1, <3>2, <3>3, <3>4 DEF CallOK
  <2>2. CASE ~(call.edit.repo \in Reachable /\ Guarded(rules[call.edit.repo], call.edit.paths))
    BY <1>7, <1>i, <2>2 DEF Admits
  <2> QED
    BY <2>1, <2>2
<1>8. CASE \E e \in Edits : OthersCommit(e)
  BY <1>1, <1>8 DEF OthersCommit
<1>9. CASE RulesChange
  <2>1. CASE call.pc \in {"asked", "admitted"}
    <3> DEFINE now == IF active' THEN rules'[call.edit.repo] ELSE {}
    <3>1. call' = [call EXCEPT !.since = @ \cup {now}]
      BY <1>9, <2>1 DEF RulesChange
    <3>2. /\ call \in [pc : {"asked", "admitted"}, edit : Edits, since : SUBSET SUBSET Rule]
          /\ call.edit.kind # "several" /\ call.edit.repo \in Repo
      BY <2>1, EditType DEF CallOK
    <3>3. now \in SUBSET Rule
      BY <3>2, RulesStep DEF RulesOK
    <3>4. now = InForce(call.edit.repo)'
      <4>1. call'.edit = call.edit
        BY <3>1, <3>2
      <4> QED
        BY <4>1 DEF InForce
    <3> HIDE DEF now
    <3>5. /\ call' \in [pc : {"asked", "admitted"}, edit : Edits, since : SUBSET SUBSET Rule]
          /\ "pc" \in DOMAIN call' /\ call'.pc = call.pc
          /\ call'.edit = call.edit /\ call'.since = call.since \cup {now}
      BY <3>1, <3>2, <3>3
    <3> QED
      BY <2>1, <3>2, <3>4, <3>5 DEF CallOK
  <2>2. CASE call.pc = "idle"
    <3>1. call' = call /\ call = NoCall
      BY <1>9, <2>2 DEF RulesChange, CallOK
    <3> QED
      BY <1>i, <3>1
  <2>3. CASE call.pc \in Plain \ {"idle"}
    <3>1. call' = [call EXCEPT !.steady = FALSE]
      BY <1>9, <2>3 DEF RulesChange
    <3>2. "pc" \in DOMAIN call' /\ call'.pc = call.pc
      BY <3>1 DEF CallOK
    <3> QED
      BY <1>w, <2>3, <3>2
  <2> QED
    BY <2>1, <2>2, <2>3 DEF CallOK
<1>10. Next \/ UNCHANGED vars
  OBVIOUS
<1>11. CASE UNCHANGED vars
  BY <1>1, <1>11 DEF vars
<1>12. CASE Next
  BY <1>2, <1>3, <1>4, <1>5, <1>6, <1>7, <1>8, <1>9, <1>12 DEF Next, SetsRule, SetsActive
<1> QED
  BY <1>10, <1>11, <1>12

\* Nothing is asked or written to begin with.
LEMMA WriteInit == Init => WriteInv
<1> SUFFICES ASSUME Init PROVE WriteInv
  OBVIOUS
<1>1. CallOK
  BY DEF Init, CallOK, NoCall
<1>2. WrittenOK
  BY DEF Init, WrittenOK
<1> QED
  BY <1>1, <1>2, RulesInit, LogInit DEF WriteInv

(* The invariant of the writes: the rules and the histories are well formed, *)
(* a request carries the rules in force since it was asked, and every commit *)
(* of the account stays within those of one moment.                          *)
THEOREM WriteInvHolds == Spec => []WriteInv
<1>1. WriteInv /\ [Next]_vars => WriteInv'
  BY RulesStep, LogStep, CallStep, WrittenStep DEF WriteInv
<1> QED
  BY <1>1, WriteInit, PTL DEF Spec

(* A commit of an account changes only paths that the rules of one moment  *)
(* since it asked let it write, whatever the administrator changes and     *)
(* others commit between asking, the check and the commit.                 *)
THEOREM WritesKeepRules == Spec => []WritesWithinRules
<1>1. WriteInv => WritesWithinRules
  BY DEF WriteInv, WrittenOK, WithinRules, WritesWithinRules
<1> QED
  BY <1>1, WriteInvHolds, PTL
-----------------------------------------------------------------------------
(* What is hidden.                                                          *)

Visible(scope, p) == ~Excluded(p) /\ CanRead(scope, p)

\* The changes between the visible parts of two trees are the visible changes.
LEMMA StripEffect ==
  ASSUME NEW scope, NEW t, NEW u
  PROVE  Effect(Strip(scope, t), Strip(scope, u)) = {c \in Effect(t, u) : Visible(scope, c.path)}
<1> DEFINE s == Strip(scope, t)
           v == Strip(scope, u)
<1>1. /\ \A p : p \in DOMAIN s <=> p \in DOMAIN t /\ Visible(scope, p)
      /\ \A p : p \in DOMAIN v <=> p \in DOMAIN u /\ Visible(scope, p)
      /\ \A p \in DOMAIN s : s[p] = t[p]
      /\ \A p \in DOMAIN v : v[p] = u[p]
  BY DEF Strip, Restrict, Visible
<1> HIDE DEF s, v
<1> DEFINE of(status, paths) == {Change(status, p, NoPath) : p \in paths}
           both(a, b) == {x \in DOMAIN a \cap DOMAIN b : a[x] # b[x]}
<1>2. \A p : p \in both(s, v) <=> p \in both(t, u) /\ Visible(scope, p)
  BY <1>1
<1>3. /\ \A p : p \in DOMAIN s \ DOMAIN v <=> p \in DOMAIN t \ DOMAIN u /\ Visible(scope, p)
      /\ \A p : p \in DOMAIN v \ DOMAIN s <=> p \in DOMAIN u \ DOMAIN t /\ Visible(scope, p)
  BY <1>1
<1>4. ASSUME NEW X, NEW Y, NEW status, \A p : p \in X <=> p \in Y /\ Visible(scope, p)
      PROVE  of(status, X) = {c \in of(status, Y) : Visible(scope, c.path)}
  BY <1>4, ChangeFields
<1>5. of("M", both(s, v)) = {c \in of("M", both(t, u)) : Visible(scope, c.path)}
  <2> HIDE DEF of, both
  <2> QED
    BY <1>2, <1>4
<1>6. /\ of("D", DOMAIN s \ DOMAIN v) = {c \in of("D", DOMAIN t \ DOMAIN u) : Visible(scope, c.path)}
      /\ of("A", DOMAIN v \ DOMAIN s) = {c \in of("A", DOMAIN u \ DOMAIN t) : Visible(scope, c.path)}
  <2> HIDE DEF of
  <2> DEFINE g1 == DOMAIN s \ DOMAIN v
             g2 == DOMAIN t \ DOMAIN u
             n1 == DOMAIN v \ DOMAIN s
             n2 == DOMAIN u \ DOMAIN t
  <2>1. (\A p : p \in g1 <=> p \in g2 /\ Visible(scope, p)) /\ (\A p : p \in n1 <=> p \in n2 /\ Visible(scope, p))
    BY <1>3
  <2> HIDE DEF g1, g2, n1, n2
  <2>2. /\ of("D", g1) = {c \in of("D", g2) : Visible(scope, c.path)}
        /\ of("A", n1) = {c \in of("A", n2) : Visible(scope, c.path)}
    BY <2>1, <1>4
  <2> QED
    BY <2>2 DEF g1, g2, n1, n2
<1>7. Effect(s, v) = {c \in Effect(t, u) : Visible(scope, c.path)}
  BY <1>5, <1>6 DEF Effect
<1> QED
  BY <1>7 DEF s, v

\* A change either keeps its path or is a rename.
LEMMA ChangesForm ==
  ASSUME NEW t, NEW u, NoPath \notin DOMAIN t, NEW c \in Changes(t, u)
  PROVE  c.status = "R" <=> c.old # NoPath
<1> DEFINE gone    == DOMAIN t \ DOMAIN u
           new     == DOMAIN u \ DOMAIN t
           renamed == {m \in gone \X new : t[m[1]] = u[m[2]]}
<1>1. \A m \in renamed : m[1] # NoPath
  OBVIOUS
<1>2. \/ \E p : c \in {Change("M", p, NoPath), Change("D", p, NoPath), Change("A", p, NoPath)}
      \/ \E m \in renamed : c = Change("R", m[2], m[1])
  BY DEF Changes
<1> HIDE DEF renamed
<1> QED
  BY <1>1, <1>2, ChangeFields

\* The changes without renames, one by one.
LEMMA UnpairedMember ==
  ASSUME NEW full, NEW x
  PROVE  x \in Unpaired(full) <=>
           \/ x \in full /\ x.status # "R"
           \/ \E d \in full : d.status = "R" /\ (x = Change("D", d.old, NoPath) \/ x = Change("A", d.path, NoPath))
BY DEF Unpaired

\* A redacted commit shows exactly the visible part of what it changed.
LEMMA RedactShows ==
  ASSUME NEW scope, NEW full, \A c \in full : c.status = "R" <=> c.old # NoPath
  PROVE  Unpaired(Redact(scope, full).shown) = {c \in Unpaired(full) : Visible(scope, c.path)}
<1> DEFINE shown == Redact(scope, full).shown
           AddsAway(c) == c \in full /\ c.status = "R" /\ Visible(scope, c.path) /\ ~Visible(scope, c.old)
           Leaves(c)   == c \in full /\ c.status = "R" /\ ~Visible(scope, c.path) /\ Visible(scope, c.old)
<1>1. \A x : x \in shown <=>
        \/ x \in full /\ Visible(scope, x.path) /\ (x.status = "R" => Visible(scope, x.old))
        \/ \E c : AddsAway(c) /\ x = Change("A", c.path, NoPath)
        \/ \E c : Leaves(c) /\ x = Change("D", c.old, NoPath)
  BY DEF Redact, Visible
<1> HIDE DEF shown
<1>2. ASSUME NEW x \in Unpaired(shown)
      PROVE  x \in Unpaired(full) /\ Visible(scope, x.path)
  <2>1. CASE x \in shown /\ x.status # "R"
    BY <1>1, <2>1, UnpairedMember, ChangeFields
  <2>2. CASE \E d \in shown : d.status = "R" /\ (x = Change("D", d.old, NoPath) \/ x = Change("A", d.path, NoPath))
    <3>1. PICK d \in shown : d.status = "R" /\ (x = Change("D", d.old, NoPath) \/ x = Change("A", d.path, NoPath))
      BY <2>2
    <3>2. d \in full /\ Visible(scope, d.path) /\ Visible(scope, d.old)
      BY <1>1, <3>1, ChangeFields
    <3> QED
      BY <3>1, <3>2, UnpairedMember, ChangeFields
  <2> QED
    BY <2>1, <2>2, UnpairedMember
<1>3. ASSUME NEW x \in Unpaired(full), Visible(scope, x.path)
      PROVE  x \in Unpaired(shown)
  <2>1. CASE x \in full /\ x.status # "R"
    BY <1>1, <1>3, <2>1, UnpairedMember
  <2>2. ASSUME NEW d \in full, d.status = "R", x = Change("D", d.old, NoPath)
        PROVE  x \in Unpaired(shown)
    <3>1. Visible(scope, d.old)
      BY <1>3, <2>2, ChangeFields
    <3>2. CASE Visible(scope, d.path)
      <4>1. d \in shown
        BY <1>1, <2>2, <3>1, <3>2
      <4> QED
        BY <2>2, <4>1, UnpairedMember
    <3>3. CASE ~Visible(scope, d.path)
      <4>1. x \in shown /\ x.status # "R"
        BY <1>1, <2>2, <3>1, <3>3, ChangeFields
      <4> QED
        BY <4>1, UnpairedMember
    <3> QED
      BY <3>2, <3>3
  <2>3. ASSUME NEW d \in full, d.status = "R", x = Change("A", d.path, NoPath)
        PROVE  x \in Unpaired(shown)
    <3>1. Visible(scope, d.path)
      BY <1>3, <2>3, ChangeFields
    <3>2. CASE Visible(scope, d.old)
      <4>1. d \in shown
        BY <1>1, <2>3, <3>1, <3>2
      <4> QED
        BY <2>3, <4>1, UnpairedMember
    <3>3. CASE ~Visible(scope, d.old)
      <4>1. x \in shown /\ x.status # "R"
        BY <1>1, <2>3, <3>1, <3>3, ChangeFields
      <4> QED
        BY <4>1, UnpairedMember
    <3> QED
      BY <3>2, <3>3
  <2> QED
    BY <2>1, <2>2, <2>3, UnpairedMember
<1>4. Unpaired(shown) = {c \in Unpaired(full) : Visible(scope, c.path)}
  BY <1>2, <1>3
<1> QED
  BY <1>4 DEF shown

\* ... and withholds its message when some of it is hidden, and only then.
LEMMA RedactHides ==
  ASSUME NEW scope, NEW full, \A c \in full : c.status = "R" <=> c.old # NoPath
  PROVE  /\ (\E c \in Unpaired(full) : ~Excluded(c.path) /\ ~CanRead(scope, c.path)) => Redact(scope, full).hidden
         /\ Redact(scope, full).hidden => \E c \in Unpaired(full) : Excluded(c.path) \/ ~CanRead(scope, c.path)
<1> DEFINE hidden == Redact(scope, full).hidden
<1>1. hidden <=>
        \/ \E c \in full : c.status # "R" /\ ~Excluded(c.path) /\ ~CanRead(scope, c.path)
        \/ \E c \in full : /\ c.status = "R" /\ ~(Visible(scope, c.path) /\ Visible(scope, c.old))
                           /\ ~(Excluded(c.path) /\ Excluded(c.old))
  BY DEF Redact, Visible
<1> HIDE DEF hidden
<1>2. ASSUME NEW x \in Unpaired(full), ~Excluded(x.path), ~CanRead(scope, x.path)
      PROVE  hidden
  <2>1. CASE x \in full /\ x.status # "R"
    BY <1>1, <1>2, <2>1
  <2>2. CASE \E d \in full : d.status = "R" /\ (x = Change("D", d.old, NoPath) \/ x = Change("A", d.path, NoPath))
    BY <1>1, <1>2, <2>2, ChangeFields DEF Visible
  <2> QED
    BY <2>1, <2>2, UnpairedMember
<1>3. ASSUME hidden
      PROVE  \E c \in Unpaired(full) : Excluded(c.path) \/ ~CanRead(scope, c.path)
  <2>1. CASE \E c \in full : c.status # "R" /\ ~Excluded(c.path) /\ ~CanRead(scope, c.path)
    BY <2>1, UnpairedMember
  <2>2. ASSUME NEW d \in full, d.status = "R", ~(Visible(scope, d.path) /\ Visible(scope, d.old))
        PROVE  \E c \in Unpaired(full) : Excluded(c.path) \/ ~CanRead(scope, c.path)
    <3>1. Change("D", d.old, NoPath) \in Unpaired(full) /\ Change("A", d.path, NoPath) \in Unpaired(full)
      BY <2>2, UnpairedMember
    <3> QED
      BY <2>2, <3>1, ChangeFields DEF Visible
  <2> QED
    BY <1>1, <1>3, <2>1, <2>2
<1> QED
  BY <1>2, <1>3 DEF hidden

(* What a redacted commit shows is exactly what changed between the trees  *)
(* without the hidden files, for any two trees: renames that cross the     *)
(* edge of what is visible included (scope.go:163-209).                    *)
THEOREM RedactIsStripped ==
  ASSUME NEW scope, NEW t, NEW u, NoPath \notin DOMAIN t
  PROVE  Unpaired(Redact(scope, Changes(t, u)).shown)
           = Unpaired(Changes(Strip(scope, t), Strip(scope, u)))
<1> DEFINE full == Changes(t, u)
<1>1. \A c \in full : c.status = "R" <=> c.old # NoPath
  BY ChangesForm
<1>2. Unpaired(full) = Effect(t, u)
  BY UnpairedIsEffect
<1> HIDE DEF full
<1>3. Unpaired(Redact(scope, full).shown) = {c \in Effect(t, u) : Visible(scope, c.path)}
  BY <1>1, <1>2, RedactShows
<1>4. Unpaired(Changes(Strip(scope, t), Strip(scope, u))) = {c \in Effect(t, u) : Visible(scope, c.path)}
  BY StripEffect, UnpairedIsEffect
<1> QED
  BY <1>3, <1>4 DEF full
\* A listing of everything holds the files that can be read ...
LEMMA ListIsStripped ==
  ASSUME NEW scope, RuleSet(scope), NEW t, IsRevision(t)
  PROVE  List(scope, t, <<>>, TRUE) = DOMAIN Strip(scope, t)
<1>1. \A p \in DOMAIN t : p \in Path
  BY ReadsAssumption DEF IsRevision
<1>2. <<>> \in Path /\ \A p \in Path : Within(<<>>, p)
  BY DEF Path, Within
<1>3. \A p \in DOMAIN t : CanRead(scope, p) => Traversable(scope, <<>>)
  BY <1>1, <1>2, ReadableIsReachable
<1>4. \A p : p \in Below(t, <<>>, TRUE) <=> p \in DOMAIN t /\ ~Excluded(p)
  BY <1>1, <1>2 DEF Below
<1> QED
  BY <1>3, <1>4 DEF List, Strip, Restrict

\* ... and from folder to folder everything on the way to them is listed.
LEMMA FoldersLead ==
  ASSUME NEW scope, RuleSet(scope), NEW t, IsRevision(t),
         NEW p \in DOMAIN Strip(scope, t), NEW n \in 0..Len(p) - 1
  PROVE  SubSeq(p, 1, n + 1) \in LsTree(scope, t, SubSeq(p, 1, n))
<1> DEFINE f == SubSeq(p, 1, n)
           q == SubSeq(p, 1, n + 1)
<1>1. p \in DOMAIN t /\ p \in File /\ p \in Path /\ ~Excluded(p) /\ CanRead(scope, p)
  BY ReadsAssumption DEF Strip, Restrict, IsRevision
<1>2. n \in Nat /\ n + 1 \in Nat /\ n < Len(p) /\ n + 1 <= Len(p) /\ Len(p) \in Nat
  BY <1>1, LenProperties DEF Path
<1>3. f \in Path /\ Len(f) = n /\ \A i \in 1..n : f[i] = p[i]
  BY <1>1, <1>2, PrefixOfPath
<1>4. q \in Path /\ Len(q) = n + 1 /\ \A i \in 1..n + 1 : q[i] = p[i]
  BY <1>1, <1>2, PrefixOfPath
<1>5. SubSeq(p, 1, Len(f) + 1) = q
  BY <1>3
<1> HIDE DEF f, q
<1>6. Within(f, p) /\ Within(q, p) /\ f # p
  BY <1>2, <1>3, <1>4 DEF Within
<1>7. q \in Children(t, f)
  BY <1>1, <1>5, <1>6 DEF Children
<1>8. ~Excluded(q)
  <2>1. DOMAIN q = 1..n + 1 /\ DOMAIN p = 1..Len(p)
    BY <1>1, <1>4 DEF Path
  <2> QED
    BY <1>1, <1>2, <1>4, <2>1 DEF Excluded
<1>9. Traversable(scope, f) /\ Traversable(scope, q)
  BY <1>1, <1>3, <1>4, <1>6, ReadableIsReachable
<1>10. q \in DOMAIN t => CanRead(scope, q)
  BY <1>1, <1>6, ReadsAssumption DEF IsRevision
<1>11. q \in LsTree(scope, t, f)
  BY <1>7, <1>8, <1>9, <1>10 DEF LsTree, List, Below
<1> QED
  BY <1>11 DEF f, q

\* A diff of everything is the diff of the visible parts.
LEMMA DiffIsStripped ==
  ASSUME NEW scope, NEW t, IsRevision(t), NEW u, IsRevision(u)
  PROVE  Diff(scope, t, u, <<>>) = Changes(Strip(scope, t), Strip(scope, u))
<1> DEFINE paths == {p \in DOMAIN t \cup DOMAIN u : Within(<<>>, p) /\ ~Excluded(p) /\ CanRead(scope, p)}
<1>1. \A p \in DOMAIN t \cup DOMAIN u : Within(<<>>, p)
  BY ReadsAssumption DEF IsRevision, Within, Path
<1>2. /\ DOMAIN t \cap paths = {p \in DOMAIN t : ~Excluded(p) /\ CanRead(scope, p)}
      /\ DOMAIN u \cap paths = {p \in DOMAIN u : ~Excluded(p) /\ CanRead(scope, p)}
  BY <1>1
<1>3. Diff(scope, t, u, <<>>) = Changes(Restrict(t, DOMAIN t \cap paths), Restrict(u, DOMAIN u \cap paths))
  BY DEF Diff
<1> HIDE DEF paths
<1> QED
  BY <1>2, <1>3 DEF Strip

\* The name that git log --follow starts from is the one it was asked for.
LEMMA NamesFromTip ==
  ASSUME NEW history \in Seq(Revision), NEW path
  PROVE  NameAt(history, path)[Len(history)] = path
<1> DEFINE top == Len(history)
           from(i, x) == {c.old : c \in {d \in ChangesAt(history, i + 1) : d.path = x}} \ {NoPath}
           back(i, x) == IF from(i, x) = {} THEN x ELSE CHOOSE p \in from(i, x) : TRUE
           Names(f, low) == f = [i \in low..top |-> IF i = top THEN path ELSE back(i, f[i + 1])]
           S == {k \in Nat : k <= top => \E f : Names(f, top - k)}
<1>t. top \in Nat
  OBVIOUS
<1>1. S = Nat
  <2> HIDE DEF back, top
  <2>1. 0 \in S
    <3> DEFINE f == [i \in top..top |-> path]
    <3>1. f = [i \in top..top |-> IF i = top THEN path ELSE back(i, f[i + 1])]
      BY <1>t
    <3>2. top - 0 = top
      BY <1>t
    <3> HIDE DEF f
    <3>3. Names(f, top - 0)
      BY <3>1, <3>2
    <3> QED
      BY <3>3
  <2>2. ASSUME NEW k \in S PROVE k + 1 \in S
    <3> SUFFICES ASSUME k + 1 <= top PROVE \E f : Names(f, top - (k + 1))
      OBVIOUS
    <3>1. PICK f : Names(f, top - k)
      BY <1>t
    <3> DEFINE low == top - (k + 1)
               g == [i \in low..top |-> IF i = low THEN back(i, f[i + 1]) ELSE f[i]]
    <3>2. low \in Nat /\ low + 1 = top - k /\ low < top
      BY <1>t
    <3> HIDE DEF low
    <3>3. ASSUME NEW i \in low..top
          PROVE  g[i] = IF i = top THEN path ELSE back(i, g[i + 1])
      <4>1. CASE i = low
        <5>1. i + 1 \in low..top /\ i + 1 # low
          BY <1>t, <3>2, <4>1
        <5>2. g[i + 1] = f[i + 1]
          BY <5>1
        <5> QED
          BY <3>2, <4>1, <5>2
      <4>2. CASE i # low
        <5>1. i \in (top - k)..top
          BY <1>t, <3>2, <4>2
        <5>2. g[i] = f[i] /\ f[i] = IF i = top THEN path ELSE back(i, f[i + 1])
          BY <3>1, <4>2, <5>1
        <5>3. i # top => g[i + 1] = f[i + 1]
          BY <1>t, <3>2, <4>2
        <5> QED
          BY <5>2, <5>3
      <4> QED
        BY <4>1, <4>2
    <3>4. g = [i \in low..top |-> IF i = top THEN path ELSE back(i, g[i + 1])]
      BY <3>3
    <3> HIDE DEF g
    <3> QED
      BY <3>4 DEF low
  <2> HIDE DEF S
  <2> QED
    BY <2>1, <2>2, SetInduction DEF S
<1>2. \E f : f = [i \in 0..top |-> IF i = top THEN path ELSE back(i, f[i + 1])]
  <2>1. top \in S
    BY <1>1, <1>t
  <2>2. top - top = 0
    BY <1>t
  <2> HIDE DEF back, top
  <2> QED
    BY <1>t, <2>1, <2>2
<1>3. \E f : /\ f = [i \in 0..top |-> IF i = top THEN path ELSE back(i, f[i + 1])]
             /\ NameAt(history, path) = f
  BY <1>2 DEF NameAt
<1> HIDE DEF back
<1> QED
  BY <1>3, <1>t

\* The history of a note never goes on under a name that is hidden.
LEMMA HistoryStaysVisible ==
  ASSUME NEW scope, NEW history \in Seq(Revision), NEW path,
         NEW i \in History(scope, history, path), NEW j \in i..Len(history)
  PROVE  CanRead(scope, NameAt(history, path)[j])
<1> DEFINE top == Len(history)
           name == NameAt(history, path)
           S == {k \in Nat : k <= top - i => CanRead(scope, name[top - k])}
<1>1. /\ i \in 1..top /\ top \in Nat /\ CanRead(scope, path)
      /\ \A h \in 1..top : name[h - 1] # name[h] /\ ~CanRead(scope, name[h - 1]) => h <= i
  BY DEF History
<1>2. name[top] = path
  BY NamesFromTip
<1> HIDE DEF name, top
<1>3. 0 \in S
  BY <1>1, <1>2
<1>4. ASSUME NEW k \in S PROVE k + 1 \in S
  <2> SUFFICES ASSUME k + 1 <= top - i PROVE CanRead(scope, name[top - (k + 1)])
    OBVIOUS
  <2>1. /\ top - k \in 1..top /\ (top - k) - 1 = top - (k + 1) /\ ~(top - k <= i)
        /\ CanRead(scope, name[top - k])
    BY <1>1
  <2> QED
    BY <1>1, <2>1
<1>5. S = Nat
  <2> HIDE DEF S
  <2> QED
    BY <1>3, <1>4, SetInduction DEF S
<1>6. top - j \in Nat /\ top - j <= top - i /\ top - (top - j) = j
  BY <1>1 DEF top
<1>7. CanRead(scope, name[j])
  <2>1. top - j \in S
    BY <1>5, <1>6
  <2> QED
    BY <1>6, <2>1
<1> QED
  BY <1>7 DEF name

(* What an account cannot read is as if it did not exist, whatever the     *)
(* history, the rules and the question.                                    *)
THEOREM HiddenStaysAbsent == Spec => []HiddenIsAbsent
<1>1. RulesOK /\ LogOK => HiddenIsAbsent
  <2> SUFFICES ASSUME RulesOK, LogOK, NEW r \in Repo
               PROVE  LET scope == rules[r]
                          Trees == {TreeAt(log[r], i) : i \in 0..Len(log[r])}
                      IN /\ \A i \in 1..Len(log[r]) :
                              LET full == ChangesAt(log[r], i)
                                  seen == Redact(scope, full)
                              IN /\ Unpaired(seen.shown) =
                                      Unpaired(Changes(Strip(scope, TreeAt(log[r], i - 1)), Strip(scope, log[r][i])))
                                 /\ (\E c \in Unpaired(full) : ~Excluded(c.path) /\ ~CanRead(scope, c.path))
                                      => seen.hidden
                                 /\ seen.hidden => \E c \in Unpaired(full) : Excluded(c.path) \/ ~CanRead(scope, c.path)
                         /\ \A t \in Trees :
                              /\ List(scope, t, <<>>, TRUE) = DOMAIN Strip(scope, t)
                              /\ \A p \in DOMAIN Strip(scope, t) : \A n \in 0..Len(p) - 1 :
                                   SubSeq(p, 1, n + 1) \in LsTree(scope, t, SubSeq(p, 1, n))
                         /\ \A t, u \in Trees : Diff(scope, t, u, <<>>) = Changes(Strip(scope, t), Strip(scope, u))
                         /\ \A p \in File : \A i \in History(scope, log[r], p) : \A j \in i..Len(log[r]) :
                              CanRead(scope, NameAt(log[r], p)[j])
    BY DEF HiddenIsAbsent
  <2> DEFINE scope == rules[r]
             h == log[r]
             Trees == {TreeAt(h, i) : i \in 0..Len(h)}
  <2>1. RuleSet(scope) /\ h \in Seq(Revision) /\ Len(h) \in Nat
    BY DEF RulesOK, LogOK
  <2> HIDE DEF scope, h
  <2>2. \A i \in 0..Len(h) : IsRevision(TreeAt(h, i)) /\ NoPath \notin DOMAIN TreeAt(h, i)
    <3>1. \A i \in 0..Len(h) : IsRevision(TreeAt(h, i))
      BY <2>1, TreeAtType
    <3>2. NoPath \notin File
      BY ReadsAssumption DEF NoPath
    <3> QED
      BY <3>1, <3>2 DEF IsRevision
  <2>3. ASSUME NEW i \in 1..Len(h)
        PROVE  /\ Unpaired(Redact(scope, ChangesAt(h, i)).shown) =
                    Unpaired(Changes(Strip(scope, TreeAt(h, i - 1)), Strip(scope, h[i])))
               /\ (\E c \in Unpaired(ChangesAt(h, i)) : ~Excluded(c.path) /\ ~CanRead(scope, c.path))
                    => Redact(scope, ChangesAt(h, i)).hidden
               /\ Redact(scope, ChangesAt(h, i)).hidden
                    => \E c \in Unpaired(ChangesAt(h, i)) : Excluded(c.path) \/ ~CanRead(scope, c.path)
    <3> DEFINE t == TreeAt(h, i - 1)
               u == TreeAt(h, i)
               full == Changes(t, u)
    <3>1. NoPath \notin DOMAIN t /\ u = h[i] /\ ChangesAt(h, i) = full
      BY <2>1, <2>2 DEF ChangesAt, TreeAt
    <3> HIDE DEF t, u
    <3>2. \A c \in full : c.status = "R" <=> c.old # NoPath
      BY <3>1, ChangesForm
    <3>3. Unpaired(Redact(scope, full).shown) = Unpaired(Changes(Strip(scope, t), Strip(scope, u)))
      BY <3>1, RedactIsStripped
    <3> HIDE DEF full
    <3>4. /\ (\E c \in Unpaired(full) : ~Excluded(c.path) /\ ~CanRead(scope, c.path)) => Redact(scope, full).hidden
          /\ Redact(scope, full).hidden => \E c \in Unpaired(full) : Excluded(c.path) \/ ~CanRead(scope, c.path)
      BY <3>2, RedactHides
    <3> QED
      BY <3>1, <3>3, <3>4 DEF t
  <2>4. \A t \in Trees :
          /\ List(scope, t, <<>>, TRUE) = DOMAIN Strip(scope, t)
          /\ \A p \in DOMAIN Strip(scope, t) : \A n \in 0..Len(p) - 1 :
               SubSeq(p, 1, n + 1) \in LsTree(scope, t, SubSeq(p, 1, n))
    BY <2>1, <2>2, ListIsStripped, FoldersLead
  <2>5. \A t, u \in Trees : Diff(scope, t, u, <<>>) = Changes(Strip(scope, t), Strip(scope, u))
    BY <2>2, DiffIsStripped
  <2>6. \A p \in File : \A i \in History(scope, h, p) : \A j \in i..Len(h) : CanRead(scope, NameAt(h, p)[j])
    BY <2>1, HistoryStaysVisible
  <2> QED
    BY <2>3, <2>4, <2>5, <2>6 DEF scope, h
<1> QED
  BY <1>1, WriteInvHolds, PTL DEF WriteInv

-----------------------------------------------------------------------------
(* Order, and pages of what is ordered.                                     *)

\* What comes before each member of a finite set in a total order.
Ordering(before) ==
  LET S == DOMAIN before
  IN /\ IsFiniteSet(S) /\ before = [x \in S |-> before[x]]
     /\ \A x \in S : before[x] \subseteq S /\ x \notin before[x]
     /\ \A x, y \in S : x = y \/ x \in before[y] \/ y \in before[x]
     /\ \A x, y, z \in S : x \in before[y] /\ y \in before[z] => x \in before[z]

\* Places in an order are numbers; who comes later has the greater one.
LEMMA PlacesDiffer ==
  ASSUME NEW before, Ordering(before)
  PROVE  /\ Cardinality(DOMAIN before) \in Nat
         /\ \A x \in DOMAIN before :
              /\ IsFiniteSet(before[x])
              /\ Cardinality(before[x]) \in Nat /\ Cardinality(before[x]) < Cardinality(DOMAIN before)
         /\ \A x, y \in DOMAIN before : x \in before[y] <=> Cardinality(before[x]) < Cardinality(before[y])
<1> DEFINE S == DOMAIN before
<1>0. IsFiniteSet(S) /\ Cardinality(S) \in Nat
  BY FS_CardinalityType DEF Ordering
<1>1. ASSUME NEW x \in S
      PROVE  /\ IsFiniteSet(before[x]) /\ Cardinality(before[x]) \in Nat
             /\ Cardinality(before[x]) < Cardinality(S)
  <2>1. before[x] \subseteq S /\ before[x] # S
    BY DEF Ordering
  <2>2. /\ IsFiniteSet(before[x]) /\ Cardinality(before[x]) <= Cardinality(S)
        /\ (Cardinality(S) = Cardinality(before[x]) => S = before[x])
    BY <1>0, <2>1, FS_Subset
  <2>3. Cardinality(before[x]) \in Nat
    BY <2>2, FS_CardinalityType
  <2> QED
    BY <1>0, <2>1, <2>2, <2>3
<1>2. ASSUME NEW x \in S, NEW y \in S, x \in before[y]
      PROVE  Cardinality(before[x]) < Cardinality(before[y])
  <2>1. before[x] \subseteq before[y] /\ before[x] # before[y]
    BY <1>2 DEF Ordering
  <2>2. /\ Cardinality(before[x]) <= Cardinality(before[y])
        /\ (Cardinality(before[y]) = Cardinality(before[x]) => before[y] = before[x])
    BY <1>1, <2>1, FS_Subset
  <2> QED
    BY <1>1, <2>1, <2>2
<1>3. ASSUME NEW x \in S, NEW y \in S, Cardinality(before[x]) < Cardinality(before[y])
      PROVE  x \in before[y]
  <2>1. x # y
    BY <1>1, <1>3
  <2>2. ~(y \in before[x])
    BY <1>1, <1>2, <1>3
  <2> QED
    BY <2>1, <2>2 DEF Ordering
<1> QED
  BY <1>0, <1>1, <1>2, <1>3

\* InOrder has every member, at its place.
LEMMA InOrderPlaces ==
  ASSUME NEW before, Ordering(before)
  PROVE  LET s == InOrder(before)
             S == DOMAIN before
         IN /\ s \in Seq(S) /\ Len(s) = Cardinality(S) /\ Len(s) \in Nat
            /\ \A k \in 1..Len(s) : s[k] \in S /\ Cardinality(before[s[k]]) = k - 1
            /\ \A x \in S : /\ Cardinality(before[x]) + 1 \in 1..Len(s)
                            /\ s[Cardinality(before[x]) + 1] = x
<1> DEFINE S == DOMAIN before
           n == Cardinality(S)
           place == [x \in S |-> Cardinality(before[x])]
           s == InOrder(before)
<1>0. n \in Nat /\ IsFiniteSet(S)
  BY PlacesDiffer DEF Ordering
<1>1. \A x \in S : Cardinality(before[x]) \in 0..n - 1
  BY <1>0, PlacesDiffer
<1>2. \A x, y \in S : Cardinality(before[x]) = Cardinality(before[y]) => x = y
  <2> SUFFICES ASSUME NEW x \in S, NEW y \in S, Cardinality(before[x]) = Cardinality(before[y]), x # y PROVE FALSE
    OBVIOUS
  <2>1. x \in before[y] \/ y \in before[x]
    BY DEF Ordering
  <2> QED
    BY <1>1, <2>1, PlacesDiffer
<1>3. place \in Injection(S, 0..n - 1)
  BY <1>1, <1>2 DEF Injection, IsInjective
<1>4. IsFiniteSet(0..n - 1) /\ Cardinality(0..n - 1) = n
  BY <1>0, FS_Interval
<1>5. place \in Surjection(S, 0..n - 1)
  <2> HIDE DEF place, S
  <2>1. Cardinality(S) = Cardinality(0..n - 1)
    BY <1>4
  <2> QED
    BY <1>3, <1>4, <2>1, FS_Injection
<1>6. \A k \in 1..n : \E x \in S : Cardinality(before[x]) = k - 1
  <2> SUFFICES ASSUME NEW k \in 1..n PROVE \E x \in S : Cardinality(before[x]) = k - 1
    OBVIOUS
  <2>1. k - 1 \in 0..n - 1
    BY <1>0
  <2>2. PICK x \in S : place[x] = k - 1
    BY <1>5, <2>1 DEF Surjection
  <2> QED
    BY <2>2
<1>7. s = [k \in 1..n |-> CHOOSE x \in S : Cardinality(before[x]) = k - 1]
  BY DEF InOrder
<1>8. \A k \in 1..n : s[k] \in S /\ Cardinality(before[s[k]]) = k - 1
  BY <1>6, <1>7
<1>9. s \in Seq(S) /\ Len(s) = n
  BY <1>0, <1>7, <1>8
<1>10. ASSUME NEW x \in S
       PROVE  Cardinality(before[x]) + 1 \in 1..n /\ s[Cardinality(before[x]) + 1] = x
  <2>1. Cardinality(before[x]) + 1 \in 1..n
    BY <1>0, <1>1
  <2>2. s[Cardinality(before[x]) + 1] \in S
        /\ Cardinality(before[s[Cardinality(before[x]) + 1]]) = (Cardinality(before[x]) + 1) - 1
    BY <1>8, <2>1
  <2>3. Cardinality(before[s[Cardinality(before[x]) + 1]]) = Cardinality(before[x])
    BY <1>1, <2>2
  <2> QED
    BY <1>2, <2>1, <2>2, <2>3
<1> QED
  BY <1>0, <1>8, <1>9, <1>10

\* A page of a sequence of some length, and where it is cut.
PageLen(n, offset, limit) ==
  IF offset + limit < n THEN limit ELSE IF offset < n THEN n - offset ELSE 0

\* A page is as long as PageLen says, holds the members from its offset on, and
\* every member whose place lies between the offset and the limit.
LEMMA SliceElements ==
  ASSUME NEW S, NEW s \in Seq(S), NEW offset \in Nat, NEW limit \in Nat
  PROVE  /\ Slice(s, offset, limit) \in Seq(S)
         /\ Len(Slice(s, offset, limit)) = PageLen(Len(s), offset, limit)
         /\ PageLen(Len(s), offset, limit) \in 0..limit
         /\ \A k \in 1..PageLen(Len(s), offset, limit) :
              offset + k \in 1..Len(s) /\ Slice(s, offset, limit)[k] = s[offset + k]
         /\ \A i \in 1..Len(s) : offset < i /\ i <= offset + limit =>
              i - offset \in 1..PageLen(Len(s), offset, limit)
<1> DEFINE last == IF offset + limit < Len(s) THEN offset + limit ELSE Len(s)
           n == PageLen(Len(s), offset, limit)
<1>1. Len(s) \in Nat
  OBVIOUS
<1>2. last \in Int /\ offset + 1 \in Int /\ last <= Len(s) /\ n \in 0..limit
  BY <1>1 DEF PageLen
<1>3. \A i \in offset + 1 .. last : i \in 1..Len(s) /\ s[i] \in S
  BY <1>1
<1>4. /\ SubSeq(s, offset + 1, last) \in Seq(S)
      /\ Len(SubSeq(s, offset + 1, last)) = IF offset + 1 <= last THEN last - (offset + 1) + 1 ELSE 0
      /\ \A i \in 1 .. last - (offset + 1) + 1 : SubSeq(s, offset + 1, last)[i] = s[(offset + 1) + i - 1]
  <2> HIDE DEF last
  <2> QED
    BY <1>2, <1>3, SubSeqProperties
<1>5. Slice(s, offset, limit) = SubSeq(s, offset + 1, last)
  BY DEF Slice
<1>6. n = IF offset + 1 <= last THEN last - (offset + 1) + 1 ELSE 0
  BY <1>1 DEF PageLen
<1>7. \A k \in 1..n : /\ offset + k \in 1..Len(s) /\ k \in 1 .. last - (offset + 1) + 1
                      /\ (offset + 1) + k - 1 = offset + k
  BY <1>1 DEF PageLen
<1>8. \A i \in 1..Len(s) : offset < i /\ i <= offset + limit => i - offset \in 1..n
  BY <1>1 DEF PageLen
<1> HIDE DEF last, n
<1>9. \A k \in 1..n : SubSeq(s, offset + 1, last)[k] = s[offset + k]
  BY <1>4, <1>7
<1> QED
  BY <1>2, <1>4, <1>5, <1>6, <1>7, <1>8, <1>9 DEF n

\* How long a page is.
LEMMA SliceLength ==
  ASSUME NEW S, NEW s \in Seq(S), NEW offset \in Nat, NEW limit \in Nat
  PROVE  Slice(s, offset, limit) \in Seq(S) /\ Len(Slice(s, offset, limit)) = PageLen(Len(s), offset, limit)
BY SliceElements

\* A page is within its limit.
LEMMA PageLenBound ==
  ASSUME NEW n \in Nat, NEW offset \in Nat, NEW limit \in Nat
  PROVE  PageLen(n, offset, limit) \in 0..limit
BY DEF PageLen

\* What a page holds.
LEMMA SliceMember ==
  ASSUME NEW S, NEW s \in Seq(S), NEW offset \in Nat, NEW limit \in Nat,
         NEW k \in 1..PageLen(Len(s), offset, limit)
  PROVE  offset + k \in 1..Len(s) /\ Slice(s, offset, limit)[k] = s[offset + k]
BY SliceElements

\* Pages of sequences that agree up to where they are cut are the same.
LEMMA SlicesEqual ==
  ASSUME NEW S, NEW s \in Seq(S), NEW t \in Seq(S), NEW offset \in Nat, NEW limit \in Nat,
         Len(s) = Len(t) \/ (offset + limit <= Len(s) /\ offset + limit <= Len(t)),
         \A k \in 1..Len(s) : k <= offset + limit => s[k] = t[k]
  PROVE  Slice(s, offset, limit) = Slice(t, offset, limit)
<1> DEFINE p == Slice(s, offset, limit)
           q == Slice(t, offset, limit)
           size(n) == PageLen(n, offset, limit)
<1>0. Len(s) \in Nat /\ Len(t) \in Nat
  OBVIOUS
<1>1. /\ p \in Seq(S) /\ Len(p) = size(Len(s))
      /\ \A k \in 1..size(Len(s)) : offset + k \in 1..Len(s) /\ p[k] = s[offset + k]
  <2>1. p \in Seq(S) /\ Len(p) = size(Len(s))
    BY SliceLength
  <2>2. \A k \in 1..size(Len(s)) : offset + k \in 1..Len(s) /\ p[k] = s[offset + k]
    BY SliceMember
  <2> QED
    BY <2>1, <2>2
<1>2. /\ q \in Seq(S) /\ Len(q) = size(Len(t))
      /\ \A k \in 1..size(Len(t)) : offset + k \in 1..Len(t) /\ q[k] = t[offset + k]
  <2>1. q \in Seq(S) /\ Len(q) = size(Len(t))
    BY SliceLength
  <2>2. \A k \in 1..size(Len(t)) : offset + k \in 1..Len(t) /\ q[k] = t[offset + k]
    BY SliceMember
  <2> QED
    BY <2>1, <2>2
<1> HIDE DEF p, q
<1>3. size(Len(s)) = size(Len(t)) /\ size(Len(s)) \in Nat /\ size(Len(s)) <= limit
  BY <1>0 DEF PageLen
<1>4. ASSUME NEW k \in 1..Len(p) PROVE p[k] = q[k]
  <2>1. k <= limit /\ k \in Nat
    BY <1>1, <1>3
  <2>2. offset + k \in 1..Len(s) /\ p[k] = s[offset + k] /\ q[k] = t[offset + k]
    BY <1>1, <1>2, <1>3
  <2> QED
    BY <1>0, <2>1, <2>2
<1>5. p = q
  BY <1>1, <1>2, <1>3, <1>4, SeqEqual
<1> QED
  BY <1>5 DEF p, q

-----------------------------------------------------------------------------
(* A part of a set in the order of the whole.                               *)

Part(before, H) == [x \in H |-> {y \in H : y \in before[x]}]

\* A part of an ordered set is ordered as in the whole.
LEMMA PartOrdering ==
  ASSUME NEW before, Ordering(before), NEW H \in SUBSET DOMAIN before
  PROVE  Ordering(Part(before, H)) /\ DOMAIN Part(before, H) = H
<1>1. IsFiniteSet(H)
  BY FS_Subset DEF Ordering
<1> QED
  BY <1>1 DEF Ordering, Part

\* Whatever part of an ordered set has its first N members: the page that ends
\* there is the same.
LEMMA TopOfPart ==
  ASSUME NEW before, Ordering(before), NEW H \in SUBSET DOMAIN before, NEW N \in Nat,
         \A x \in DOMAIN before : Cardinality(before[x]) < N => x \in H,
         NEW offset \in Nat, NEW limit \in Nat, offset + limit <= N
  PROVE  Slice(InOrder(Part(before, H)), offset, limit) = Slice(InOrder(before), offset, limit)
<1> DEFINE S == DOMAIN before
           part == Part(before, H)
           s == InOrder(before)
           t == InOrder(part)
<1>1. Ordering(part) /\ DOMAIN part = H
  BY PartOrdering
<1>2. ASSUME NEW x \in S, Cardinality(before[x]) < N
      PROVE  x \in H /\ part[x] = before[x]
  <2>1. x \in H
    BY <1>2
  <2>2. ASSUME NEW y \in before[x] PROVE y \in H
    <3>1. y \in S /\ Cardinality(before[y]) < Cardinality(before[x])
      BY PlacesDiffer DEF Ordering
    <3>2. Cardinality(before[x]) \in Nat /\ Cardinality(before[y]) \in Nat
      BY <3>1, PlacesDiffer
    <3> QED
      BY <1>2, <3>1, <3>2
  <2> QED
    BY <2>1, <2>2 DEF Part
<1>s. /\ s \in Seq(S) /\ Len(s) = Cardinality(S) /\ Len(s) \in Nat
      /\ \A k \in 1..Len(s) : s[k] \in S /\ Cardinality(before[s[k]]) = k - 1
  BY InOrderPlaces
<1> HIDE DEF part
<1>t. /\ t \in Seq(H) /\ Len(t) = Cardinality(H) /\ Len(t) \in Nat
      /\ \A x \in H : Cardinality(part[x]) + 1 \in 1..Len(t) /\ t[Cardinality(part[x]) + 1] = x
  BY <1>1, InOrderPlaces
<1> HIDE DEF S, s, t
<1>3. ASSUME NEW k \in 1..Len(s), k <= N
      PROVE  k \in 1..Len(t) /\ s[k] = t[k] /\ s[k] \in H
  <2>1. s[k] \in S /\ Cardinality(before[s[k]]) = k - 1 /\ k - 1 < N /\ (k - 1) + 1 = k
    BY <1>s, <1>3
  <2>2. s[k] \in H /\ part[s[k]] = before[s[k]]
    BY <1>2, <2>1 DEF S
  <2> QED
    BY <1>t, <2>1, <2>2
<1>4. Len(s) = Len(t) \/ (N <= Len(s) /\ N <= Len(t))
  <2>1. CASE Len(s) <= N
    <3>1. ASSUME NEW x \in S PROVE x \in H
      <4>1. Cardinality(before[x]) < Len(s) /\ Cardinality(before[x]) \in Nat
        BY <1>s, PlacesDiffer DEF S
      <4> QED
        BY <1>s, <2>1, <4>1 DEF S
    <3>2. H = S
      BY <3>1 DEF S
    <3> QED
      BY <1>s, <1>t, <3>2
  <2>2. CASE N < Len(s)
    <3>1. CASE N = 0
      BY <1>s, <1>t, <3>1
    <3>2. CASE N # 0
      <4>1. N \in 1..Len(s)
        BY <1>s, <2>2, <3>2
      <4> QED
        BY <1>3, <1>s, <1>t, <2>2, <4>1
    <3> QED
      BY <3>1, <3>2
  <2> QED
    BY <1>s, <2>1, <2>2
<1>5. s \in Seq(S) /\ t \in Seq(S)
  <2>1. H \subseteq S
    BY DEF S
  <2> QED
    BY <1>s, <1>t, <2>1, SeqMonotonic
<1>6. Slice(s, offset, limit) = Slice(t, offset, limit)
  <2>1. \A k \in 1..Len(s) : k <= offset + limit => s[k] = t[k]
    BY <1>3, <1>s
  <2>2. Len(s) = Len(t) \/ (offset + limit <= Len(s) /\ offset + limit <= Len(t))
    BY <1>4, <1>s, <1>t
  <2> QED
    BY <1>5, <2>1, <2>2, SlicesEqual
<1> QED
  BY <1>6 DEF s, t, part

-----------------------------------------------------------------------------
(* The order of paths.                                                      *)

\* A path is a sequence of numbers.
LEMMA PathForm ==
  ASSUME NEW p \in Path
  PROVE  Len(p) \in Nat /\ DOMAIN p = 1..Len(p) /\ \A i \in 1..Len(p) : p[i] \in Nat
<1>1. Name \subseteq Nat
  BY ReadsAssumption
<1>2. Len(p) \in Nat /\ DOMAIN p = 1..Len(p) /\ \A i \in 1..Len(p) : p[i] \in Name
  BY DEF Path
<1> QED
  BY <1>1, <1>2

\* The order of paths is irreflexive, ...
LEMMA LessIrreflexive ==
  ASSUME NEW p \in Path
  PROVE  ~Less(p, p)
BY PathForm DEF Less

\* ... transitive ...
LEMMA LessTransitive ==
  ASSUME NEW p \in Path, NEW q \in Path, NEW s \in Path, Less(p, q), Less(q, s)
  PROVE  Less(p, s)
<1>0. /\ Len(p) \in Nat /\ DOMAIN p = 1..Len(p) /\ \A i \in 1..Len(p) : p[i] \in Nat
      /\ Len(q) \in Nat /\ DOMAIN q = 1..Len(q) /\ \A i \in 1..Len(q) : q[i] \in Nat
      /\ Len(s) \in Nat /\ DOMAIN s = 1..Len(s) /\ \A i \in 1..Len(s) : s[i] \in Nat
  BY PathForm
<1>1. PICK i \in 1..Len(q) : /\ \A j \in 1..i - 1 : j \in 1..Len(p) /\ p[j] = q[j]
                             /\ i \notin 1..Len(p) \/ p[i] < q[i]
  BY <1>0 DEF Less
<1>2. PICK k \in 1..Len(s) : /\ \A j \in 1..k - 1 : j \in 1..Len(q) /\ q[j] = s[j]
                             /\ k \notin 1..Len(q) \/ q[k] < s[k]
  BY <1>0 DEF Less
<1>3. CASE i < k
  <2>1. i \in 1..k - 1 /\ i \in 1..Len(s) /\ q[i] = s[i]
    BY <1>0, <1>2, <1>3
  <2>2. \A j \in 1..i - 1 : j \in 1..Len(p) /\ p[j] = s[j]
    BY <1>0, <1>1, <1>2, <1>3
  <2>3. i \notin 1..Len(p) \/ p[i] < s[i]
    BY <1>1, <2>1
  <2> QED
    BY <1>0, <2>1, <2>2, <2>3 DEF Less
<1>4. CASE i = k
  <2>1. \A j \in 1..i - 1 : j \in 1..Len(p) /\ p[j] = s[j]
    BY <1>0, <1>1, <1>2, <1>4
  <2>2. i \notin 1..Len(p) \/ p[i] < s[i]
    BY <1>0, <1>1, <1>2, <1>4
  <2> QED
    BY <1>0, <1>2, <1>4, <2>1, <2>2 DEF Less
<1>5. CASE k < i
  <2>1. k \in 1..i - 1 /\ k \in 1..Len(p) /\ k \in 1..Len(q) /\ p[k] = q[k]
    BY <1>0, <1>1, <1>2, <1>5
  <2>2. \A j \in 1..k - 1 : j \in 1..Len(p) /\ p[j] = s[j]
    BY <1>0, <1>1, <1>2, <1>5
  <2>3. p[k] < s[k]
    BY <1>2, <2>1
  <2> QED
    BY <1>0, <2>2, <2>3 DEF Less
<1> QED
  BY <1>0, <1>3, <1>4, <1>5

\* ... and total: two paths differ at a first place.
LEMMA LessTotal ==
  ASSUME NEW p \in Path, NEW q \in Path
  PROVE  p = q \/ Less(p, q) \/ Less(q, p)
<1>0. /\ Len(p) \in Nat /\ DOMAIN p = 1..Len(p) /\ \A i \in 1..Len(p) : p[i] \in Nat
      /\ Len(q) \in Nat /\ DOMAIN q = 1..Len(q) /\ \A i \in 1..Len(q) : q[i] \in Nat
  BY PathForm
<1> DEFINE D == {i \in Nat \ {0} : i \in 1..Len(p) \/ i \in 1..Len(q)}
           E == {i \in D : ~(i \in 1..Len(p) /\ i \in 1..Len(q) /\ p[i] = q[i])}
<1>1. CASE E = {}
  <2>1. Len(p) = Len(q)
    <3>1. ~(Len(p) < Len(q))
      <4> SUFFICES ASSUME Len(p) < Len(q) PROVE FALSE
        OBVIOUS
      <4>1. Len(q) \in E
        BY <1>0
      <4> QED
        BY <1>1, <4>1
    <3>2. ~(Len(q) < Len(p))
      <4> SUFFICES ASSUME Len(q) < Len(p) PROVE FALSE
        OBVIOUS
      <4>1. Len(p) \in E
        BY <1>0
      <4> QED
        BY <1>1, <4>1
    <3>3. Len(p) \in Nat /\ Len(q) \in Nat
      BY <1>0
    <3> HIDE DEF D, E
    <3> QED
      BY ONLY <3>1, <3>2, <3>3
  <2>2. \A i \in 1..Len(p) : p[i] = q[i]
    BY <1>0, <1>1
  <2>3. p = q
    BY <2>1, <2>2, SeqEqual DEF Path
  <2> QED
    BY <2>3
<1>2. CASE E # {}
  <2>1. PICK m \in E : \A k \in E : m <= k
    BY <1>2, LeastNumber
  <2>2. \A j \in 1..m - 1 : j \in 1..Len(p) /\ j \in 1..Len(q) /\ p[j] = q[j]
    <3> SUFFICES ASSUME NEW j \in 1..m - 1 PROVE j \in D /\ j \notin E
      OBVIOUS
    <3>1. m \in 1..Len(p) \/ m \in 1..Len(q)
      OBVIOUS
    <3> QED
      BY <1>0, <2>1, <3>1
  <2>3. CASE m \in 1..Len(q) /\ (m \notin 1..Len(p) \/ p[m] < q[m])
    BY <1>0, <2>2, <2>3 DEF Less
  <2>4. CASE m \in 1..Len(p) /\ (m \notin 1..Len(q) \/ q[m] < p[m])
    BY <1>0, <2>2, <2>4 DEF Less
  <2>5. m \in 1..Len(p) \/ m \in 1..Len(q)
    OBVIOUS
  <2>6. ~(m \in 1..Len(p) /\ m \in 1..Len(q) /\ p[m] = q[m])
    OBVIOUS
  <2> HIDE DEF E
  <2> QED
    BY <1>0, <2>3, <2>4, <2>5, <2>6
<1> QED
  BY <1>1, <1>2

\* So a finite set of paths can be put in order.
LEMMA PathsOrdered ==
  ASSUME NEW S \in SUBSET Path, IsFiniteSet(S)
  PROVE  LET before == [p \in S |-> {q \in S : Less(q, p)}]
         IN Ordering(before) /\ DOMAIN before = S
<1> DEFINE before == [p \in S |-> {q \in S : Less(q, p)}]
<1>1. DOMAIN before = S /\ before = [x \in S |-> before[x]]
  OBVIOUS
<1>2. \A x \in S : before[x] \subseteq S /\ x \notin before[x]
  BY LessIrreflexive
<1>3. \A x, y \in S : x = y \/ x \in before[y] \/ y \in before[x]
  BY LessTotal
<1>4. \A x, y, z \in S : x \in before[y] /\ y \in before[z] => x \in before[z]
  BY LessTransitive
<1> HIDE DEF before
<1> QED
  BY <1>1, <1>2, <1>3, <1>4 DEF Ordering, before

-----------------------------------------------------------------------------
(* Results of searches.                                                     *)

\* The path a hit has in the workspace: its repository, and its path there.
LEMMA HitPaths ==
  ASSUME NEW r \in Repo, NEW p \in File
  PROVE  /\ <<r>> \o p \in Path /\ Len(<<r>> \o p) = 1 + Len(p) /\ (<<r>> \o p)[1] = r
         /\ \A i \in 1..Len(p) : (<<r>> \o p)[1 + i] = p[i]
<1>1. p \in Path /\ r \in Name
  BY ReadsAssumption
<1>2. <<r>> \in Seq(Name) /\ p \in Seq(Name)
  BY <1>1 DEF Path
<1> QED
  BY <1>2 DEF Path

\* Different hits have different paths.
LEMMA HitPathsDiffer ==
  ASSUME NEW r \in Repo, NEW p \in File, NEW q \in Repo, NEW s \in File,
         <<r>> \o p = <<q>> \o s
  PROVE  r = q /\ p = s
<1>1. p \in Seq(Name) /\ s \in Seq(Name) /\ Len(p) \in Nat /\ Len(s) \in Nat
  BY ReadsAssumption, PathForm DEF Path
<1>2. Len(p) = Len(s) /\ r = q
  BY <1>1, HitPaths
<1>3. \A i \in 1..Len(p) : p[i] = s[i]
  <2> SUFFICES ASSUME NEW i \in 1..Len(p) PROVE p[i] = s[i]
    OBVIOUS
  <2>1. (<<r>> \o p)[1 + i] = p[i]
    BY HitPaths
  <2>2. (<<q>> \o s)[1 + i] = s[i]
    BY <1>2, HitPaths
  <2> QED
    BY <2>1, <2>2
<1> QED
  BY <1>1, <1>2, <1>3, SeqEqual

BestOrder(hits) == [h \in hits |-> {g \in hits : Better(g, h)}]

\* Hits are ordered by score, and by path where the scores are equal.
LEMMA HitsOrdered ==
  ASSUME NEW H \in SUBSET (Repo \X File), IsFiniteSet(H)
  PROVE  /\ Ordering(BestOrder(H)) /\ DOMAIN BestOrder(H) = H
         /\ \A h \in H : BestOrder(H)[h] = {g \in H : Better(g, h)}
<1> DEFINE before == BestOrder(H)
           path(h) == <<h[1]>> \o h[2]
<1>1. \A h \in H : h[1] \in Repo /\ h[2] \in File /\ h = <<h[1], h[2]>> /\ Score[h] \in Nat
  BY ReadsAssumption
<1>2. /\ \A h \in H : path(h) \in Path
      /\ \A g, h \in H : path(g) = path(h) => g = h
  <2>1. \A h \in H : path(h) \in Path
    BY <1>1, HitPaths
  <2>2. ASSUME NEW g \in H, NEW h \in H, path(g) = path(h) PROVE g = h
    <3>0. g[1] \in Repo /\ g[2] \in File /\ h[1] \in Repo /\ h[2] \in File
      BY <1>1
    <3>1. g[1] = h[1] /\ g[2] = h[2]
      <4>1. <<g[1]>> \o g[2] = <<h[1]>> \o h[2]
        BY <2>2
      <4> HIDE DEF path
      <4> QED
        BY <3>0, <4>1, HitPathsDiffer
    <3> QED
      BY <1>1, <3>1
  <2> QED
    BY <2>1, <2>2
<1>3. \A g, h \in H : Better(g, h) <=> Score[g] > Score[h] \/ (Score[g] = Score[h] /\ Less(path(g), path(h)))
  BY DEF Better
<1>4. DOMAIN before = H /\ before = [x \in H |-> before[x]] /\ \A h \in H : before[h] = {g \in H : Better(g, h)}
  BY DEF BestOrder
<1> HIDE DEF before, path
<1>5. \A x \in H : before[x] \subseteq H /\ x \notin before[x]
  BY <1>1, <1>2, <1>3, <1>4, LessIrreflexive
<1>6. ASSUME NEW x \in H, NEW y \in H PROVE x = y \/ x \in before[y] \/ y \in before[x]
  <2>1. x = y \/ Less(path(x), path(y)) \/ Less(path(y), path(x))
    BY <1>2, LessTotal
  <2> QED
    BY <1>1, <1>3, <1>4, <2>1
<1>7. ASSUME NEW x \in H, NEW y \in H, NEW z \in H, x \in before[y], y \in before[z]
      PROVE  x \in before[z]
  <2>1. Less(path(x), path(y)) /\ Less(path(y), path(z)) => Less(path(x), path(z))
    BY <1>2, LessTransitive
  <2>2. Better(x, y) /\ Better(y, z)
    BY <1>4, <1>7
  <2>3. Score[x] \in Nat /\ Score[y] \in Nat /\ Score[z] \in Nat
    BY <1>1
  <2>4. Better(x, z)
    BY <1>3, <2>1, <2>2, <2>3
  <2> QED
    BY <1>4, <2>4
<1> QED
  BY <1>4, <1>5, <1>6, <1>7 DEF Ordering, before

\* A part of hits is ranked as in the whole.
LEMMA BestOfPart ==
  ASSUME NEW H \in SUBSET (Repo \X File), NEW G \in SUBSET H
  PROVE  BestOrder(G) = Part(BestOrder(H), G)
BY DEF BestOrder, Part

\* The first N of an order are the members with fewer than N before them.
LEMMA FirstOfOrder ==
  ASSUME NEW before, Ordering(before), NEW N \in Nat
  PROVE  /\ Range(Slice(InOrder(before), 0, N)) \subseteq DOMAIN before
         /\ \A x \in DOMAIN before :
              Cardinality(before[x]) < N => x \in Range(Slice(InOrder(before), 0, N))
<1> DEFINE S == DOMAIN before
           s == InOrder(before)
           page == Slice(s, 0, N)
           n == PageLen(Len(s), 0, N)
<1>1. /\ s \in Seq(S) /\ Len(s) \in Nat
      /\ \A x \in S : /\ Cardinality(before[x]) + 1 \in 1..Len(s)
                      /\ s[Cardinality(before[x]) + 1] = x
  BY InOrderPlaces
<1>2. \A x \in S : Cardinality(before[x]) \in Nat
  BY PlacesDiffer
<1> HIDE DEF s, S
<1>3. page \in Seq(S) /\ Len(page) = n /\ n \in 0..N
  <2>1. 0 \in Nat /\ s \in Seq(S) /\ Len(s) \in Nat
    BY <1>1
  <2>2. page \in Seq(S) /\ Len(page) = n
    BY <2>1, SliceLength
  <2>3. n \in 0..N
    BY <2>1, PageLenBound
  <2> QED
    BY <2>2, <2>3
<1>4. \A k \in 1..n : 0 + k \in 1..Len(s) /\ page[k] = s[0 + k]
  <2>1. 0 \in Nat /\ s \in Seq(S)
    BY <1>1
  <2> QED
    BY <2>1, SliceMember
<1>5. \A i \in 1..Len(s) : 0 < i /\ i <= N => i \in 1..n
  BY <1>1 DEF PageLen
<1> HIDE DEF page, n
<1>6. Range(page) \subseteq S
  BY <1>3 DEF Range
<1>7. ASSUME NEW x \in S, Cardinality(before[x]) < N PROVE x \in Range(page)
  <2> DEFINE i == Cardinality(before[x]) + 1
  <2>1. i \in 1..Len(s) /\ s[i] = x
    BY <1>1
  <2>2. 0 < i /\ i <= N /\ 0 + i = i
    <3>1. Cardinality(before[x]) \in Nat
      BY <1>2
    <3> QED
      BY <1>7, <3>1
  <2> HIDE DEF i
  <2>3. i \in 1..n
    BY <1>5, <2>1, <2>2
  <2>4. page[i] = x
    BY <1>4, <2>1, <2>2, <2>3
  <2> QED
    BY <1>3, <2>3, <2>4 DEF Range
<1> QED
  BY <1>6, <1>7 DEF page, s, S

\* Every file of the last commit was put into the index by one of the commits.
LEMMA IndexedAtType ==
  ASSUME LogOK, NEW r \in Repo, NEW p \in DOMAIN Tip(log[r])
  PROVE  IndexedAt(r, p) \in Nat
<1> DEFINE h == log[r]
           n == Len(h)
           since(i) == \A j \in i..n : p \in DOMAIN h[j] /\ h[j][p] = h[i][p]
           first(i) == p \notin DOMAIN TreeAt(h, i - 1) \/ TreeAt(h, i - 1)[p] # h[i][p]
           S == {i \in 1..n : since(i)}
<1>1. n \in Nat /\ h \in Seq(Revision)
  BY DEF LogOK
<1>2. n # 0 /\ p \in DOMAIN h[n]
  BY DEF Tip, TreeAt
<1>3. n \in S
  BY <1>1, <1>2
<1>4. PICK m \in S : \A k \in S : m <= k
  <2>1. S \subseteq Nat
    BY <1>1
  <2> HIDE DEF S
  <2> QED
    BY <1>3, <2>1, LeastNumber
<1>5. first(m)
  <2> SUFFICES ASSUME ~first(m) PROVE FALSE
    OBVIOUS
  <2>1. CASE m = 1
    BY <2>1 DEF TreeAt
  <2>2. CASE m # 1
    <3>1. m - 1 \in 1..n /\ m - 1 # 0 /\ TreeAt(h, m - 1) = h[m - 1]
      BY <1>1, <2>2 DEF TreeAt
    <3>2. p \in DOMAIN h[m - 1] /\ h[m - 1][p] = h[m][p]
      BY <3>1
    <3>3. since(m - 1)
      <4> SUFFICES ASSUME NEW j \in m - 1..n PROVE p \in DOMAIN h[j] /\ h[j][p] = h[m - 1][p]
        OBVIOUS
      <4>1. j = m - 1 \/ j \in m..n
        BY <1>1
      <4> QED
        BY <3>2, <4>1
    <3>4. m - 1 \in S
      BY <3>1, <3>3
    <3> QED
      BY <1>1, <1>4, <3>4
  <2> QED
    BY <2>1, <2>2
<1>6. m \in 1..n /\ since(m) /\ first(m)
  BY <1>5
<1>7. IndexedAt(r, p) = CHOOSE i \in 1..n : since(i) /\ first(i)
  BY DEF IndexedAt
<1> HIDE DEF since, first
<1>8. IndexedAt(r, p) \in 1..n
  BY <1>6, <1>7
<1> QED
  BY <1>1, <1>8

AllHits == UNION {Hits(r, Readable(r)) : r \in Reachable}

\* The notes of a repository that match and may be read are finitely many files.
LEMMA ReadableFinite ==
  ASSUME LogOK, NEW r \in Repo
  PROVE  /\ IsFiniteSet(Readable(r)) /\ Readable(r) \subseteq DOMAIN Tip(log[r]) /\ Readable(r) \subseteq File
         /\ \A p \in Readable(r) : Score[<<r, p>>] \in Nat /\ Score[<<r, p>>] > 0
<1>1. IsRevision(Tip(log[r]))
  <2>1. log[r] \in Seq(Revision) /\ Len(log[r]) \in 0..Len(log[r])
    BY DEF LogOK
  <2> QED
    BY <2>1, TreeAtType DEF Tip
<1>2. Readable(r) \subseteq DOMAIN Tip(log[r]) /\ \A p \in Readable(r) : Score[<<r, p>>] > 0
  BY DEF Readable, Notes
<1>3. IsFiniteSet(Readable(r)) /\ Readable(r) \subseteq File
  BY <1>1, <1>2, FS_Subset DEF IsRevision
<1>4. \A p \in File : Score[<<r, p>>] \in Nat
  BY ReadsAssumption
<1> QED
  BY <1>2, <1>3, <1>4

\* So are the hits they make, ...
LEMMA HitsFinite ==
  ASSUME NEW r \in Repo, NEW notes \in SUBSET File, IsFiniteSet(notes)
  PROVE  Hits(r, notes) \subseteq Repo \X File /\ IsFiniteSet(Hits(r, notes))
<1>1. [p \in notes |-> <<r, p>>] \in Surjection(notes, Hits(r, notes))
  BY DEF Surjection, Hits
<1>2. IsFiniteSet(Hits(r, notes))
  BY <1>1, FS_Surjection
<1> QED
  BY <1>2 DEF Hits

\* ... and those of all repositories together.
LEMMA AllHitsFinite ==
  ASSUME LogOK
  PROVE  /\ IsFiniteSet(AllHits) /\ AllHits \subseteq Repo \X File
         /\ \A h \in AllHits : Score[h] \in Nat /\ Score[h] > 0
<1> DEFINE each == {Hits(r, Readable(r)) : r \in Reachable}
<1>1. Reachable \subseteq Repo /\ IsFiniteSet(Reachable)
  BY ReadsAssumption, FS_Subset DEF Reachable
<1>2. \A r \in Reachable : Hits(r, Readable(r)) \subseteq Repo \X File /\ IsFiniteSet(Hits(r, Readable(r)))
  BY <1>1, ReadableFinite, HitsFinite
<1>3. IsFiniteSet(each)
  <2>1. [r \in Reachable |-> Hits(r, Readable(r))] \in Surjection(Reachable, each)
    BY DEF Surjection
  <2> HIDE DEF each
  <2> QED
    BY <1>1, <2>1, FS_Surjection
<1>4. \A T \in each : IsFiniteSet(T)
  BY <1>2
<1>5. IsFiniteSet(UNION each)
  <2> HIDE DEF each
  <2> QED
    BY <1>3, <1>4, FS_UNION
<1>6. UNION each \subseteq Repo \X File
  BY <1>2
<1>7. ASSUME NEW h \in AllHits PROVE Score[h] \in Nat /\ Score[h] > 0
  <2>1. PICK r \in Reachable : h \in Hits(r, Readable(r))
    BY DEF AllHits
  <2>2. PICK p \in Readable(r) : h = <<r, p>>
    BY <2>1 DEF Hits
  <2>3. Score[<<r, p>>] \in Nat /\ Score[<<r, p>>] > 0
    BY <1>1, ReadableFinite
  <2> QED
    BY <2>2, <2>3
<1> QED
  BY <1>5, <1>6, <1>7 DEF AllHits

\* What each repository contributes to a search holds its notes that are among
\* the first of all.
LEMMA ContributionSuffices ==
  ASSUME LogOK, Distinct, NEW r \in Reachable, NEW N \in Nat
  PROVE  /\ Range(SearchVisible(r, 0, N)) \subseteq Readable(r)
         /\ \A p \in Readable(r) : Cardinality(BestOrder(AllHits)[<<r, p>>]) < N
                                     => p \in Range(SearchVisible(r, 0, N))
<1> DEFINE all == BestOrder(AllHits)
           V == Readable(r)
           before == [p \in V |-> {q \in V : RankedBefore(r, q, p)}]
<1>0. r \in Repo
  BY DEF Reachable
<1>1. /\ Ordering(all) /\ DOMAIN all = AllHits
      /\ \A h \in AllHits : all[h] = {g \in AllHits : Better(g, h)}
  BY AllHitsFinite, HitsOrdered
<1>2. \A p \in V : <<r, p>> \in AllHits
  BY DEF AllHits, Hits
<1>3. ASSUME NEW p \in V, NEW q \in V
      PROVE  RankedBefore(r, q, p) <=> <<r, q>> \in all[<<r, p>>]
  <2>1. /\ p \in File /\ q \in File /\ Score[<<r, p>>] \in Nat /\ Score[<<r, q>>] \in Nat /\ Score[<<r, q>>] > 0
        /\ p \in DOMAIN Tip(log[r])
    BY <1>0, ReadableFinite
  <2>2. Score[<<r, q>>] = Score[<<r, p>>] => q = p
    <3> DEFINE g == <<r, q>>
               h == <<r, p>>
    <3>1. g \in Repo \X File /\ h \in Repo \X File
      BY <1>0, <2>1
    <3>2. Score[g] > 0 /\ (g = h => q = p)
      BY <2>1
    <3> HIDE DEF g, h
    <3>3. Score[g] = Score[h] => g = h
      BY <3>1, <3>2 DEF Distinct
    <3> QED
      BY <3>2, <3>3 DEF g, h
  <2>3. CASE q = p
    <3>1. IndexedAt(r, p) \in Nat
      BY <1>0, <2>1, IndexedAtType
    <3>2. p \in Path
      BY <2>1, ReadsAssumption
    <3>3. ~RankedBefore(r, p, p)
      <4>1. ~Less(p, p)
        BY <3>2, LessIrreflexive
      <4>2. Score[<<r, p>>] \in Nat
        BY <2>1
      <4> HIDE DEF V
      <4> QED
        BY <3>1, <4>1, <4>2 DEF RankedBefore
    <3>4. <<r, p>> \notin all[<<r, p>>]
      BY <1>1, <1>2 DEF Ordering
    <3> QED
      BY <2>3, <3>3, <3>4
  <2>4. CASE q # p
    <3>1. RankedBefore(r, q, p) <=> Score[<<r, q>>] > Score[<<r, p>>]
      BY <2>1, <2>2, <2>4 DEF RankedBefore
    <3>2. Better(<<r, q>>, <<r, p>>) <=> Score[<<r, q>>] > Score[<<r, p>>]
      BY <2>1, <2>2, <2>4 DEF Better
    <3> QED
      BY <1>1, <1>2, <3>1, <3>2
  <2> QED
    BY <2>3, <2>4
<1> HIDE DEF all, V
<1>4. DOMAIN before = V /\ \A p \in V : before[p] = {q \in V : <<r, q>> \in all[<<r, p>>]}
  BY <1>3
<1>a. /\ \A x \in V : <<r, x>> \notin all[<<r, x>>]
      /\ \A x, y \in V : x = y \/ <<r, x>> \in all[<<r, y>>] \/ <<r, y>> \in all[<<r, x>>]
      /\ \A x, y, z \in V : <<r, x>> \in all[<<r, y>>] /\ <<r, y>> \in all[<<r, z>>]
                              => <<r, x>> \in all[<<r, z>>]
  <2>1. /\ \A g \in AllHits : g \notin all[g]
        /\ \A g, h \in AllHits : g = h \/ g \in all[h] \/ h \in all[g]
        /\ \A f, g, h \in AllHits : f \in all[g] /\ g \in all[h] => f \in all[h]
    BY <1>1 DEF Ordering
  <2>2. ASSUME NEW x \in V, NEW y \in V
        PROVE  x = y \/ <<r, x>> \in all[<<r, y>>] \/ <<r, y>> \in all[<<r, x>>]
    <3>1. <<r, x>> \in AllHits /\ <<r, y>> \in AllHits /\ (<<r, x>> = <<r, y>> => x = y)
      BY <1>2 DEF V
    <3> QED
      BY <2>1, <3>1
  <2>3. ASSUME NEW x \in V, NEW y \in V, NEW z \in V,
               <<r, x>> \in all[<<r, y>>], <<r, y>> \in all[<<r, z>>]
        PROVE  <<r, x>> \in all[<<r, z>>]
    <3>1. <<r, x>> \in AllHits /\ <<r, y>> \in AllHits /\ <<r, z>> \in AllHits
      BY <1>2 DEF V
    <3> QED
      BY <2>1, <2>3, <3>1
  <2>4. \A x \in V : <<r, x>> \notin all[<<r, x>>]
    BY <1>2, <2>1 DEF V
  <2> QED
    BY <2>2, <2>3, <2>4
<1>5. Ordering(before)
  <2>1. IsFiniteSet(V)
    BY <1>0, ReadableFinite DEF V
  <2>3. before = [x \in V |-> before[x]]
    OBVIOUS
  <2> HIDE DEF before
  <2> DEFINE R(x, y) == <<r, x>> \in all[<<r, y>>]
  <2>2. \A x, y \in V : R(x, y) <=> x \in before[y]
    BY <1>4
  <2>a. /\ \A x \in V : ~R(x, x)
        /\ \A x, y \in V : x = y \/ R(x, y) \/ R(y, x)
        /\ \A x, y, z \in V : R(x, y) /\ R(y, z) => R(x, z)
    BY <1>a
  <2> HIDE DEF R
  <2>3a. \A x \in V : before[x] \subseteq V
    BY <1>4
  <2>4. \A x \in V : before[x] \subseteq V /\ x \notin before[x]
    BY <2>3a, <2>2, <2>a
  <2>5. \A x, y \in V : x = y \/ x \in before[y] \/ y \in before[x]
    BY <2>2, <2>a
  <2>6. \A x, y, z \in V : x \in before[y] /\ y \in before[z] => x \in before[z]
    BY <2>2, <2>a
  <2> QED
    BY <1>4, <2>1, <2>3, <2>4, <2>5, <2>6 DEF Ordering
<1>6. SearchVisible(r, 0, N) = Slice(InOrder(before), 0, N)
  BY DEF SearchVisible, Ranked, V
<1> HIDE DEF before
<1>7. ASSUME NEW p \in V
      PROVE  Cardinality(before[p]) <= Cardinality(all[<<r, p>>])
  <2>1. [q \in before[p] |-> <<r, q>>] \in Injection(before[p], all[<<r, p>>])
    BY <1>4 DEF Injection, IsInjective
  <2>2. IsFiniteSet(all[<<r, p>>])
    BY <1>1, <1>2, PlacesDiffer
  <2> QED
    BY <2>1, <2>2, FS_Injection
<1>8. ASSUME NEW p \in V, Cardinality(all[<<r, p>>]) < N
      PROVE  p \in Range(SearchVisible(r, 0, N))
  <2>1. Cardinality(all[<<r, p>>]) \in Nat /\ Cardinality(before[p]) \in Nat
    BY <1>1, <1>2, <1>4, <1>5, PlacesDiffer
  <2>2. Cardinality(before[p]) < N
    BY <1>7, <1>8, <2>1
  <2> QED
    BY <1>4, <1>5, <1>6, <2>2, FirstOfOrder
<1>9. Range(SearchVisible(r, 0, N)) \subseteq V
  BY <1>4, <1>5, <1>6, FirstOfOrder
<1> QED
  BY <1>8, <1>9 DEF all, V

\* A search cuts its page from the ranking of everything.
LEMMA SearchIsOnePage ==
  ASSUME LogOK, Distinct, NEW offset \in Nat, NEW limit \in Nat
  PROVE  Search(offset, limit) = Slice(Best(AllHits), offset, limit)
<1> DEFINE N == offset + limit
           all == BestOrder(AllHits)
           G == UNION {Hits(r, Range(SearchVisible(r, 0, N))) : r \in Reachable}
<1>0. N \in Nat
  OBVIOUS
<1>1. Ordering(all) /\ DOMAIN all = AllHits /\ AllHits \in SUBSET (Repo \X File)
  BY AllHitsFinite, HitsOrdered
<1>2. G \subseteq AllHits
  <2> SUFFICES ASSUME NEW h \in G PROVE h \in AllHits
    OBVIOUS
  <2>1. PICK r \in Reachable : h \in Hits(r, Range(SearchVisible(r, 0, N)))
    OBVIOUS
  <2>2. Range(SearchVisible(r, 0, N)) \subseteq Readable(r)
    BY <1>0, ContributionSuffices
  <2> QED
    BY <2>1, <2>2 DEF Hits, AllHits
<1>3. ASSUME NEW h \in AllHits, Cardinality(all[h]) < N PROVE h \in G
  <2>1. PICK r \in Reachable : h \in Hits(r, Readable(r))
    BY DEF AllHits
  <2>2. PICK p \in Readable(r) : h = <<r, p>>
    BY <2>1 DEF Hits
  <2>3. p \in Range(SearchVisible(r, 0, N))
    BY <1>0, <1>3, <2>2, ContributionSuffices
  <2> QED
    BY <2>2, <2>3 DEF Hits
<1>4. BestOrder(G) = Part(all, G)
  BY <1>1, <1>2, BestOfPart
<1>5. Search(offset, limit) = Slice(InOrder(BestOrder(G)), offset, limit)
  BY DEF Search, Best, BestOrder
<1>6. Best(AllHits) = InOrder(all)
  BY DEF Best, BestOrder
<1> HIDE DEF all, G
<1>7. Slice(InOrder(Part(all, G)), offset, limit) = Slice(InOrder(all), offset, limit)
  <2>1. G \in SUBSET DOMAIN all /\ \A h \in DOMAIN all : Cardinality(all[h]) < N => h \in G
    BY <1>1, <1>2, <1>3
  <2>2. N \in Nat /\ offset + limit <= N
    BY <1>0
  <2> HIDE DEF N
  <2> QED
    BY <1>1, <2>1, <2>2, TopOfPart
<1> QED
  BY <1>4, <1>5, <1>6, <1>7

\* So does a quick search, whatever the scores.
LEMMA QuickOpenIsOnePage ==
  ASSUME LogOK, NEW limit \in Nat
  PROVE  QuickOpen(limit) = Slice(Best(AllHits), 0, limit)
<1> DEFINE all == BestOrder(AllHits)
           own(r) == Hits(r, Readable(r))
           G == UNION {Range(Slice(Best(own(r)), 0, limit)) : r \in Reachable}
<1>1. Ordering(all) /\ DOMAIN all = AllHits /\ AllHits \in SUBSET (Repo \X File)
  BY AllHitsFinite, HitsOrdered
<1>2. ASSUME NEW r \in Reachable
      PROVE  /\ Range(Slice(Best(own(r)), 0, limit)) \subseteq own(r)
             /\ \A h \in own(r) : Cardinality(all[h]) < limit => h \in Range(Slice(Best(own(r)), 0, limit))
  <2> DEFINE part == BestOrder(own(r))
  <2>1. own(r) \in SUBSET AllHits
    BY DEF AllHits
  <2>2. part = Part(all, own(r)) /\ Best(own(r)) = InOrder(part)
    BY <1>1, <2>1, BestOfPart DEF Best, BestOrder
  <2>3. Ordering(part) /\ DOMAIN part = own(r)
    <3> HIDE DEF all, own
    <3> QED
      BY <1>1, <2>1, <2>2, PartOrdering
  <2>4. ASSUME NEW h \in own(r), Cardinality(all[h]) < limit PROVE Cardinality(part[h]) < limit
    <3>1. part[h] \subseteq all[h]
      BY <2>2 DEF Part
    <3>2. IsFiniteSet(all[h]) /\ Cardinality(all[h]) \in Nat
      BY <1>1, <2>1, PlacesDiffer
    <3>3. Cardinality(part[h]) <= Cardinality(all[h]) /\ Cardinality(part[h]) \in Nat
      BY <3>1, <3>2, FS_Subset, FS_CardinalityType
    <3> HIDE DEF part, all, own
    <3> QED
      BY <2>4, <3>2, <3>3
  <2> HIDE DEF part, all, own
  <2> QED
    BY <2>2, <2>3, <2>4, FirstOfOrder
<1> HIDE DEF own
<1>3. G \subseteq AllHits
  BY <1>2 DEF AllHits, own
<1>4. ASSUME NEW h \in AllHits, Cardinality(all[h]) < limit PROVE h \in G
  <2>1. PICK r \in Reachable : h \in own(r)
    BY DEF AllHits, own
  <2> QED
    BY <1>2, <1>4, <2>1
<1>5. BestOrder(G) = Part(all, G)
  BY <1>1, <1>3, BestOfPart
<1>6. QuickOpen(limit) = Slice(InOrder(BestOrder(G)), 0, limit)
  BY DEF QuickOpen, Best, BestOrder, own
<1>7. Best(AllHits) = InOrder(all)
  BY DEF Best, BestOrder
<1> HIDE DEF all, G
<1>8. Slice(InOrder(Part(all, G)), 0, limit) = Slice(InOrder(all), 0, limit)
  <2>1. G \in SUBSET DOMAIN all /\ \A h \in DOMAIN all : Cardinality(all[h]) < limit => h \in G
    BY <1>1, <1>3, <1>4
  <2> QED
    BY <1>1, <2>1, TopOfPart
<1> QED
  BY <1>5, <1>6, <1>7, <1>8

-----------------------------------------------------------------------------
(* Matching lines.                                                          *)

\* The matching lines of one file are as many as its score.
LEMMA LinesOfOne ==
  ASSUME NEW h \in Repo \X File
  PROVE  /\ Score[h] \in Nat /\ IsFiniteSet({h} \X (1..Score[h]))
         /\ Cardinality({h} \X (1..Score[h])) = Score[h]
<1>1. Score[h] \in Nat
  BY ReadsAssumption
<1>2. IsFiniteSet({h}) /\ Cardinality({h}) = 1
  BY FS_Singleton
<1>3. IsFiniteSet(1..Score[h]) /\ Cardinality(1..Score[h]) = Score[h]
  <2> DEFINE n == Score[h]
  <2>1. n \in Nat /\ n \in Int /\ 1 \in Int
    BY <1>1
  <2> HIDE DEF n
  <2>2. IsFiniteSet(1..n) /\ Cardinality(1..n) = IF 1 > n THEN 0 ELSE n - 1 + 1
    BY <2>1, FS_Interval
  <2>3. Cardinality(1..n) = n
    BY <2>1, <2>2
  <2> QED
    BY <2>2, <2>3 DEF n
<1>4. /\ IsFiniteSet({h} \X (1..Score[h]))
      /\ Cardinality({h} \X (1..Score[h])) = Cardinality({h}) * Cardinality(1..Score[h])
  BY <1>2, <1>3, FS_Product
<1> QED
  BY <1>1, <1>2, <1>3, <1>4

\* Those of finitely many files are finitely many.
LEMMA LinesFinite ==
  ASSUME NEW D \in SUBSET (Repo \X File), IsFiniteSet(D)
  PROVE  IsFiniteSet(Lines(D)) /\ Cardinality(Lines(D)) \in Nat
<1> DEFINE each == {{h} \X (1..Score[h]) : h \in D}
<1>1. IsFiniteSet(each)
  <2>1. [h \in D |-> {h} \X (1..Score[h])] \in Surjection(D, each)
    BY DEF Surjection
  <2> HIDE DEF each
  <2> QED
    BY <2>1, FS_Surjection
<1>2. \A T \in each : IsFiniteSet(T)
  BY LinesOfOne
<1>3. IsFiniteSet(UNION each)
  <2> HIDE DEF each
  <2> QED
    BY <1>1, <1>2, FS_UNION
<1>4. Lines(D) = UNION each
  BY DEF Lines
<1> QED
  BY <1>3, <1>4, FS_CardinalityType

\* A file more brings its own matching lines.
LEMMA LinesOfOneMore ==
  ASSUME NEW D \in SUBSET (Repo \X File), IsFiniteSet(D), NEW h \in (Repo \X File) \ D
  PROVE  Cardinality(Lines(D \cup {h})) = Cardinality(Lines(D)) + Score[h]
<1> DEFINE own == {h} \X (1..Score[h])
<1>1. Lines(D \cup {h}) = Lines(D) \cup own
  BY DEF Lines
<1>2. Lines(D) \cap own = {}
  <2> SUFFICES ASSUME NEW x \in Lines(D), x \in own PROVE FALSE
    OBVIOUS
  <2>1. x[1] = h
    OBVIOUS
  <2>2. x[1] \in D
    BY DEF Lines
  <2> QED
    BY <2>1, <2>2
<1>3. IsFiniteSet(Lines(D)) /\ Cardinality(Lines(D)) \in Nat
  BY LinesFinite
<1>4. IsFiniteSet(own) /\ Cardinality(own) = Score[h] /\ Score[h] \in Nat
  BY LinesOfOne
<1> HIDE DEF own
<1>5. Cardinality(Lines(D) \cup own) = Cardinality(Lines(D)) + Cardinality(own) - Cardinality(Lines(D) \cap own)
  BY <1>3, <1>4, FS_Union
<1>6. Cardinality(Lines(D) \cap own) = 0
  BY <1>2, FS_EmptySet
<1> DEFINE a == Cardinality(Lines(D))
           b == Cardinality(own)
<1>7. Cardinality(Lines(D) \cup own) = a + b - 0 /\ a \in Nat /\ b \in Nat /\ b = Score[h]
  BY <1>3, <1>4, <1>5, <1>6
<1> HIDE DEF a, b
<1>8. Cardinality(Lines(D) \cup own) = a + Score[h]
  BY <1>7
<1> QED
  BY <1>1, <1>8 DEF a

-----------------------------------------------------------------------------
(* Grep.  What it has found when it has gone through the files D.           *)

GrepOK(found, D, limit) ==
  LET lines == Cardinality(Lines(D))
  IN /\ found \in [limit : {limit}, total : Nat, truncated : BOOLEAN, files : Seq(D \X Nat)]
     /\ found.total = IF limit < lines THEN limit ELSE lines
     /\ limit < lines => found.truncated

\* A file more: what is found stays right, with its lines or as many as there is
\* room for.
LEMMA GrepFileStep ==
  ASSUME NEW D \in SUBSET (Repo \X File), IsFiniteSet(D), NEW h \in (Repo \X File) \ D,
         NEW limit \in Nat, NEW found, GrepOK(found, D, limit)
  PROVE  GrepOK(GrepFile(found, h), D \cup {h}, limit)
<1> DEFINE room == limit - found.total
           n == IF Score[h] < room THEN Score[h] ELSE room
           lines == Cardinality(Lines(D))
           E == D \cup {h}
           t == GrepFile(found, h)
<1>1. Score[h] \in Nat /\ lines \in Nat /\ Cardinality(Lines(E)) = lines + Score[h]
  BY LinesOfOne, LinesFinite, LinesOfOneMore
<1>2. /\ found \in [limit : {limit}, total : Nat, truncated : BOOLEAN, files : Seq(D \X Nat)]
      /\ found.total = IF limit < lines THEN limit ELSE lines
      /\ limit < lines => found.truncated
  BY DEF GrepOK
<1>3. room \in Nat /\ n \in Nat
  BY <1>1, <1>2
<1>4. /\ t.limit = limit /\ t.total = found.total + n
      /\ t.truncated = (found.truncated \/ n < Score[h])
      /\ t.files = IF n = 0 THEN found.files ELSE Append(found.files, <<h, n>>)
      /\ t = [limit |-> t.limit, total |-> t.total, truncated |-> t.truncated, files |-> t.files]
  <2> DEFINE files == IF n = 0 THEN found.files ELSE Append(found.files, <<h, n>>)
  <2>1. t = [found EXCEPT !.total = found.total + n, !.truncated = found.truncated \/ n < Score[h],
                          !.files = files]
    BY <1>2 DEF GrepFile
  <2>a. found \in [limit : {limit}, total : Nat, truncated : BOOLEAN, files : Seq(D \X Nat)]
    BY <1>2
  <2> HIDE DEF n, files, t
  <2>3. t = [limit |-> limit, total |-> found.total + n, truncated |-> found.truncated \/ n < Score[h],
             files |-> files]
    BY <2>1, <2>a
  <2> QED
    BY <2>3 DEF files
<1>5. t.files \in Seq(E \X Nat)
  <2>1. found.files \in Seq(E \X Nat)
    <3>1. found.files \in Seq(D \X Nat) /\ D \X Nat \subseteq E \X Nat
      BY <1>2
    <3> HIDE DEF E
    <3> QED
      BY <3>1
  <2>2. <<h, n>> \in E \X Nat
    BY <1>3
  <2> HIDE DEF E, n
  <2> QED
    BY <1>4, <2>1, <2>2
<1>6. /\ found.total + n = IF limit < lines + Score[h] THEN limit ELSE lines + Score[h]
      /\ limit < lines + Score[h] => found.truncated \/ n < Score[h]
  <2> DEFINE sc == Score[h]
             total == found.total
  <2>1. sc \in Nat /\ lines \in Nat /\ total \in Nat /\ n = IF sc < limit - total THEN sc ELSE limit - total
    BY <1>1, <1>2
  <2>2. total = IF limit < lines THEN limit ELSE lines
    BY <1>2
  <2>3. limit < lines => found.truncated
    BY <1>2
  <2> HIDE DEF sc, total, lines, n
  <2>4. total + n = IF limit < lines + sc THEN limit ELSE lines + sc
    BY <2>1, <2>2
  <2>5. limit < lines + sc => limit < lines \/ n < sc
    BY <2>1, <2>2
  <2> QED
    BY <2>3, <2>4, <2>5 DEF sc, total
<1>7. t \in [limit : {limit}, total : Nat, truncated : BOOLEAN, files : Seq(E \X Nat)]
  <2>1. t.total \in Nat /\ t.truncated \in BOOLEAN
    BY <1>2, <1>3, <1>4
  <2> HIDE DEF t, E
  <2> QED
    BY <1>4, <1>5, <2>1
<1> DEFINE all == Cardinality(Lines(E))
<1>8. /\ all = lines + Score[h]
      /\ t.total = IF limit < lines + Score[h] THEN limit ELSE lines + Score[h]
      /\ limit < lines + Score[h] => t.truncated
  <2> HIDE DEF t, n, E, lines
  <2> QED
    BY <1>1, <1>4, <1>6
<1>9. t.total = (IF limit < all THEN limit ELSE all) /\ (limit < all => t.truncated)
  <2> HIDE DEF t, n, lines, E, all
  <2> QED
    BY <1>8
<1>10. GrepOK(t, E, limit)
  <2> HIDE DEF t, n, lines, E
  <2> QED
    BY <1>7, <1>9 DEF GrepOK
<1> QED
  BY <1>10

\* What is put in order is all there, once.
LEMMA InOrderOnce ==
  ASSUME NEW before, Ordering(before)
  PROVE  LET s == InOrder(before)
         IN /\ s \in Seq(DOMAIN before) /\ Len(s) \in Nat /\ Range(s) = DOMAIN before
            /\ \A i, j \in 1..Len(s) : s[i] = s[j] => i = j
<1> DEFINE S == DOMAIN before
           s == InOrder(before)
<1>1. /\ s \in Seq(S) /\ Len(s) \in Nat
      /\ \A k \in 1..Len(s) : s[k] \in S /\ Cardinality(before[s[k]]) = k - 1
      /\ \A x \in S : /\ Cardinality(before[x]) + 1 \in 1..Len(s)
                      /\ s[Cardinality(before[x]) + 1] = x
  BY InOrderPlaces
<1> HIDE DEF s, S
<1>2. Range(s) = S
  <2>1. DOMAIN s = 1..Len(s)
    BY <1>1
  <2>2. \A x \in S : \E k \in DOMAIN s : s[k] = x
    BY <1>1, <2>1
  <2> QED
    BY <1>1, <2>1, <2>2 DEF Range
<1>3. \A i, j \in 1..Len(s) : s[i] = s[j] => i = j
  <2> SUFFICES ASSUME NEW i \in 1..Len(s), NEW j \in 1..Len(s), s[i] = s[j] PROVE i = j
    OBVIOUS
  <2>1. i - 1 = j - 1
    BY <1>1
  <2> QED
    BY <1>1, <2>1
<1> QED
  BY <1>1, <1>2, <1>3 DEF S, s

\* The recursion over the files of a repository has a solution.
LEMMA GrepRepoSteps ==
  ASSUME NEW found, NEW r, Len(Sorted(Readable(r))) \in Nat
  PROVE  LET files == Sorted(Readable(r))
         IN \E after : /\ after = [n \in 0..Len(files) |->
                                     IF n = 0 THEN found ELSE GrepFile(after[n - 1], <<r, files[n]>>)]
                       /\ found.total # found.limit => GrepRepo(found, r) = after[Len(files)]
<1> DEFINE files == Sorted(Readable(r))
           top == Len(files)
           step(s, n) == GrepFile(s, <<r, files[n]>>)
           Steps(f, m) == f = [n \in 0..m |-> IF n = 0 THEN found ELSE step(f[n - 1], n)]
           S == {m \in Nat : \E f : Steps(f, m)}
<1>1. S = Nat
  <2> HIDE DEF step
  <2>1. 0 \in S
    <3> DEFINE f == [n \in 0..0 |-> found]
    <3>1. f = [n \in 0..0 |-> IF n = 0 THEN found ELSE step(f[n - 1], n)]
      OBVIOUS
    <3> HIDE DEF f
    <3>2. Steps(f, 0)
      BY <3>1
    <3> QED
      BY <3>2
  <2>2. ASSUME NEW m \in S PROVE m + 1 \in S
    <3>1. PICK f : Steps(f, m)
      OBVIOUS
    <3> DEFINE g == [n \in 0..m + 1 |-> IF n = m + 1 THEN step(f[m], n) ELSE f[n]]
    <3>2. m \in Nat
      OBVIOUS
    <3>3. ASSUME NEW n \in 0..m + 1 PROVE g[n] = IF n = 0 THEN found ELSE step(g[n - 1], n)
      <4>1. CASE n = m + 1
        <5>1. n - 1 = m /\ n # 0 /\ m \in 0..m + 1 /\ m # m + 1
          BY <3>2, <4>1
        <5>2. g[n - 1] = f[m]
          BY <5>1
        <5> QED
          BY <4>1, <5>1, <5>2
      <4>2. CASE n # m + 1
        <5>1. n \in 0..m /\ g[n] = f[n]
          BY <3>2, <4>2
        <5>2. f[n] = IF n = 0 THEN found ELSE step(f[n - 1], n)
          BY <3>1, <5>1
        <5>3. n # 0 => g[n - 1] = f[n - 1]
          BY <3>2, <5>1
        <5> QED
          BY <5>1, <5>2, <5>3
      <4> QED
        BY <4>1, <4>2
    <3>4. g = [n \in 0..m + 1 |-> IF n = 0 THEN found ELSE step(g[n - 1], n)]
      BY <3>3
    <3> HIDE DEF g
    <3>5. Steps(g, m + 1)
      BY <3>4
    <3> HIDE DEF Steps
    <3> QED
      BY <3>2, <3>5
  <2> HIDE DEF S
  <2> QED
    BY <2>1, <2>2, SetInduction DEF S
<1>2. \E f : f = [n \in 0..top |-> IF n = 0 THEN found ELSE step(f[n - 1], n)]
  <2> HIDE DEF step
  <2> QED
    BY <1>1
<1> QED
  BY <1>2 DEF GrepRepo

\* A repository more: its files are looked through as far as the limit goes.
LEMMA GrepRepoStep ==
  ASSUME LogOK, NEW r \in Repo, NEW D \in SUBSET (Repo \X File), IsFiniteSet(D),
         D \cap Hits(r, Readable(r)) = {}, NEW limit \in Nat, NEW found, GrepOK(found, D, limit)
  PROVE  GrepOK(GrepRepo(found, r), D \cup Hits(r, Readable(r)), limit)
<1> DEFINE V == Readable(r)
           own == Hits(r, V)
           files == Sorted(V)
           top == Len(files)
           E == D \cup own
<1>1. IsFiniteSet(V) /\ V \subseteq File /\ File \subseteq Path
  BY ReadableFinite, ReadsAssumption
<1>2. own \in SUBSET (Repo \X File) /\ IsFiniteSet(own) /\ IsFiniteSet(E)
  BY <1>1, HitsFinite, FS_Union
<1>3. /\ files \in Seq(V) /\ top \in Nat /\ Range(files) = V
      /\ \A i, j \in 1..top : files[i] = files[j] => i = j
  <2> DEFINE before == [p \in V |-> {q \in V : Less(q, p)}]
  <2>1. Ordering(before) /\ DOMAIN before = V
    BY <1>1, PathsOrdered
  <2>2. files = InOrder(before)
    BY DEF Sorted
  <2> HIDE DEF before, V
  <2> QED
    BY <2>1, <2>2, InOrderOnce
<1>4. CASE found.total = found.limit
  <2> DEFINE a == Cardinality(Lines(D))
             b == Cardinality(Lines(E))
             t == [found EXCEPT !.truncated = TRUE]
  <2>1. a \in Nat /\ b \in Nat /\ a <= b
    <3>1. IsFiniteSet(Lines(E)) /\ b \in Nat /\ a \in Nat
      BY <1>2, LinesFinite
    <3>2. Lines(D) \subseteq Lines(E)
      BY DEF Lines
    <3> QED
      BY <3>1, <3>2, FS_Subset
  <2>2. /\ found \in [limit : {limit}, total : Nat, truncated : BOOLEAN, files : Seq(D \X Nat)]
        /\ found.total = IF limit < a THEN limit ELSE a
    BY DEF GrepOK
  <2>3. /\ t.total = found.total /\ t.truncated = TRUE
        /\ t \in [limit : {limit}, total : Nat, truncated : BOOLEAN, files : Seq(E \X Nat)]
    <3>1. found.files \in Seq(E \X Nat)
      <4>1. D \X Nat \subseteq E \X Nat /\ found.files \in Seq(D \X Nat)
        BY <2>2
      <4> HIDE DEF E
      <4> QED
        BY <4>1
    <3> HIDE DEF E
    <3> QED
      BY <2>2, <3>1
  <2>4. found.total = IF limit < b THEN limit ELSE b
    <3>1. found.total = limit
      BY <1>4, <2>2
    <3> HIDE DEF a, b
    <3> QED
      BY <2>1, <2>2, <3>1
  <2>5. GrepRepo(found, r) = t
    BY <1>4 DEF GrepRepo
  <2>6. GrepOK(t, E, limit)
    <3> HIDE DEF t, E
    <3> QED
      BY <2>3, <2>4 DEF GrepOK
  <2> QED
    BY <2>5, <2>6
<1>5. CASE found.total # found.limit
  <2>1. PICK after : /\ after = [n \in 0..top |->
                                   IF n = 0 THEN found ELSE GrepFile(after[n - 1], <<r, files[n]>>)]
                     /\ GrepRepo(found, r) = after[top]
    BY <1>3, <1>5, GrepRepoSteps
  <2> DEFINE F(k) == D \cup {<<r, files[i]>> : i \in 1..k}
             S == {k \in Nat : k <= top => GrepOK(after[k], F(k), limit)}
  <2>2. 0 \in S
    <3>1. F(0) = D
      OBVIOUS
    <3>2. after[0] = found
      BY <1>3, <2>1
    <3> HIDE DEF F
    <3> QED
      BY <3>1, <3>2
  <2>3. ASSUME NEW k \in S PROVE k + 1 \in S
    <3> SUFFICES ASSUME k + 1 <= top PROVE GrepOK(after[k + 1], F(k + 1), limit)
      OBVIOUS
    <3> DEFINE h == <<r, files[k + 1]>>
    <3>1. k \in Nat /\ k <= top /\ k + 1 \in 1..top /\ GrepOK(after[k], F(k), limit)
      BY <1>3
    <3>2. \A i \in 1..top : files[i] \in V /\ <<r, files[i]>> \in own
      BY <1>3 DEF Hits
    <3>3. F(k) \subseteq E /\ F(k) \in SUBSET (Repo \X File) /\ IsFiniteSet(F(k))
      <4>1. F(k) \subseteq E
        BY <1>3, <3>1, <3>2
      <4> HIDE DEF F
      <4> QED
        BY <1>2, <4>1, FS_Subset
    <3>4. h \in (Repo \X File) \ F(k)
      <4>1. h \in own /\ h \notin D
        BY <3>1, <3>2
      <4>2. ASSUME NEW i \in 1..k, <<r, files[i]>> = h PROVE FALSE
        <5>1. files[i] = files[k + 1] /\ i \in 1..top
          BY <1>3, <3>1, <4>2
        <5>2. i = k + 1
          BY <1>3, <3>1, <5>1
        <5> QED
          BY <3>1, <5>2
      <4> HIDE DEF h
      <4> QED
        BY <1>2, <4>1, <4>2
    <3>5. after[k + 1] = GrepFile(after[k], h)
      <4>1. k + 1 \in 0..top /\ k + 1 # 0 /\ (k + 1) - 1 = k
        BY <1>3, <3>1
      <4> QED
        BY <2>1, <4>1
    <3>6. F(k + 1) = F(k) \cup {h}
      <4>1. 1..k + 1 = (1..k) \cup {k + 1}
        BY <3>1
      <4> QED
        BY <4>1
    <3> HIDE DEF F, h
    <3> QED
      BY <3>1, <3>3, <3>4, <3>5, <3>6, GrepFileStep
  <2>4. S = Nat
    <3> HIDE DEF S
    <3> QED
      BY <2>2, <2>3, SetInduction DEF S
  <2>5. GrepOK(after[top], F(top), limit)
    <3>1. top \in S
      <4> HIDE DEF S, top
      <4> QED
        BY <1>3, <2>4
    <3>2. top <= top
      BY <1>3
    <3> HIDE DEF F, top
    <3> QED
      BY <3>1, <3>2
  <2>6. F(top) = E
    <3>1. DOMAIN files = 1..top
      BY <1>3
    <3>2. \A p : p \in V <=> \E i \in 1..top : p = files[i]
      BY <1>3, <3>1 DEF Range
    <3>3. {<<r, files[i]>> : i \in 1..top} = own
      BY <3>2 DEF Hits
    <3> QED
      BY <3>3
  <2> QED
    BY <2>1, <2>5, <2>6
<1> QED
  BY <1>4, <1>5

\* The recursion over the repositories has a solution.
LEMMA GrepSteps ==
  ASSUME NEW limit, NEW repos, Len(repos) \in Nat,
         repos = InOrder([r \in Reachable |-> {q \in Reachable : q < r}])
  PROVE  \E after : /\ after = [n \in 0..Len(repos) |->
                                  IF n = 0 THEN [limit |-> limit, total |-> 0, truncated |-> FALSE, files |-> <<>>]
                                  ELSE GrepRepo(after[n - 1], repos[n])]
                    /\ Grep(limit) = after[Len(repos)]
<1> DEFINE none == [limit |-> limit, total |-> 0, truncated |-> FALSE, files |-> <<>>]
           top == Len(repos)
           step(s, n) == GrepRepo(s, repos[n])
           Steps(f, m) == f = [n \in 0..m |-> IF n = 0 THEN none ELSE step(f[n - 1], n)]
           S == {m \in Nat : \E f : Steps(f, m)}
<1>1. S = Nat
  <2> HIDE DEF step, none
  <2>1. 0 \in S
    <3> DEFINE f == [n \in 0..0 |-> none]
    <3>1. f = [n \in 0..0 |-> IF n = 0 THEN none ELSE step(f[n - 1], n)]
      OBVIOUS
    <3> HIDE DEF f
    <3>2. Steps(f, 0)
      BY <3>1
    <3> QED
      BY <3>2
  <2>2. ASSUME NEW m \in S PROVE m + 1 \in S
    <3>1. PICK f : Steps(f, m)
      OBVIOUS
    <3> DEFINE g == [n \in 0..m + 1 |-> IF n = m + 1 THEN step(f[m], n) ELSE f[n]]
    <3>2. m \in Nat
      OBVIOUS
    <3>3. ASSUME NEW n \in 0..m + 1 PROVE g[n] = IF n = 0 THEN none ELSE step(g[n - 1], n)
      <4>1. CASE n = m + 1
        <5>1. n - 1 = m /\ n # 0 /\ m \in 0..m + 1 /\ m # m + 1
          BY <3>2, <4>1
        <5>2. g[n - 1] = f[m]
          BY <5>1
        <5> QED
          BY <4>1, <5>1, <5>2
      <4>2. CASE n # m + 1
        <5>1. n \in 0..m /\ g[n] = f[n]
          BY <3>2, <4>2
        <5>2. f[n] = IF n = 0 THEN none ELSE step(f[n - 1], n)
          BY <3>1, <5>1
        <5>3. n # 0 => g[n - 1] = f[n - 1]
          BY <3>2, <5>1
        <5> QED
          BY <5>1, <5>2, <5>3
      <4> QED
        BY <4>1, <4>2
    <3>4. g = [n \in 0..m + 1 |-> IF n = 0 THEN none ELSE step(g[n - 1], n)]
      BY <3>3
    <3> HIDE DEF g
    <3>5. Steps(g, m + 1)
      BY <3>4
    <3> HIDE DEF Steps
    <3> QED
      BY <3>2, <3>5
  <2> HIDE DEF S
  <2> QED
    BY <2>1, <2>2, SetInduction DEF S
<1>2. \E f : f = [n \in 0..top |-> IF n = 0 THEN none ELSE step(f[n - 1], n)]
  <2> HIDE DEF step, none
  <2> QED
    BY <1>1
<1> QED
  BY <1>2 DEF Grep

\* Before the first file nothing is found.
LEMMA GrepNothing ==
  ASSUME NEW limit \in Nat
  PROVE  GrepOK([limit |-> limit, total |-> 0, truncated |-> FALSE, files |-> <<>>], {}, limit)
<1>1. Lines({}) = {}
  BY DEF Lines
<1>2. Cardinality(Lines({})) = 0
  BY <1>1, FS_EmptySet
<1>3. <<>> \in Seq({} \X Nat)
  OBVIOUS
<1> QED
  BY <1>2, <1>3 DEF GrepOK

\* Grep goes through everything readable, as far as the limit goes.
LEMMA GrepGoesThroughAll ==
  ASSUME LogOK, NEW limit \in Nat
  PROVE  GrepOK(Grep(limit), AllHits, limit)
<1> DEFINE before == [r \in Reachable |-> {q \in Reachable : q < r}]
           repos == InOrder(before)
           top == Len(repos)
           own(r) == Hits(r, Readable(r))
<1>1. Reachable \subseteq Repo /\ IsFiniteSet(Reachable) /\ \A r \in Reachable : r \in Nat
  BY ReadsAssumption, FS_Subset DEF Reachable
<1>2. Ordering(before) /\ DOMAIN before = Reachable
  <2>1. DOMAIN before = Reachable /\ before = [x \in Reachable |-> before[x]]
    OBVIOUS
  <2>2. \A x \in Reachable : before[x] = {q \in Reachable : q < x}
    OBVIOUS
  <2> HIDE DEF before
  <2> QED
    BY <1>1, <2>1, <2>2 DEF Ordering
<1>3. /\ repos \in Seq(Reachable) /\ top \in Nat /\ Range(repos) = Reachable
      /\ \A i, j \in 1..top : repos[i] = repos[j] => i = j
  <2> HIDE DEF before
  <2> QED
    BY <1>2, InOrderOnce
<1>4. PICK after :
        /\ after = [n \in 0..top |->
                      IF n = 0 THEN [limit |-> limit, total |-> 0, truncated |-> FALSE, files |-> <<>>]
                      ELSE GrepRepo(after[n - 1], repos[n])]
        /\ Grep(limit) = after[top]
  BY <1>3, GrepSteps
<1>5. /\ \A r \in Reachable : own(r) \in SUBSET AllHits
      /\ \A q, r \in Reachable : q # r => own(q) \cap own(r) = {}
  BY DEF AllHits, Hits
<1>6. AllHits \in SUBSET (Repo \X File) /\ IsFiniteSet(AllHits)
  BY AllHitsFinite
<1> HIDE DEF repos
<1> DEFINE D(k) == UNION {own(repos[i]) : i \in 1..k}
           S == {k \in Nat : k <= top => GrepOK(after[k], D(k), limit)}
<1>7. 0 \in S
  <2>1. D(0) = {}
    OBVIOUS
  <2>2. after[0] = [limit |-> limit, total |-> 0, truncated |-> FALSE, files |-> <<>>]
    BY <1>3, <1>4
  <2> HIDE DEF D
  <2> QED
    BY <2>1, <2>2, GrepNothing
<1>8. ASSUME NEW k \in S PROVE k + 1 \in S
  <2> SUFFICES ASSUME k + 1 <= top PROVE GrepOK(after[k + 1], D(k + 1), limit)
    OBVIOUS
  <2> DEFINE r == repos[k + 1]
  <2>1. k \in Nat /\ k <= top /\ k + 1 \in 1..top /\ GrepOK(after[k], D(k), limit)
    BY <1>3
  <2>2. \A i \in 1..top : repos[i] \in Reachable
    BY <1>3
  <2>3. r \in Reachable /\ r \in Repo
    BY <1>1, <2>1, <2>2
  <2> HIDE DEF own
  <2>4. D(k) \in SUBSET (Repo \X File) /\ IsFiniteSet(D(k))
    <3>1. D(k) \subseteq AllHits
      BY <1>3, <1>5, <2>1, <2>2
    <3> HIDE DEF D
    <3> QED
      BY <1>6, <3>1, FS_Subset
  <2>5. D(k) \cap own(r) = {}
    <3>1. ASSUME NEW i \in 1..k PROVE own(repos[i]) \cap own(r) = {}
      <4>1. i \in 1..top /\ i # k + 1
        BY <1>3, <2>1
      <4>2. repos[i] # r /\ repos[i] \in Reachable
        BY <1>3, <2>1, <2>2, <4>1
      <4> HIDE DEF r
      <4> QED
        BY <1>5, <2>3, <4>2
    <3> QED
      BY <3>1
  <2>6. after[k + 1] = GrepRepo(after[k], r)
    <3>1. k + 1 \in 0..top /\ k + 1 # 0 /\ (k + 1) - 1 = k
      BY <1>3, <2>1
    <3> QED
      BY <1>4, <3>1
  <2>7. D(k + 1) = D(k) \cup own(r)
    <3>1. 1..k + 1 = (1..k) \cup {k + 1}
      BY <2>1
    <3> QED
      BY <3>1
  <2> HIDE DEF D, r
  <2>8. GrepOK(GrepRepo(after[k], r), D(k) \cup own(r), limit)
    BY <2>1, <2>3, <2>4, <2>5, GrepRepoStep DEF own
  <2> QED
    BY <2>6, <2>7, <2>8
<1>9. S = Nat
  <2> HIDE DEF S
  <2> QED
    BY <1>7, <1>8, SetInduction DEF S
<1>10. GrepOK(after[top], D(top), limit)
  <2>1. top \in S /\ top <= top
    <3>1. top <= top
      BY <1>3
    <3> HIDE DEF S, top
    <3> QED
      BY <1>3, <1>9, <3>1
  <2> HIDE DEF D, top
  <2> QED
    BY <2>1
<1>11. D(top) = AllHits
  <2>1. DOMAIN repos = 1..top
    BY <1>3
  <2>2. \A x : x \in Reachable <=> \E i \in 1..top : x = repos[i]
    BY <1>3, <2>1 DEF Range
  <2> HIDE DEF top
  <2> QED
    BY <2>2 DEF AllHits
<1> QED
  BY <1>4, <1>10, <1>11

\* Together: what the property says of the pages holds of any histories.
LEMMA OneRanking == LogOK => PagesOfOneRanking
<1> SUFFICES ASSUME LogOK PROVE PagesOfOneRanking
  OBVIOUS
<1> DEFINE lines == Cardinality(Lines(AllHits))
<1>1. IsFiniteSet(AllHits) /\ AllHits \in SUBSET (Repo \X File) /\ Cardinality(AllHits) \in Nat
  BY AllHitsFinite, FS_CardinalityType
<1>2. lines \in Nat
  BY <1>1, LinesFinite
<1>3. ASSUME Distinct, NEW offset \in 0..Cardinality(AllHits), NEW limit \in 1..Cardinality(AllHits) + 1
      PROVE  Search(offset, limit) = Slice(Best(AllHits), offset, limit)
  <2>1. offset \in Nat /\ limit \in Nat
    BY <1>1
  <2> QED
    BY <1>3, <2>1, SearchIsOnePage
<1>4. ASSUME NEW limit \in 1..Cardinality(AllHits) + 1
      PROVE  QuickOpen(limit) = Slice(Best(AllHits), 0, limit)
  <2>1. limit \in Nat
    BY <1>1
  <2> QED
    BY <2>1, QuickOpenIsOnePage
<1>5. ASSUME NEW limit \in 1..lines + 1
      PROVE  /\ Grep(limit).total = IF limit < lines THEN limit ELSE lines
             /\ limit < lines => Grep(limit).truncated
             /\ {f[1] : f \in Range(Grep(limit).files)} \subseteq AllHits
  <2> DEFINE found == Grep(limit)
  <2>1. limit \in Nat
    BY <1>2
  <2>2. /\ found \in [limit : {limit}, total : Nat, truncated : BOOLEAN, files : Seq(AllHits \X Nat)]
        /\ found.total = IF limit < lines THEN limit ELSE lines
        /\ limit < lines => found.truncated
    BY <2>1, GrepGoesThroughAll DEF GrepOK
  <2>3. {f[1] : f \in Range(found.files)} \subseteq AllHits
    <3> DEFINE files == found.files
    <3>1. files \in Seq(AllHits \X Nat)
      BY <2>2
    <3> HIDE DEF files
    <3>2. \A i \in DOMAIN files : files[i] \in AllHits \X Nat
      BY <3>1
    <3>3. Range(files) \subseteq AllHits \X Nat
      BY <3>2 DEF Range
    <3>4. {f[1] : f \in Range(files)} \subseteq AllHits
      BY <3>3
    <3> QED
      BY <3>4 DEF files
  <2> QED
    BY <2>2, <2>3
<1> HIDE DEF lines
<1> QED
  BY <1>3, <1>4, <1>5 DEF PagesOfOneRanking, AllHits, lines

(* Pages of results are cut from one ranking of what the account may read,  *)
(* of all repositories together, whatever each contributed: no note is left *)
(* out or comes twice because of a limit, an offset or a hidden note; and   *)
(* grep counts up to its limit and says so when there is more.              *)
THEOREM PagesKeepOneRanking == Spec => []PagesOfOneRanking
BY WriteInvHolds, OneRanking, PTL DEF WriteInv

-----------------------------------------------------------------------------
(* Ties.  The ranking of one index is another one, and yet its scores fall. *)

\* The ranking of a repository is an order in which scores fall.
LEMMA RankedOrdered ==
  ASSUME LogOK, NEW r \in Repo
  PROVE  LET before == [p \in Readable(r) |-> {q \in Readable(r) : RankedBefore(r, q, p)}]
         IN /\ Ordering(before) /\ DOMAIN before = Readable(r)
            /\ \A p, q \in Readable(r) : q \in before[p] => Score[<<r, q>>] >= Score[<<r, p>>]
<1> DEFINE V == Readable(r)
           before == [p \in V |-> {q \in V : RankedBefore(r, q, p)}]
           at(p) == IndexedAt(r, p)
           sc(p) == Score[<<r, p>>]
<1>1. /\ IsFiniteSet(V) /\ V \subseteq DOMAIN Tip(log[r])
      /\ \A p \in V : p \in File /\ Score[<<r, p>>] \in Nat
  BY ReadableFinite
<1>2. \A p \in V : sc(p) \in Nat /\ at(p) \in Nat /\ p \in Path
  BY <1>1, IndexedAtType, ReadsAssumption
<1>3. \A p, q \in V : RankedBefore(r, p, q) <=>
        \/ sc(p) > sc(q)
        \/ sc(p) = sc(q) /\ (at(p) < at(q) \/ (at(p) = at(q) /\ Less(p, q)))
  BY DEF RankedBefore
<1>4. /\ DOMAIN before = V /\ before = [x \in V |-> before[x]]
      /\ \A p \in V : before[p] = {q \in V : RankedBefore(r, q, p)}
  OBVIOUS
<1> HIDE DEF V, before, at, sc
<1>5. \A x \in V : before[x] \subseteq V /\ x \notin before[x]
  BY <1>2, <1>3, <1>4, LessIrreflexive
<1>6. ASSUME NEW x \in V, NEW y \in V PROVE x = y \/ x \in before[y] \/ y \in before[x]
  <2>1. x = y \/ Less(x, y) \/ Less(y, x)
    BY <1>2, LessTotal
  <2> QED
    BY <1>2, <1>3, <1>4, <2>1
<1>7. ASSUME NEW x \in V, NEW y \in V, NEW z \in V, x \in before[y], y \in before[z]
      PROVE  x \in before[z]
  <2>1. RankedBefore(r, x, y) /\ RankedBefore(r, y, z)
    BY <1>4, <1>7
  <2>2. Less(x, y) /\ Less(y, z) => Less(x, z)
    BY <1>2, LessTransitive
  <2>3. /\ sc(x) \in Nat /\ sc(y) \in Nat /\ sc(z) \in Nat
        /\ at(x) \in Nat /\ at(y) \in Nat /\ at(z) \in Nat
    BY <1>2
  <2>4. RankedBefore(r, x, z)
    BY <1>3, <2>1, <2>2, <2>3
  <2> QED
    BY <1>4, <2>4
<1>8. \A p, q \in V : q \in before[p] => sc(q) >= sc(p)
  BY <1>2, <1>3, <1>4
<1>9. Ordering(before)
  BY <1>1, <1>4, <1>5, <1>6, <1>7 DEF Ordering
<1> QED
  BY <1>4, <1>8, <1>9 DEF V, before, sc

\* What a repository leaves out of its contribution is outdone by as many
\* notes as it contributes.
LEMMA LeftOutIsOutdone ==
  ASSUME LogOK, NEW r \in Repo, NEW N \in Nat, NEW p \in Readable(r),
         p \notin Range(SearchVisible(r, 0, N))
  PROVE  \E T \in SUBSET Range(SearchVisible(r, 0, N)) :
           IsFiniteSet(T) /\ Cardinality(T) = N /\ \A q \in T : Score[<<r, q>>] >= Score[<<r, p>>]
<1> DEFINE V == Readable(r)
           before == [x \in V |-> {q \in V : RankedBefore(r, q, x)}]
           s == InOrder(before)
           page == Slice(s, 0, N)
           m == PageLen(Len(s), 0, N)
           place == Cardinality(before[p]) + 1
<1>1. /\ Ordering(before) /\ DOMAIN before = V
      /\ \A x, q \in V : q \in before[x] => Score[<<r, q>>] >= Score[<<r, x>>]
  BY RankedOrdered
<1>2. SearchVisible(r, 0, N) = page
  BY DEF SearchVisible, Ranked
<1> HIDE DEF before, V
<1>3. s \in Seq(V) /\ Len(s) \in Nat /\ \A k \in 1..Len(s) : s[k] \in V /\ Cardinality(before[s[k]]) = k - 1
  BY <1>1, InOrderPlaces
<1>4. p \in V /\ place \in 1..Len(s) /\ s[place] = p /\ Cardinality(before[p]) \in Nat
  BY <1>1, InOrderPlaces, PlacesDiffer DEF V
<1>5. \A x, q \in V : q \in before[x] <=> Cardinality(before[q]) < Cardinality(before[x])
  BY <1>1, PlacesDiffer
<1> HIDE DEF s
<1>6. page \in Seq(V) /\ Len(page) = m
  BY <1>3, SliceLength
<1>7. \A k \in 1..m : page[k] = s[0 + k]
  BY <1>3, SliceMember
<1>8. ~(Cardinality(before[p]) < N)
  <2> SUFFICES ASSUME Cardinality(before[p]) < N PROVE FALSE
    OBVIOUS
  <2>1. p \in Range(Slice(InOrder(before), 0, N))
    BY <1>1, <1>4, FirstOfOrder
  <2> QED
    BY <1>2, <2>1 DEF s
<1>9. N < Len(s) /\ N \in Nat /\ m = N /\ \A k \in 1..N : k < place /\ k \in 1..Len(s) /\ 0 + k = k
  BY <1>3, <1>4, <1>8 DEF PageLen
<1> HIDE DEF page, m
<1>10. DOMAIN page = 1..N /\ Range(page) = {page[k] : k \in 1..N}
  BY <1>6, <1>9 DEF Range
<1>11. \A k \in 1..N : page[k] = s[k] /\ page[k] \in V
  BY <1>3, <1>7, <1>9
<1>12. Cardinality(Range(page)) = N /\ IsFiniteSet(Range(page))
  <2>1. \A i, j \in 1..N : page[i] = page[j] => i = j
    <3> SUFFICES ASSUME NEW i \in 1..N, NEW j \in 1..N, page[i] = page[j] PROVE i = j
      OBVIOUS
    <3>1. i - 1 = j - 1
      BY <1>3, <1>9, <1>11
    <3> QED
      BY <1>9, <3>1
  <2>2. [k \in 1..N |-> page[k]] \in Bijection(1..N, Range(page))
    BY <1>10, <2>1 DEF Bijection, Injection, IsInjective, Surjection
  <2>3. IsFiniteSet(1..N) /\ Cardinality(1..N) = N
    <3>1. N \in Int /\ 1 \in Int
      OBVIOUS
    <3>2. IsFiniteSet(1..N) /\ Cardinality(1..N) = IF 1 > N THEN 0 ELSE N - 1 + 1
      BY <3>1, FS_Interval
    <3> QED
      BY <3>2
  <2> QED
    BY <2>2, <2>3, FS_Bijection DEF ExistsBijection
<1>13. ASSUME NEW q \in Range(page) PROVE Score[<<r, q>>] >= Score[<<r, p>>]
  <2>1. PICK k \in 1..N : q = page[k]
    BY <1>10
  <2>2. q \in V /\ Cardinality(before[q]) = k - 1
    BY <1>3, <1>9, <1>11, <2>1
  <2>3. Cardinality(before[q]) < Cardinality(before[p])
    BY <1>4, <1>9, <2>1, <2>2
  <2> QED
    BY <1>1, <1>4, <1>5, <2>2, <2>3
<1> QED
  BY <1>2, <1>12, <1>13

\* The k-th of a ranking has a score of c at least when k hits have.
LEMMA BestCounts ==
  ASSUME NEW H \in SUBSET (Repo \X File), IsFiniteSet(H), NEW c \in Nat
  PROVE  LET s == Best(H)
             U == {h \in H : Score[h] >= c}
         IN /\ s \in Seq(H) /\ Len(s) = Cardinality(H) /\ Len(s) \in Nat
            /\ IsFiniteSet(U) /\ Cardinality(U) \in Nat
            /\ \A k \in 1..Len(s) : Score[s[k]] >= c <=> k <= Cardinality(U)
<1> DEFINE before == BestOrder(H)
           s == Best(H)
           U == {h \in H : Score[h] >= c}
<1>1. Ordering(before) /\ DOMAIN before = H /\ \A h \in H : before[h] = {g \in H : Better(g, h)}
  BY HitsOrdered
<1>2. s = InOrder(before)
  BY DEF Best, BestOrder
<1> HIDE DEF before, s
<1>3. /\ s \in Seq(H) /\ Len(s) = Cardinality(H) /\ Len(s) \in Nat
      /\ \A k \in 1..Len(s) : s[k] \in H /\ Cardinality(before[s[k]]) = k - 1
  BY <1>1, <1>2, InOrderPlaces
<1>4. \A h \in H : IsFiniteSet(before[h])
  BY <1>1, PlacesDiffer
<1>5. IsFiniteSet(U) /\ Cardinality(U) \in Nat
  BY FS_Subset, FS_CardinalityType
<1>6. \A h \in H : Score[h] \in Nat
  BY ReadsAssumption
<1>7. ASSUME NEW k \in 1..Len(s) PROVE Score[s[k]] >= c <=> k <= Cardinality(U)
  <2> DEFINE h == s[k]
  <2>1. h \in H /\ Cardinality(before[h]) = k - 1 /\ Score[h] \in Nat
    BY <1>3, <1>6
  <2> HIDE DEF h
  <2>2. CASE Score[h] >= c
    <3>1. before[h] \subseteq U /\ h \in U /\ h \notin before[h]
      <4>1. ASSUME NEW g \in before[h] PROVE g \in H /\ Score[g] >= Score[h]
        <5>1. g \in H /\ Better(g, h)
          BY <1>1, <2>1
        <5>2. Score[g] > Score[h] \/ Score[g] = Score[h]
          BY <5>1 DEF Better
        <5>3. Score[g] \in Nat /\ Score[h] \in Nat
          BY <1>6, <2>1, <5>1
        <5> QED
          BY <5>1, <5>2, <5>3
      <4>2. \A g \in before[h] : Score[g] >= c
        BY <1>6, <2>1, <2>2, <4>1
      <4> QED
        BY <1>1, <2>1, <2>2, <4>1, <4>2 DEF Ordering
    <3>2. Cardinality(before[h]) <= Cardinality(U) /\ Cardinality(before[h]) # Cardinality(U)
      BY <1>5, <3>1, FS_Subset
    <3> QED
      BY <1>3, <1>5, <2>1, <2>2, <3>2 DEF h
  <2>3. CASE ~(Score[h] >= c)
    <3>1. U \subseteq before[h]
      <4>1. \A g \in U : g \in H /\ Score[g] > Score[h]
        BY <1>6, <2>1, <2>3
      <4> QED
        BY <1>1, <2>1, <4>1 DEF Better
    <3>2. Cardinality(U) <= Cardinality(before[h])
      BY <1>4, <2>1, <3>1, FS_Subset
    <3>3. ~(k <= Cardinality(U))
      BY <1>3, <1>5, <2>1, <3>2
    <3> QED
      BY <2>3, <3>3 DEF h
  <2> QED
    BY <2>2, <2>3
<1> QED
  BY <1>3, <1>5, <1>7 DEF s

\* Whatever is left out is outdone by N that are not: the first N of both
\* rankings have the same scores.
LEMMA ScoresAlike ==
  ASSUME NEW H \in SUBSET (Repo \X File), IsFiniteSet(H), NEW G \in SUBSET H, NEW N \in Nat,
         \A h \in H \ G : \E T \in SUBSET G :
           IsFiniteSet(T) /\ Cardinality(T) = N /\ \A g \in T : Score[g] >= Score[h]
  PROVE  /\ Len(Best(G)) = Len(Best(H)) \/ (N <= Len(Best(G)) /\ N <= Len(Best(H)))
         /\ Len(Best(G)) \in Nat /\ Len(Best(H)) \in Nat
         /\ \A k \in 1..N : k <= Len(Best(H)) =>
              k <= Len(Best(G)) /\ Score[Best(G)[k]] = Score[Best(H)[k]]
<1> DEFINE s == Best(H)
           t == Best(G)
           U(c) == {h \in H : Score[h] >= c}
           W(c) == {g \in G : Score[g] >= c}
<1>0. G \in SUBSET (Repo \X File) /\ IsFiniteSet(G)
  BY FS_Subset
<1>1. \A h \in H : Score[h] \in Nat
  BY ReadsAssumption
<1>2. ASSUME NEW c \in Nat
      PROVE  /\ s \in Seq(H) /\ Len(s) = Cardinality(H) /\ Len(s) \in Nat
             /\ IsFiniteSet(U(c)) /\ Cardinality(U(c)) \in Nat
             /\ \A k \in 1..Len(s) : Score[s[k]] >= c <=> k <= Cardinality(U(c))
  BY BestCounts
<1>3. ASSUME NEW c \in Nat
      PROVE  /\ t \in Seq(G) /\ Len(t) = Cardinality(G) /\ Len(t) \in Nat
             /\ IsFiniteSet(W(c)) /\ Cardinality(W(c)) \in Nat
             /\ \A k \in 1..Len(t) : Score[t[k]] >= c <=> k <= Cardinality(W(c))
  BY <1>0, BestCounts
<1> HIDE DEF s, t
<1>4. ASSUME NEW c \in Nat, NEW k \in 1..N PROVE k <= Cardinality(U(c)) <=> k <= Cardinality(W(c))
  <2>0. IsFiniteSet(U(c)) /\ Cardinality(U(c)) \in Nat /\ IsFiniteSet(W(c)) /\ Cardinality(W(c)) \in Nat
    BY <1>2, <1>3
  <2>1. W(c) \subseteq U(c)
    OBVIOUS
  <2>2. CASE W(c) = U(c)
    BY <2>2
  <2>3. CASE W(c) # U(c)
    <3>1. PICK h \in H \ G : Score[h] >= c
      BY <2>1, <2>3
    <3>2. PICK T \in SUBSET G : IsFiniteSet(T) /\ Cardinality(T) = N /\ \A g \in T : Score[g] >= Score[h]
      OBVIOUS
    <3>3. T \subseteq W(c)
      <4>1. \A g \in T : g \in G /\ Score[g] \in Nat /\ Score[h] \in Nat
        BY <1>1
      <4>2. \A g \in T : Score[g] >= c
        BY <3>1, <3>2, <4>1
      <4> QED
        BY <4>2
    <3> HIDE DEF U, W
    <3>4. N <= Cardinality(W(c)) /\ Cardinality(W(c)) <= Cardinality(U(c))
      BY <2>0, <2>1, <3>2, <3>3, FS_Subset
    <3> QED
      BY <2>0, <3>4
  <2> QED
    BY <2>2, <2>3
<1>5. /\ s \in Seq(H) /\ Len(s) = Cardinality(H) /\ Len(s) \in Nat
      /\ t \in Seq(G) /\ Len(t) = Cardinality(G) /\ Len(t) \in Nat
  BY <1>2, <1>3
<1>6. U(0) = H /\ W(0) = G
  BY <1>1
<1>7. Cardinality(G) <= Cardinality(H)
  BY FS_Subset
<1>8. \A k \in 1..N : k <= Len(s) <=> k <= Len(t)
  <2>1. Cardinality(U(0)) = Len(s) /\ Cardinality(W(0)) = Len(t)
    BY <1>5, <1>6
  <2> HIDE DEF U, W
  <2>2. 0 \in Nat
    OBVIOUS
  <2>3. \A k \in 1..N : k <= Cardinality(U(0)) <=> k <= Cardinality(W(0))
    BY <1>4, <2>2
  <2> QED
    BY <2>1, <2>3
<1>9. Len(t) = Len(s) \/ (N <= Len(t) /\ N <= Len(s))
  <2> SUFFICES ASSUME Len(t) < Len(s), ~(N <= Len(t)) PROVE FALSE
    BY <1>5, <1>7
  <2>1. Len(t) + 1 \in 1..N /\ Len(t) + 1 <= Len(s)
    BY <1>5
  <2>2. Len(t) + 1 <= Len(t)
    BY <1>8, <2>1
  <2> QED
    BY <1>5, <2>2
<1>10. ASSUME NEW k \in 1..N, k <= Len(s) PROVE k <= Len(t) /\ Score[t[k]] = Score[s[k]]
  <2>1. k \in 1..Len(s) /\ k \in 1..Len(t)
    BY <1>5, <1>8, <1>10
  <2>2. s[k] \in H /\ t[k] \in H
    BY <1>5, <2>1
  <2>3. Score[s[k]] \in Nat /\ Score[t[k]] \in Nat
    BY <1>1, <2>2
  <2> DEFINE a == Score[s[k]]
             b == Score[t[k]]
  <2> HIDE DEF U, W
  <2>4. \A c \in Nat : a >= c <=> b >= c
    BY <1>2, <1>3, <1>4, <2>1
  <2>5. a \in Nat /\ b \in Nat
    BY <2>3
  <2> HIDE DEF a, b
  <2>6. a = b
    BY <2>4, <2>5
  <2> QED
    BY <2>1, <2>6 DEF a, b
<1> QED
  BY <1>5, <1>9, <1>10 DEF s, t

\* Pages of scores are cut from one ranking, whatever the ties.
ScoresOfOneRanking ==
  \A offset, limit \in Nat :
    LET page == Search(offset, limit)
        best == Slice(Best(AllHits), offset, limit)
    IN Len(page) = Len(best) /\ \A k \in 1..Len(best) : Score[page[k]] = Score[best[k]]

\* The contributions of the repositories leave out only what is outdone.
LEMMA OneRankingOfScores == LogOK => ScoresOfOneRanking
<1> SUFFICES ASSUME LogOK, NEW offset \in Nat, NEW limit \in Nat
             PROVE  LET page == Search(offset, limit)
                        best == Slice(Best(AllHits), offset, limit)
                    IN Len(page) = Len(best) /\ \A k \in 1..Len(best) : Score[page[k]] = Score[best[k]]
  BY DEF ScoresOfOneRanking
<1> DEFINE N == offset + limit
           H == AllHits
           G == UNION {Hits(r, Range(SearchVisible(r, 0, N))) : r \in Reachable}
           s == Best(H)
           t == Best(G)
<1>0. N \in Nat
  OBVIOUS
<1>1. H \in SUBSET (Repo \X File) /\ IsFiniteSet(H) /\ Reachable \subseteq Repo
  BY AllHitsFinite DEF Reachable
<1> DEFINE V(r) == Range(SearchVisible(r, 0, N))
<1>2. \A r \in Reachable : V(r) \subseteq Readable(r)
  <2> SUFFICES ASSUME NEW r \in Reachable PROVE V(r) \subseteq Readable(r)
    OBVIOUS
  <2> DEFINE before == [p \in Readable(r) |-> {q \in Readable(r) : RankedBefore(r, q, p)}]
  <2>1. Ordering(before) /\ DOMAIN before = Readable(r)
    BY <1>1, RankedOrdered
  <2>2. SearchVisible(r, 0, N) = Slice(InOrder(before), 0, N)
    BY DEF SearchVisible, Ranked
  <2> HIDE DEF before, N
  <2> QED
    BY <1>0, <2>1, <2>2, FirstOfOrder
<1>3. G = UNION {Hits(r, V(r)) : r \in Reachable}
  OBVIOUS
<1> HIDE DEF V, G, N
<1>4. G \in SUBSET H
  BY <1>2, <1>3 DEF AllHits, Hits
<1>5. ASSUME NEW h \in H \ G
      PROVE  \E T \in SUBSET G : IsFiniteSet(T) /\ Cardinality(T) = N /\ \A g \in T : Score[g] >= Score[h]
  <2>1. PICK r \in Reachable : h \in Hits(r, Readable(r))
    BY DEF AllHits
  <2>2. PICK p \in Readable(r) : h = <<r, p>>
    BY <2>1 DEF Hits
  <2>3. p \notin V(r)
    BY <1>3, <1>5, <2>2 DEF Hits
  <2>4. PICK P \in SUBSET V(r) :
          IsFiniteSet(P) /\ Cardinality(P) = N /\ \A q \in P : Score[<<r, q>>] >= Score[<<r, p>>]
    BY <1>0, <1>1, <2>3, LeftOutIsOutdone DEF V
  <2> DEFINE T == Hits(r, P)
  <2>5. T \subseteq G
    BY <1>3, <2>4 DEF Hits
  <2>6. IsFiniteSet(T) /\ Cardinality(T) = N
    <3>1. [q \in P |-> <<r, q>>] \in Bijection(P, T)
      BY DEF Bijection, Injection, IsInjective, Surjection, Hits
    <3> HIDE DEF T
    <3> QED
      BY <2>4, <3>1, FS_Bijection DEF ExistsBijection
  <2>7. \A g \in T : Score[g] >= Score[h]
    BY <2>2, <2>4 DEF Hits
  <2> QED
    BY <2>5, <2>6, <2>7
<1>6. /\ Len(t) = Len(s) \/ (N <= Len(t) /\ N <= Len(s))
      /\ Len(t) \in Nat /\ Len(s) \in Nat
      /\ \A k \in 1..N : k <= Len(s) => k <= Len(t) /\ Score[t[k]] = Score[s[k]]
  <2> HIDE DEF H, s, t
  <2> QED
    BY <1>0, <1>1, <1>4, <1>5, ScoresAlike DEF s, t
<1>7. Search(offset, limit) = Slice(t, offset, limit)
  BY DEF Search, G, V, N
<1>8. s \in Seq(H) /\ t \in Seq(G)
  <2>1. IsFiniteSet(G) /\ G \in SUBSET (Repo \X File)
    BY <1>1, <1>4, FS_Subset
  <2>2. 0 \in Nat
    OBVIOUS
  <2> QED
    BY <1>1, <2>1, <2>2, BestCounts
<1> HIDE DEF H, s, t
<1> DEFINE page == Slice(t, offset, limit)
           best == Slice(s, offset, limit)
           m == PageLen(Len(s), offset, limit)
<1>9. Len(page) = PageLen(Len(t), offset, limit) /\ Len(best) = m /\ m \in 0..limit
  <2>1. Len(Slice(t, offset, limit)) = PageLen(Len(t), offset, limit)
    BY <1>8, SliceLength
  <2>2. Len(Slice(s, offset, limit)) = PageLen(Len(s), offset, limit)
    BY <1>8, SliceLength
  <2>3. PageLen(Len(s), offset, limit) \in 0..limit
    BY <1>6, PageLenBound
  <2> QED
    BY <2>1, <2>2, <2>3
<1>10. PageLen(Len(t), offset, limit) = m
  BY <1>6 DEF PageLen, N
<1>11. \A k \in 1..m : offset + k \in 1..Len(s) /\ best[k] = s[offset + k]
  <2> HIDE DEF page, best, m
  <2>1. s \in Seq(H)
    BY <1>8
  <2>2. \A k \in 1..PageLen(Len(s), offset, limit) :
          offset + k \in 1..Len(s) /\ Slice(s, offset, limit)[k] = s[offset + k]
    BY <2>1, SliceMember
  <2> QED
    BY <2>2 DEF best, m
<1>12. \A k \in 1..PageLen(Len(t), offset, limit) : page[k] = t[offset + k]
  <2> HIDE DEF page, best, m
  <2>1. t \in Seq(G)
    BY <1>8
  <2>2. \A k \in 1..PageLen(Len(t), offset, limit) :
          offset + k \in 1..Len(t) /\ Slice(t, offset, limit)[k] = t[offset + k]
    BY <2>1, SliceMember
  <2> QED
    BY <2>2 DEF page
<1> HIDE DEF page, best, m
<1>13. ASSUME NEW k \in 1..m PROVE Score[page[k]] = Score[best[k]]
  <2>1. offset + k \in 1..N /\ offset + k <= Len(s)
    BY <1>6, <1>9, <1>11 DEF N
  <2> QED
    BY <1>6, <1>10, <1>11, <1>12, <1>13, <2>1
<1> QED
  BY <1>7, <1>9, <1>10, <1>13 DEF page, best, s, H

(* Whatever the ties between notes, of one repository or of several, the    *)
(* k-th result of every page has the score of its place in the ranking of   *)
(* everything the account may read: what two pages may repeat or leave out  *)
(* are notes of equal scores.                                               *)
THEOREM ScoresKeepOneRanking == Spec => []ScoresOfOneRanking
BY WriteInvHolds, OneRankingOfScores, PTL DEF WriteInv

-----------------------------------------------------------------------------
\* Pages that do not overlap share nothing.
LEMMA PagesApart ==
  ASSUME NEW before, Ordering(before), NEW m \in Nat, NEW n \in Nat, NEW limit \in Nat, m + limit <= n
  PROVE  Range(Slice(InOrder(before), m, limit)) \cap Range(Slice(InOrder(before), n, limit)) = {}
<1> DEFINE S == DOMAIN before
           s == InOrder(before)
           a == PageLen(Len(s), m, limit)
           b == PageLen(Len(s), n, limit)
           p == Slice(s, m, limit)
           q == Slice(s, n, limit)
<1>1. s \in Seq(S) /\ Len(s) \in Nat /\ \A i, j \in 1..Len(s) : s[i] = s[j] => i = j
  BY InOrderOnce
<1> HIDE DEF S, s
<1>2. p \in Seq(S) /\ Len(p) = a /\ q \in Seq(S) /\ Len(q) = b /\ a \in 0..limit /\ b \in 0..limit
  <2>0. s \in Seq(S)
    BY <1>1
  <2>1. Slice(s, m, limit) \in Seq(S) /\ Slice(s, n, limit) \in Seq(S)
    BY <2>0, SliceLength
  <2>2. /\ Len(Slice(s, m, limit)) = PageLen(Len(s), m, limit)
        /\ Len(Slice(s, n, limit)) = PageLen(Len(s), n, limit)
    BY <2>0, SliceLength
  <2>3. PageLen(Len(s), m, limit) \in 0..limit
    BY <1>1 DEF PageLen
  <2>4. PageLen(Len(s), n, limit) \in 0..limit
    BY <1>1 DEF PageLen
  <2> QED
    BY <2>1, <2>2, <2>3, <2>4
<1>3. \A k \in 1..PageLen(Len(s), m, limit) : m + k \in 1..Len(s) /\ Slice(s, m, limit)[k] = s[m + k]
  BY <1>1, SliceMember
<1>4. \A k \in 1..PageLen(Len(s), n, limit) : n + k \in 1..Len(s) /\ Slice(s, n, limit)[k] = s[n + k]
  BY <1>1, SliceMember
<1>5. /\ \A k \in 1..a : m + k \in 1..Len(s) /\ p[k] = s[m + k]
      /\ \A k \in 1..b : n + k \in 1..Len(s) /\ q[k] = s[n + k]
  BY <1>3, <1>4
<1> HIDE DEF p, q, a, b
<1>6. DOMAIN p = 1..a /\ DOMAIN q = 1..b
  BY <1>2
<1>7. ASSUME NEW i \in 1..a, NEW j \in 1..b, p[i] = q[j] PROVE FALSE
  <2>1. m + i = n + j
    BY <1>1, <1>5, <1>7
  <2> QED
    BY <1>2, <2>1
<1> QED
  BY <1>6, <1>7 DEF Range, p, q, s

\* Where scores tell all notes apart, pages of one search that do not overlap
\* share no note.
DistinctPagesApart ==
  Distinct => \A m, n, limit \in Nat :
    m + limit <= n => Range(Search(m, limit)) \cap Range(Search(n, limit)) = {}

\* Both pages are cut from the ranking of everything.
LEMMA DistinctApart == LogOK => DistinctPagesApart
<1> SUFFICES ASSUME LogOK, Distinct, NEW m \in Nat, NEW n \in Nat, NEW limit \in Nat, m + limit <= n
             PROVE  Range(Search(m, limit)) \cap Range(Search(n, limit)) = {}
  BY DEF DistinctPagesApart
<1>1. Search(m, limit) = Slice(Best(AllHits), m, limit) /\ Search(n, limit) = Slice(Best(AllHits), n, limit)
  BY SearchIsOnePage
<1>2. Best(AllHits) = InOrder(BestOrder(AllHits)) /\ Ordering(BestOrder(AllHits))
  BY AllHitsFinite, HitsOrdered DEF Best, BestOrder
<1> QED
  BY <1>1, <1>2, PagesApart

(* No note comes on two pages of a search that do not overlap, as long as   *)
(* no two notes have the same score.                                        *)
THEOREM PagesShareNothing == Spec => []DistinctPagesApart
BY WriteInvHolds, DistinctApart, PTL DEF WriteInv

-----------------------------------------------------------------------------
(* Walks.                                                                   *)

\* Histories only grow.
LEMMA LogGrows ==
  ASSUME LogOK, CallOK, [Next]_vars
  PROVE  \A r \in Repo : /\ Len(log[r]) \in Nat /\ Len(log'[r]) \in Nat /\ Len(log[r]) <= Len(log'[r])
                         /\ \A i \in 0..Len(log[r]) : TreeAt(log'[r], i) = TreeAt(log[r], i)
<1>1. ASSUME NEW e \in Edits, Commit(e), NEW r \in Repo
      PROVE  /\ Len(log[r]) \in Nat /\ Len(log'[r]) \in Nat /\ Len(log[r]) <= Len(log'[r])
             /\ \A i \in 0..Len(log[r]) : TreeAt(log'[r], i) = TreeAt(log[r], i)
  <2>1. PICK t : log' = [log EXCEPT ![e.repo] = Append(log[e.repo], t)]
    BY <1>1 DEF Commit
  <2>2. log'[r] = log[r] \/ log'[r] = Append(log[r], t)
    BY <2>1 DEF LogOK
  <2>3. log[r] \in Seq(Revision)
    BY DEF LogOK
  <2> DEFINE h == log[r]
             longer == Append(h, t)
  <2>4. /\ Len(h) \in Nat /\ Len(longer) = Len(h) + 1
        /\ \A i \in 1..Len(h) : longer[i] = h[i]
    BY <2>3
  <2> HIDE DEF h, longer
  <2>5. log'[r] = h \/ log'[r] = longer
    BY <2>2 DEF h, longer
  <2>6. \A i \in 0..Len(h) : TreeAt(longer, i) = TreeAt(h, i)
    BY <2>4 DEF TreeAt
  <2>7. Len(log'[r]) \in Nat /\ Len(h) <= Len(log'[r])
    BY <2>4, <2>5
  <2>8. \A i \in 0..Len(h) : TreeAt(log'[r], i) = TreeAt(h, i)
    BY <2>5, <2>6
  <2> QED
    BY <2>4, <2>7, <2>8 DEF h
<1>2. CASE UNCHANGED <<log, written>>
  BY <1>2 DEF LogOK
<1>3. CASE Commits /\ call.pc = "admitted" /\ Commit(call.edit)
  <2>1. call.edit \in Edits
    BY <1>3 DEF CallOK
  <2> QED
    BY <1>1, <1>3, <2>1
<1>4. CASE \E e \in Edits : OthersCommit(e)
  BY <1>1, <1>4 DEF OthersCommit
<1> QED
  BY <1>2, <1>3, <1>4, LogMoves

\* Whether a commit is listed does not depend on the later ones.
LEMMA ListedAlike ==
  ASSUME NEW scope, NEW h, NEW g, NEW n \in Nat,
         \A i \in 0..n : TreeAt(g, i) = TreeAt(h, i)
  PROVE  \A i \in 1..n : Listed(scope, g, <<>>, i) <=> Listed(scope, h, <<>>, i)
<1> SUFFICES ASSUME NEW i \in 1..n PROVE Listed(scope, g, <<>>, i) <=> Listed(scope, h, <<>>, i)
  OBVIOUS
<1>1. i \in 0..n /\ i - 1 \in 0..n
  OBVIOUS
<1>2. TreeAt(g, i) = TreeAt(h, i) /\ TreeAt(g, i - 1) = TreeAt(h, i - 1)
  BY <1>1
<1>3. ChangesAt(g, i) = ChangesAt(h, i)
  BY <1>2 DEF ChangesAt
<1> QED
  BY <1>3 DEF Listed

\* The beginning of a history has the same commits.
LEMMA BeginningAlike ==
  ASSUME NEW h \in Seq(Revision), NEW n \in 0..Len(h)
  PROVE  /\ Len(SubSeq(h, 1, n)) = n
         /\ \A i \in 0..n : TreeAt(SubSeq(h, 1, n), i) = TreeAt(h, i)
<1> DEFINE g == SubSeq(h, 1, n)
<1>1. Len(h) \in Nat /\ n \in Nat /\ Len(g) = n /\ \A i \in 1..n : g[i] = h[i]
  OBVIOUS
<1> HIDE DEF g
<1>2. \A i \in 0..n : TreeAt(g, i) = TreeAt(h, i)
  BY <1>1 DEF TreeAt
<1> QED
  BY <1>1, <1>2 DEF g

\* Commits can be put in order, newest first.
LEMMA NewestOrdered ==
  ASSUME NEW C \in SUBSET Nat, IsFiniteSet(C)
  PROVE  LET before == [i \in C |-> {j \in C : i < j}]
         IN Ordering(before) /\ DOMAIN before = C
<1> DEFINE before == [i \in C |-> {j \in C : i < j}]
<1>1. DOMAIN before = C /\ before = [i \in C |-> before[i]] /\ \A i \in C : before[i] = {j \in C : i < j}
  OBVIOUS
<1>2. C \subseteq Nat
  OBVIOUS
<1> HIDE DEF before
<1> QED
  BY <1>1, <1>2 DEF Ordering

\* A page that is long enough holds everything.
LEMMA WholeSlice ==
  ASSUME NEW S, NEW s \in Seq(S), NEW n \in Nat, Len(s) <= n
  PROVE  Slice(s, 0, n) = s
<1>1. Len(s) \in Nat /\ 0 + 1 = 1 /\ (IF 0 + n < Len(s) THEN 0 + n ELSE Len(s)) = Len(s)
  OBVIOUS
<1>2. SubSeq(s, 1, Len(s)) = s
  BY SubSeqFull
<1> QED
  BY <1>1, <1>2 DEF Slice

\* Two pages that follow each other make one.
LEMMA SlicesJoin ==
  ASSUME NEW S, NEW s \in Seq(S), NEW n \in 0..Len(s), NEW limit \in Nat
  PROVE  Slice(s, 0, n) \o Slice(s, n, limit) = Slice(s, 0, n + limit)
<1> DEFINE last == IF n + limit < Len(s) THEN n + limit ELSE Len(s)
<1>1. Len(s) \in Nat /\ n \in Nat /\ n <= Len(s)
  OBVIOUS
<1>2. 1 \in 1..Len(s) + 1 /\ n \in 1 - 1 .. Len(s) /\ last \in n..Len(s)
  BY <1>1
<1>3. SubSeq(s, 1, n) \o SubSeq(s, n + 1, last) = SubSeq(s, 1, last)
  <2> HIDE DEF last
  <2> QED
    BY <1>2, ConcatAdjacentSubSeq
<1>4. /\ (IF 0 + n < Len(s) THEN 0 + n ELSE Len(s)) = n /\ 0 + 1 = 1
      /\ (IF 0 + (n + limit) < Len(s) THEN 0 + (n + limit) ELSE Len(s)) = last
  BY <1>1
<1>5. Slice(s, 0, n) = SubSeq(s, 1, n) /\ Slice(s, 0, n + limit) = SubSeq(s, 1, last)
  <2> HIDE DEF last
  <2> QED
    BY <1>4 DEF Slice
<1>6. Slice(s, n, limit) = SubSeq(s, n + 1, last)
  BY DEF Slice
<1> HIDE DEF last
<1> QED
  BY <1>3, <1>5, <1>6

\* A page holds whatever has its place between the cursor and the limit.
LEMMA PageHolds ==
  ASSUME NEW before, Ordering(before), NEW n \in Nat, NEW limit \in Nat, NEW x \in DOMAIN before,
         n <= Cardinality(before[x]), Cardinality(before[x]) < n + limit
  PROVE  x \in Range(Slice(InOrder(before), n, limit))
<1> DEFINE S == DOMAIN before
           s == InOrder(before)
           page == Slice(s, n, limit)
           m == PageLen(Len(s), n, limit)
           i == Cardinality(before[x]) + 1
<1>1. s \in Seq(S) /\ i \in 1..Len(s) /\ s[i] = x /\ Len(s) \in Nat
  BY InOrderPlaces
<1>2. Cardinality(before[x]) \in Nat
  BY PlacesDiffer
<1>3. n < i /\ i <= n + limit /\ i \in Nat
  BY <1>2
<1> HIDE DEF s, i, S
<1>4. page \in Seq(S) /\ Len(page) = m
  BY <1>1, SliceLength
<1>4a. \A k \in 1..m : page[k] = s[n + k]
  BY <1>1, SliceMember
<1>5. i - n \in 1..m
  BY <1>1, <1>3 DEF PageLen
<1> HIDE DEF page, m
<1>6. page[i - n] = s[n + (i - n)] /\ n + (i - n) = i
  BY <1>3, <1>4a, <1>5
<1>7. DOMAIN page = 1..m
  BY <1>4
<1> QED
  BY <1>1, <1>5, <1>6, <1>7 DEF Range, page, s

\* The commits of a repository that are shown now, and those newer than one.
Seen(r) == {i \in 1..Len(log[r]) : Listed(rules[r], log[r], <<>>, i)}
Newer(r, i) == {j \in Seen(r) : i < j}

\* A file that was there, and readable, since the walk began.
Stays(r, p) == \A i \in call.begun[r]..Len(log[r]) : p \in DOMAIN Strip(rules[r], TreeAt(log[r], i))

WalkType ==
  /\ call.pc \in {"log", "logged"} =>
       call \in [pc : {"log", "logged"}, repo : Repo, cursor : Nat, got : Seq(Nat),
                 steady : BOOLEAN, begun : [Repo -> Nat]]
  /\ call.pc \in {"list", "listed"} =>
       call \in [pc : {"list", "listed"}, cursor : Path, got : Seq(Path),
                 steady : BOOLEAN, begun : [Repo -> Nat]]
  /\ call.pc \in {"log", "logged", "list", "listed"} => \A r \in Repo : call.begun[r] <= Len(log[r])

\* The cursor of a log counts the commits that were shown when it was given out:
\* new ones push the rest down, and never past the cursor unseen.
LogWalk ==
  call.pc = "log" /\ call.steady =>
    LET r == call.repo
    IN /\ \A i \in Seen(r) : i <= call.begun[r] /\ Cardinality(Newer(r, i)) < call.cursor
                              => i \in Range(call.got)
       /\ call.begun[r] = Len(log[r]) =>
            call.cursor <= Cardinality(Seen(r)) /\ call.got = Slice(NewestFirst(Seen(r)), 0, call.cursor)
LogEnd ==
  call.pc = "logged" /\ call.steady =>
    LET r == call.repo
    IN /\ \A i \in Seen(r) : i <= call.begun[r] => i \in Range(call.got)
       /\ call.begun[r] = Len(log[r]) => call.got = NewestFirst(Seen(r))

\* The cursor of a listing is the last entry so far.
Grows == \A i, j \in DOMAIN call.got : i < j => Less(call.got[i], call.got[j])
ListWalk ==
  call.pc = "list" /\ call.steady =>
    /\ Grows /\ \A i \in DOMAIN call.got : call.cursor # NoPath /\ ~Less(call.cursor, call.got[i])
    /\ \A r \in Reachable, p \in File : Stays(r, p) =>
         <<r>> \o p \in Range(call.got) \/ call.cursor = NoPath \/ Less(call.cursor, <<r>> \o p)
ListEnd ==
  call.pc = "listed" /\ call.steady =>
    Grows /\ \A r \in Reachable, p \in File : Stays(r, p) => <<r>> \o p \in Range(call.got)

WalkInv == WalkType /\ LogWalk /\ LogEnd /\ ListWalk /\ ListEnd

\* What the log of a repository shows, in its order.
LEMMA SeenForm ==
  ASSUME LogOK, NEW r \in Repo
  PROVE  LET before == [i \in Seen(r) |-> Newer(r, i)]
         IN /\ Seen(r) \in SUBSET Nat /\ IsFiniteSet(Seen(r)) /\ Cardinality(Seen(r)) \in Nat
            /\ Len(log[r]) \in Nat /\ log[r] \in Seq(Revision)
            /\ Ordering(before) /\ DOMAIN before = Seen(r)
            /\ NewestFirst(Seen(r)) = InOrder(before)
            /\ ShownCommits(rules[r], log[r], <<>>) = NewestFirst(Seen(r))
<1> DEFINE before == [i \in Seen(r) |-> {j \in Seen(r) : i < j}]
<1>1. log[r] \in Seq(Revision) /\ Len(log[r]) \in Nat
  BY DEF LogOK
<1>2. IsFiniteSet(1..Len(log[r]))
  BY <1>1, FS_Interval
<1>3. Seen(r) \subseteq 1..Len(log[r])
  BY DEF Seen
<1>4. Seen(r) \in SUBSET Nat /\ IsFiniteSet(Seen(r)) /\ Cardinality(Seen(r)) \in Nat
  BY <1>1, <1>2, <1>3, FS_Subset, FS_CardinalityType
<1>5. Ordering(before) /\ DOMAIN before = Seen(r)
  BY <1>4, NewestOrdered
<1>6. NewestFirst(Seen(r)) = InOrder(before)
  BY DEF NewestFirst
<1>7. ShownCommits(rules[r], log[r], <<>>) = NewestFirst(Seen(r))
  BY DEF ShownCommits, Seen
<1>8. before = [i \in Seen(r) |-> Newer(r, i)]
  BY DEF Newer
<1> HIDE DEF before
<1> QED
  BY <1>1, <1>4, <1>5, <1>6, <1>7, <1>8

\* What was shown at an earlier time, under the rules of now.
LEMMA ShownThen ==
  ASSUME LogOK, NEW r \in Repo, NEW b \in 0..Len(log[r])
  PROVE  LET then == ShownCommits(rules[r], SubSeq(log[r], 1, b), <<>>)
         IN /\ Range(then) = {i \in Seen(r) : i <= b}
            /\ b = Len(log[r]) => then = NewestFirst(Seen(r))
<1> DEFINE h == log[r]
           g == SubSeq(h, 1, b)
           V == {i \in 1..Len(g) : Listed(rules[r], g, <<>>, i)}
           before == [i \in V |-> {j \in V : i < j}]
<1>1. h \in Seq(Revision) /\ Len(h) \in Nat /\ b \in Nat /\ b <= Len(h)
  BY DEF LogOK
<1>2. Len(g) = b /\ \A i \in 0..b : TreeAt(g, i) = TreeAt(h, i)
  <2> HIDE DEF h
  <2> QED
    BY <1>1, BeginningAlike DEF h
<1>3. \A i \in 1..b : Listed(rules[r], g, <<>>, i) <=> Listed(rules[r], h, <<>>, i)
  <2> HIDE DEF h, g
  <2> QED
    BY <1>1, <1>2, ListedAlike
<1>4. V = {i \in Seen(r) : i <= b}
  <2> HIDE DEF g
  <2>1. V = {i \in 1..b : Listed(rules[r], h, <<>>, i)}
    BY <1>2, <1>3
  <2> QED
    BY <1>1, <2>1 DEF Seen
<1>5. ShownCommits(rules[r], g, <<>>) = NewestFirst(V)
  BY DEF ShownCommits
<1>6. Range(NewestFirst(V)) = V
  <2>1. V \in SUBSET Nat /\ IsFiniteSet(V)
    <3>1. Seen(r) \in SUBSET Nat /\ IsFiniteSet(Seen(r))
      BY SeenForm
    <3> HIDE DEF V
    <3>2. V \subseteq Seen(r)
      BY <1>4
    <3> QED
      BY <3>1, <3>2, FS_Subset
  <2>2. NewestFirst(V) = InOrder(before)
    BY DEF NewestFirst
  <2> HIDE DEF V
  <2>3. Ordering(before) /\ DOMAIN before = V
    BY <2>1, NewestOrdered
  <2> HIDE DEF before
  <2> QED
    BY <2>2, <2>3, InOrderOnce
<1>7. b = Len(h) => V = Seen(r)
  BY <1>1, <1>4 DEF Seen
<1> HIDE DEF V, g
<1> QED
  BY <1>4, <1>5, <1>6, <1>7 DEF g, h

\* A step that commits, of others: nothing that was shown is hidden.
LEMMA SeenGrows ==
  ASSUME LogOK, CallOK, [Next]_vars, LogOK', NEW r \in Repo, rules' = rules
  PROVE  /\ Seen(r) \subseteq Seen(r)'
         /\ \A i \in Seen(r)' : i <= Len(log[r]) => i \in Seen(r)
         /\ \A i \in Seen(r) : Cardinality(Newer(r, i)) <= Cardinality(Newer(r, i)')
         /\ Len(log'[r]) = Len(log[r]) => Seen(r)' = Seen(r)
<1>1. /\ Len(log[r]) \in Nat /\ Len(log'[r]) \in Nat /\ Len(log[r]) <= Len(log'[r])
      /\ \A i \in 0..Len(log[r]) : TreeAt(log'[r], i) = TreeAt(log[r], i)
  BY LogGrows
<1>2. \A i \in 1..Len(log[r]) : Listed(rules[r], log'[r], <<>>, i) <=> Listed(rules[r], log[r], <<>>, i)
  BY <1>1, ListedAlike
<1>3. Seen(r)' = {i \in 1..Len(log'[r]) : Listed(rules[r], log'[r], <<>>, i)}
  BY DEF Seen
<1>4. Seen(r) \subseteq Seen(r)' /\ \A i \in Seen(r)' : i <= Len(log[r]) => i \in Seen(r)
  BY <1>1, <1>2, <1>3 DEF Seen
<1>5. ASSUME NEW i \in Seen(r) PROVE Cardinality(Newer(r, i)) <= Cardinality(Newer(r, i)')
  <2>1. Newer(r, i) \subseteq Newer(r, i)'
    BY <1>4 DEF Newer
  <2>2. IsFiniteSet(Newer(r, i)')
    <3>1. IsFiniteSet(1..Len(log'[r]))
      BY <1>1, FS_Interval
    <3>2. Newer(r, i)' \subseteq 1..Len(log'[r])
      BY <1>3 DEF Newer
    <3> QED
      BY <3>1, <3>2, FS_Subset
  <2> QED
    BY <2>1, <2>2, FS_Subset
<1>6. Len(log'[r]) = Len(log[r]) => Seen(r)' = Seen(r)
  BY <1>1, <1>2, <1>3 DEF Seen
<1> QED
  BY <1>4, <1>5, <1>6

\* The members of two sequences together.
LEMMA RangeJoin ==
  ASSUME NEW S, NEW s \in Seq(S), NEW t \in Seq(S)
  PROVE  s \o t \in Seq(S) /\ Range(s \o t) = Range(s) \cup Range(t)
<1> DEFINE u == s \o t
<1>1. /\ u \in Seq(S) /\ Len(u) = Len(s) + Len(t) /\ Len(s) \in Nat /\ Len(t) \in Nat
      /\ \A i \in 1..Len(s) + Len(t) : u[i] = IF i <= Len(s) THEN s[i] ELSE t[i - Len(s)]
  BY ConcatProperties
<1> HIDE DEF u
<1>2. DOMAIN u = 1..Len(s) + Len(t) /\ DOMAIN s = 1..Len(s) /\ DOMAIN t = 1..Len(t)
  BY <1>1
<1>3. \A x \in Range(u) : x \in Range(s) \cup Range(t)
  <2> SUFFICES ASSUME NEW i \in 1..Len(s) + Len(t) PROVE u[i] \in Range(s) \cup Range(t)
    BY <1>2 DEF Range
  <2>1. CASE i <= Len(s)
    BY <1>1, <1>2, <2>1 DEF Range
  <2>2. CASE ~(i <= Len(s))
    <3>1. i - Len(s) \in 1..Len(t)
      BY <1>1, <2>2
    <3> QED
      BY <1>1, <1>2, <2>2, <3>1 DEF Range
  <2> QED
    BY <2>1, <2>2
<1>4. ASSUME NEW i \in 1..Len(s) PROVE s[i] \in Range(u)
  <2>1. i \in 1..Len(s) + Len(t) /\ u[i] = s[i]
    BY <1>1
  <2> QED
    BY <1>2, <2>1 DEF Range
<1>5. ASSUME NEW i \in 1..Len(t) PROVE t[i] \in Range(u)
  <2>1. Len(s) + i \in 1..Len(s) + Len(t) /\ ~(Len(s) + i <= Len(s)) /\ (Len(s) + i) - Len(s) = i
    BY <1>1
  <2>2. u[Len(s) + i] = t[i]
    BY <1>1, <2>1
  <2> QED
    BY <1>2, <2>1, <2>2 DEF Range
<1>6. Range(s) \subseteq Range(u) /\ Range(t) \subseteq Range(u)
  BY <1>2, <1>4, <1>5 DEF Range
<1> QED
  BY <1>1, <1>3, <1>6 DEF u

\* New commits of others push what a cursor counts down, past what was read.
LEMMA LogKeeps ==
  ASSUME LogOK, CallOK, [Next]_vars, LogOK', WalkType, LogWalk, LogEnd, call' = call, rules' = rules
  PROVE  LogWalk' /\ LogEnd'
<1> SUFFICES ASSUME call.pc \in {"log", "logged"}, call.steady PROVE LogWalk' /\ LogEnd'
  BY DEF LogWalk, LogEnd
<1>0. PICK r \in Repo : r = call.repo
  BY DEF WalkType
<1>1. PICK b \in Nat : b = call.begun[r] /\ b <= Len(log[r]) /\ call.cursor \in Nat
  BY DEF WalkType
<1>2. /\ Len(log[r]) \in Nat /\ Len(log'[r]) \in Nat /\ Len(log[r]) <= Len(log'[r])
  BY <1>1, LogGrows
<1>3. /\ Seen(r) \subseteq Seen(r)'
      /\ \A i \in Seen(r)' : i <= Len(log[r]) => i \in Seen(r)
      /\ \A i \in Seen(r) : Cardinality(Newer(r, i)) <= Cardinality(Newer(r, i)')
      /\ Len(log'[r]) = Len(log[r]) => Seen(r)' = Seen(r)
  BY SeenGrows
<1>4. /\ \A i \in Seen(r) : i \in Nat /\ Cardinality(Newer(r, i)) \in Nat
      /\ \A i \in Seen(r)' : i \in Nat /\ Cardinality(Newer(r, i)') \in Nat
  <2>1. ASSUME NEW i \in Seen(r) PROVE i \in Nat /\ Cardinality(Newer(r, i)) \in Nat
    <3>1. i \in Nat /\ Newer(r, i) \subseteq Seen(r) /\ IsFiniteSet(Seen(r))
      BY <1>1, SeenForm DEF Newer
    <3> QED
      BY <3>1, FS_Subset, FS_CardinalityType
  <2>2. ASSUME NEW i \in Seen(r)' PROVE i \in Nat /\ Cardinality(Newer(r, i)') \in Nat
    <3>1. IsFiniteSet(1..Len(log'[r]))
      BY <1>2, FS_Interval
    <3>2. i \in Nat /\ Newer(r, i)' \subseteq 1..Len(log'[r])
      BY <1>2 DEF Newer, Seen
    <3> QED
      BY <3>1, <3>2, FS_Subset, FS_CardinalityType
  <2> QED
    BY <2>1, <2>2
<1>5. \A i \in Seen(r)' : i <= b => i \in Seen(r)
  BY <1>1, <1>2, <1>3, <1>4
<1>6. b = Len(log'[r]) => b = Len(log[r]) /\ Seen(r)' = Seen(r)
  BY <1>1, <1>2, <1>3
<1>7. CASE call.pc = "log"
  <2>1. /\ \A i \in Seen(r) : i <= b /\ Cardinality(Newer(r, i)) < call.cursor => i \in Range(call.got)
        /\ b = Len(log[r]) =>
             call.cursor <= Cardinality(Seen(r)) /\ call.got = Slice(NewestFirst(Seen(r)), 0, call.cursor)
    BY <1>0, <1>1, <1>7 DEF LogWalk
  <2>2. \A i \in Seen(r)' : i <= b /\ Cardinality(Newer(r, i)') < call.cursor => i \in Range(call.got)
    <3> SUFFICES ASSUME NEW i \in Seen(r)', i <= b, Cardinality(Newer(r, i)') < call.cursor
                 PROVE  i \in Range(call.got)
      OBVIOUS
    <3>1. i \in Seen(r)
      BY <1>5
    <3>2. Cardinality(Newer(r, i)) < call.cursor
      BY <1>1, <1>3, <1>4, <3>1
    <3> QED
      BY <2>1, <3>1, <3>2
  <2>3. b = Len(log'[r]) =>
             call.cursor <= Cardinality(Seen(r)') /\ call.got = Slice(NewestFirst(Seen(r)'), 0, call.cursor)
    BY <1>6, <2>1
  <2>4. LogWalk'
    BY <1>0, <1>1, <2>2, <2>3 DEF LogWalk
  <2> QED
    BY <1>7, <2>4 DEF LogEnd
<1>8. CASE call.pc = "logged"
  <2>1. /\ \A i \in Seen(r) : i <= b => i \in Range(call.got)
        /\ b = Len(log[r]) => call.got = NewestFirst(Seen(r))
    BY <1>0, <1>1, <1>8 DEF LogEnd
  <2>2. \A i \in Seen(r)' : i <= b => i \in Range(call.got)
    BY <1>5, <2>1
  <2>3. b = Len(log'[r]) => call.got = NewestFirst(Seen(r)')
    BY <1>6, <2>1
  <2>4. LogEnd'
    BY <1>0, <1>1, <2>2, <2>3 DEF LogEnd
  <2> QED
    BY <1>8, <2>4 DEF LogWalk
<1> QED
  BY <1>7, <1>8

\* A page of a log: what it adds, and how far everything shown has come.
LEMMA LogPageAdds ==
  ASSUME LogOK, NEW r \in Repo, NEW cursor \in Nat
  PROVE  LET page == LogPage(rules[r], log[r], <<>>, cursor, PageSize)
             shown == NewestFirst(Seen(r))
         IN /\ page.commits \in Seq(Nat) /\ page.next \in Nat
            /\ page.next \in {0, cursor + PageSize}
            /\ page.next # 0 => cursor + PageSize <= Cardinality(Seen(r))
            /\ page.next = 0 => Cardinality(Seen(r)) <= cursor + PageSize
            /\ \A i \in Seen(r) : /\ Cardinality(Newer(r, i)) \in Nat
                                  /\ Cardinality(Newer(r, i)) < Cardinality(Seen(r))
                                  /\ cursor <= Cardinality(Newer(r, i)) /\ Cardinality(Newer(r, i)) < cursor + PageSize
                                       => i \in Range(page.commits)
            /\ cursor <= Cardinality(Seen(r)) =>
                 Slice(shown, 0, cursor) \o page.commits = Slice(shown, 0, cursor + PageSize)
            /\ Cardinality(Seen(r)) <= cursor + PageSize => Slice(shown, 0, cursor + PageSize) = shown
<1> DEFINE page == LogPage(rules[r], log[r], <<>>, cursor, PageSize)
           shown == NewestFirst(Seen(r))
           before == [i \in Seen(r) |-> Newer(r, i)]
           n == Cardinality(Seen(r))
<1>1. /\ Seen(r) \in SUBSET Nat /\ IsFiniteSet(Seen(r)) /\ n \in Nat
      /\ Ordering(before) /\ DOMAIN before = Seen(r)
      /\ shown = InOrder(before)
      /\ ShownCommits(rules[r], log[r], <<>>) = shown
  BY SeenForm
<1>2. PageSize \in Nat /\ PageSize > 0 /\ cursor + PageSize \in Nat /\ cursor + PageSize # 0
  BY ReadsAssumption
<1>3. \A i \in Seen(r) : before[i] = Newer(r, i)
  OBVIOUS
<1> HIDE DEF before, shown
<1>4. shown \in Seq(Seen(r)) /\ Len(shown) = n
  BY <1>1, InOrderPlaces
<1>5. /\ page.commits = Slice(shown, cursor, PageSize)
      /\ page.next = IF cursor + PageSize < n THEN cursor + PageSize ELSE 0
  BY <1>1, <1>4 DEF LogPage
<1> HIDE DEF page, n
<1>6. page.commits \in Seq(Nat)
  <2>1. page.commits \in Seq(Seen(r))
    BY <1>2, <1>4, <1>5, SliceLength
  <2> QED
    BY <1>1, <2>1
<1>7. /\ page.next \in Nat /\ page.next \in {0, cursor + PageSize}
      /\ page.next # 0 => cursor + PageSize <= n
      /\ page.next = 0 => n <= cursor + PageSize
  BY <1>1, <1>2, <1>5
<1>8. ASSUME NEW i \in Seen(r)
      PROVE  /\ Cardinality(Newer(r, i)) \in Nat /\ Cardinality(Newer(r, i)) < n
             /\ cursor <= Cardinality(Newer(r, i)) /\ Cardinality(Newer(r, i)) < cursor + PageSize
                  => i \in Range(page.commits)
  <2>1. Cardinality(before[i]) \in Nat /\ Cardinality(before[i]) < n
    BY <1>1, PlacesDiffer DEF n
  <2>2. cursor <= Cardinality(before[i]) /\ Cardinality(before[i]) < cursor + PageSize
          => i \in Range(Slice(InOrder(before), cursor, PageSize))
    BY <1>1, <1>2, PageHolds
  <2> QED
    BY <1>1, <1>3, <1>5, <2>1, <2>2
<1>9. cursor <= n => Slice(shown, 0, cursor) \o Slice(shown, cursor, PageSize) = Slice(shown, 0, cursor + PageSize)
  <2>1. cursor <= n => cursor \in 0..Len(shown)
    BY <1>1, <1>4
  <2> QED
    BY <1>2, <1>4, <2>1, SlicesJoin
<1>10. n <= cursor + PageSize => Slice(shown, 0, cursor + PageSize) = shown
  BY <1>2, <1>4, WholeSlice
<1> QED
  BY <1>5, <1>6, <1>7, <1>8, <1>9, <1>10 DEF page, shown, n

\* Reading a page of a log keeps what is known of the walk.
LEMMA ReadsLogStep ==
  ASSUME LogOK, WalkType, LogWalk, ReadsLog
  PROVE  WalkType' /\ LogWalk' /\ LogEnd'
<1>q. log' = log /\ rules' = rules /\ call.pc = "log"
  BY DEF ReadsLog, Quiet
<1>1. CASE call.repo \notin Reachable
  <2>1. call' = NoCall
    BY <1>1 DEF ReadsLog
  <2>2. call'.pc = "idle"
    BY <2>1 DEF NoCall
  <2> QED
    BY <2>2 DEF WalkType, LogWalk, LogEnd
<1>2. CASE call.repo \in Reachable
  <2>0. call \in [pc : {"log", "logged"}, repo : Repo, cursor : Nat, got : Seq(Nat),
                 steady : BOOLEAN, begun : [Repo -> Nat]]
    BY <1>q DEF WalkType
  <2>1. PICK r \in Repo : r = call.repo
    BY <2>0
  <2>2. PICK b \in Nat, cursor \in Nat : b = call.begun[r] /\ cursor = call.cursor
    BY <2>0
  <2> DEFINE page == LogPage(rules[r], log[r], <<>>, cursor, PageSize)
             shown == NewestFirst(Seen(r))
             got == call.got \o page.commits
             n == Cardinality(Seen(r))
  <2>3. call' = [call EXCEPT !.got = got, !.cursor = page.next,
                             !.pc = IF page.next = 0 THEN "logged" ELSE "log"]
    BY <1>2, <2>1, <2>2 DEF ReadsLog
  <2>4. /\ page.commits \in Seq(Nat) /\ page.next \in Nat
        /\ page.next \in {0, cursor + PageSize}
        /\ page.next # 0 => cursor + PageSize <= n
        /\ page.next = 0 => n <= cursor + PageSize
    BY LogPageAdds
  <2>5. \A i \in Seen(r) : /\ Cardinality(Newer(r, i)) \in Nat /\ Cardinality(Newer(r, i)) < n
                           /\ cursor <= Cardinality(Newer(r, i)) /\ Cardinality(Newer(r, i)) < cursor + PageSize
                                => i \in Range(page.commits)
    BY LogPageAdds
  <2>6. /\ cursor <= n => Slice(shown, 0, cursor) \o page.commits = Slice(shown, 0, cursor + PageSize)
        /\ n <= cursor + PageSize => Slice(shown, 0, cursor + PageSize) = shown
    BY LogPageAdds
  <2>7. n \in Nat /\ PageSize \in Nat /\ \A i \in Seen(r) : i \in Nat
    BY SeenForm, ReadsAssumption
  <2> HIDE DEF page
  <2>8. got \in Seq(Nat) /\ Range(got) = Range(call.got) \cup Range(page.commits)
    BY <2>0, <2>4, RangeJoin
  <2> HIDE DEF got
  <2>9. /\ call' \in [pc : {"log", "logged"}, repo : Repo, cursor : Nat, got : Seq(Nat),
                      steady : BOOLEAN, begun : [Repo -> Nat]]
        /\ call'.repo = r /\ call'.begun = call.begun /\ call'.steady = call.steady
        /\ call'.got = got /\ call'.cursor = page.next
        /\ call'.pc = IF page.next = 0 THEN "logged" ELSE "log"
    BY <2>0, <2>1, <2>3, <2>4, <2>8
  <2>10. WalkType'
    BY <1>q, <2>9 DEF WalkType
  <2>11. Seen(r)' = Seen(r) /\ \A i : Newer(r, i)' = Newer(r, i)
    BY <1>q DEF Seen, Newer
  <2>12. CASE ~call.steady
    <3>1. ~call'.steady
      BY <2>9, <2>12
    <3> QED
      BY <2>10, <3>1 DEF LogWalk, LogEnd
  <2>13. CASE call.steady
    <3>1. /\ \A i \in Seen(r) : i <= b /\ Cardinality(Newer(r, i)) < cursor => i \in Range(call.got)
          /\ b = Len(log[r]) => cursor <= n /\ call.got = Slice(shown, 0, cursor)
      BY <1>q, <2>1, <2>2, <2>13 DEF LogWalk
    <3> HIDE DEF n
    <3>2. ASSUME NEW i \in Seen(r), i <= b, Cardinality(Newer(r, i)) < cursor + PageSize
          PROVE  i \in Range(got)
      <4>1. CASE Cardinality(Newer(r, i)) < cursor
        BY <2>8, <3>1, <3>2, <4>1
      <4>2. CASE ~(Cardinality(Newer(r, i)) < cursor)
        <5>1. cursor <= Cardinality(Newer(r, i))
          BY <2>5, <4>2
        <5> QED
          BY <2>5, <2>8, <3>2, <5>1
      <4> QED
        BY <4>1, <4>2
    <3>3. b = Len(log[r]) => got = Slice(shown, 0, cursor + PageSize)
      BY <2>6, <3>1 DEF got
    <3>4. CASE page.next = 0
      <4>1. \A i \in Seen(r) : i <= b => i \in Range(got)
        <5> SUFFICES ASSUME NEW i \in Seen(r), i <= b PROVE i \in Range(got)
          OBVIOUS
        <5>1. Cardinality(Newer(r, i)) < cursor + PageSize
          BY <2>4, <2>5, <2>7, <3>4
        <5> QED
          BY <3>2, <5>1
      <4>2. b = Len(log[r]) => got = shown
        BY <2>4, <2>6, <3>3, <3>4
      <4>3. LogEnd'
        BY <1>q, <2>2, <2>9, <2>11, <4>1, <4>2 DEF LogEnd
      <4> QED
        BY <2>9, <2>10, <3>4, <4>3 DEF LogWalk
    <3>5. CASE page.next # 0
      <4>1. page.next = cursor + PageSize /\ cursor + PageSize <= n
        BY <2>4, <3>5
      <4>2. LogWalk'
        BY <1>q, <2>2, <2>9, <2>11, <3>2, <3>3, <4>1 DEF LogWalk, n
      <4> QED
        BY <2>9, <2>10, <3>5, <4>2 DEF LogEnd
    <3> QED
      BY <3>4, <3>5
  <2> QED
    BY <2>10, <2>12, <2>13
<1> QED
  BY <1>1, <1>2

\* A listing of all in a repository holds what can be read in its last commit.
LEMMA ReadableTip ==
  ASSUME LogOK, RulesOK, NEW r \in Repo
  PROVE  LET now == List(rules[r], Tip(log[r]), <<>>, TRUE)
         IN now = DOMAIN Strip(rules[r], Tip(log[r])) /\ now \subseteq File /\ IsFiniteSet(now)
<1>1. IsRevision(Tip(log[r]))
  <2>1. log[r] \in Seq(Revision) /\ Len(log[r]) \in 0..Len(log[r])
    BY DEF LogOK
  <2> QED
    BY <2>1, TreeAtType DEF Tip
<1>2. List(rules[r], Tip(log[r]), <<>>, TRUE) = DOMAIN Strip(rules[r], Tip(log[r]))
  BY <1>1, ListIsStripped DEF RulesOK
<1>3. DOMAIN Strip(rules[r], Tip(log[r])) \subseteq DOMAIN Tip(log[r])
  BY DEF Strip, Restrict
<1>4. DOMAIN Tip(log[r]) \subseteq File /\ IsFiniteSet(DOMAIN Tip(log[r]))
  BY <1>1 DEF IsRevision
<1> QED
  BY <1>2, <1>3, <1>4, FS_Subset

\* The listing of the workspace is a finite set of paths.
LEMMA RootListingForm ==
  ASSUME LogOK, RulesOK
  PROVE  /\ RootListing \in SUBSET Path /\ <<>> \notin RootListing /\ IsFiniteSet(RootListing)
         /\ \A r \in Reachable : \A p \in DOMAIN Strip(rules[r], Tip(log[r])) : <<r>> \o p \in RootListing
<1> DEFINE now(r) == List(rules[r], Tip(log[r]), <<>>, TRUE)
           part(r) == {<<r>> \o p : p \in now(r)}
           each == {part(r) : r \in Reachable}
<1>1. Reachable \subseteq Repo /\ IsFiniteSet(Reachable)
  BY ReadsAssumption, FS_Subset DEF Reachable
<1>2. \A r \in Reachable : /\ now(r) = DOMAIN Strip(rules[r], Tip(log[r]))
                           /\ now(r) \subseteq File /\ IsFiniteSet(now(r))
  BY <1>1, ReadableTip
<1> HIDE DEF now
<1>3. ASSUME NEW r \in Reachable
      PROVE  part(r) \subseteq Path /\ <<>> \notin part(r) /\ IsFiniteSet(part(r))
  <2>1. ASSUME NEW p \in now(r) PROVE <<r>> \o p \in Path /\ <<r>> \o p # <<>>
    <3>1. /\ <<r>> \o p \in Path /\ Len(<<r>> \o p) = 1 + Len(p)
      BY <1>1, <1>2, HitPaths
    <3>2. p \in Path
      BY <1>2, ReadsAssumption
    <3>3. Len(p) \in Nat
      BY <3>2, PathForm
    <3>4. Len(<<>>) = 0
      OBVIOUS
    <3> DEFINE x == <<r>> \o p
    <3> HIDE DEF x
    <3>5. x # <<>>
      BY <3>1, <3>3, <3>4 DEF x
    <3> QED
      BY <3>1, <3>5 DEF x
  <2>2. [p \in now(r) |-> <<r>> \o p] \in Surjection(now(r), part(r))
    BY DEF Surjection
  <2>3. IsFiniteSet(part(r))
    <3> HIDE DEF part
    <3> QED
      BY <1>2, <2>2, FS_Surjection
  <2> QED
    BY <2>1, <2>3
<1> HIDE DEF part
<1>4. IsFiniteSet(each)
  <2>1. [r \in Reachable |-> part(r)] \in Surjection(Reachable, each)
    BY DEF Surjection
  <2> HIDE DEF each
  <2> QED
    BY <1>1, <2>1, FS_Surjection
<1>5. \A T \in each : IsFiniteSet(T) /\ T \subseteq Path /\ <<>> \notin T
  BY <1>3
<1>6. IsFiniteSet(UNION each)
  <2> HIDE DEF each
  <2> QED
    BY <1>4, <1>5, FS_UNION
<1>7. RootListing = UNION each
  BY DEF RootListing, part, now
<1>8. \A r \in Reachable : \A p \in DOMAIN Strip(rules[r], Tip(log[r])) : <<r>> \o p \in UNION each
  BY <1>2 DEF part
<1> HIDE DEF each
<1> QED
  BY <1>5, <1>6, <1>7, <1>8

\* A finite set of paths, sorted: each member once, and in increasing order.
LEMMA SortedForm ==
  ASSUME NEW S \in SUBSET Path, IsFiniteSet(S)
  PROVE  /\ Sorted(S) \in Seq(S) /\ Len(Sorted(S)) \in Nat /\ Range(Sorted(S)) = S
         /\ \A i, j \in 1..Len(Sorted(S)) : i < j => Less(Sorted(S)[i], Sorted(S)[j])
<1> DEFINE before == [p \in S |-> {q \in S : Less(q, p)}]
           s == Sorted(S)
<1>1. Ordering(before) /\ DOMAIN before = S
  BY PathsOrdered
<1>2. s = InOrder(before)
  BY DEF Sorted
<1>3. \A p \in S : before[p] = {q \in S : Less(q, p)}
  OBVIOUS
<1> HIDE DEF before, s
<1>4. s \in Seq(S) /\ Len(s) \in Nat /\ Range(s) = S
  BY <1>1, <1>2, InOrderOnce
<1>5. \A k \in 1..Len(s) : s[k] \in S /\ Cardinality(before[s[k]]) = k - 1
  BY <1>1, <1>2, InOrderPlaces
<1>6. ASSUME NEW i \in 1..Len(s), NEW j \in 1..Len(s), i < j
      PROVE  Less(s[i], s[j])
  <2>1. Cardinality(before[s[i]]) < Cardinality(before[s[j]])
    BY <1>4, <1>5, <1>6
  <2>2. s[i] \in before[s[j]]
    BY <1>1, <1>5, <2>1, PlacesDiffer
  <2> QED
    BY <1>3, <1>5, <2>2
<1> QED
  BY <1>4, <1>6 DEF s

\* A page of the listing: sorted, past the cursor, and nothing between is left out.
LEMMA ListPageAdds ==
  ASSUME LogOK, RulesOK, NEW cursor \in Path
  PROVE  LET page == ListPage(cursor, PageSize)
             entries == page.entries
         IN /\ entries \in Seq(Path) /\ page.next \in Path
            /\ \A i, j \in DOMAIN entries : i < j => Less(entries[i], entries[j])
            /\ \A i \in DOMAIN entries : cursor = NoPath \/ Less(cursor, entries[i])
            /\ page.next # NoPath => /\ \A i \in DOMAIN entries : ~Less(page.next, entries[i])
                                     /\ page.next \in Range(entries)
            /\ \A x \in RootListing : cursor = NoPath \/ Less(cursor, x) =>
                 x \in Range(entries) \/ (page.next # NoPath /\ Less(page.next, x))
<1> DEFINE page == ListPage(cursor, PageSize)
           entries == page.entries
           left == {p \in RootListing : cursor = NoPath \/ Less(cursor, p)}
           rest == Sorted(left)
           m == PageLen(Len(rest), 0, PageSize)
<1>0. PageSize \in Nat /\ PageSize >= 1
  BY ReadsAssumption
<1>1. left \in SUBSET Path /\ IsFiniteSet(left) /\ <<>> \notin left
  BY RootListingForm, FS_Subset
<1>2. page = [entries |-> Slice(rest, 0, PageSize), next |-> IF PageSize < Len(rest) THEN rest[PageSize] ELSE NoPath]
  BY DEF ListPage
<1>3. /\ rest \in Seq(left) /\ Len(rest) \in Nat /\ Range(rest) = left
      /\ \A i, j \in 1..Len(rest) : i < j => Less(rest[i], rest[j])
  <2> HIDE DEF left
  <2> QED
    BY <1>1, SortedForm
<1>4. entries = Slice(rest, 0, PageSize) /\ page.next = IF PageSize < Len(rest) THEN rest[PageSize] ELSE NoPath
  BY <1>2
<1>l. \A x \in left : x \in Path /\ x # NoPath /\ (cursor = NoPath \/ Less(cursor, x))
  BY <1>1 DEF NoPath
<1> HIDE DEF rest, page, m
<1>5. Slice(rest, 0, PageSize) \in Seq(left) /\ Len(Slice(rest, 0, PageSize)) = m /\ m \in 0..PageSize
  <2> HIDE DEF left
  <2>1. Slice(rest, 0, PageSize) \in Seq(left) /\ Len(Slice(rest, 0, PageSize)) = PageLen(Len(rest), 0, PageSize)
    BY <1>0, <1>3, SliceLength
  <2>2. PageLen(Len(rest), 0, PageSize) \in 0..PageSize
    BY <1>0, <1>3, PageLenBound
  <2> QED
    BY <2>1, <2>2 DEF m
<1>6. \A k \in 1..m : 0 + k \in 1..Len(rest) /\ Slice(rest, 0, PageSize)[k] = rest[0 + k]
  <2> HIDE DEF left
  <2>1. \A k \in 1..PageLen(Len(rest), 0, PageSize) :
          0 + k \in 1..Len(rest) /\ Slice(rest, 0, PageSize)[k] = rest[0 + k]
    BY <1>0, <1>3, SliceMember
  <2> QED
    BY <2>1 DEF m
<1>7. m = IF PageSize < Len(rest) THEN PageSize ELSE Len(rest)
  BY <1>0, <1>3 DEF m, PageLen
<1>8. entries \in Seq(left) /\ DOMAIN entries = 1..m /\ m \in Nat
  BY <1>0, <1>4, <1>5
<1> HIDE DEF left, entries
<1>9. \A k \in 1..m : k \in 1..Len(rest) /\ entries[k] = rest[k] /\ rest[k] \in left
  <2>1. \A k \in 1..m : 0 + k = k
    BY <1>8
  <2> QED
    BY <1>3, <1>4, <1>6, <2>1
<1>10. entries \in Seq(Path)
  <2>1. left \subseteq Path
    BY <1>l
  <2> QED
    BY <1>8, <2>1
<1>11. \A i, j \in DOMAIN entries : i < j => Less(entries[i], entries[j])
  BY <1>3, <1>8, <1>9
<1>12. \A i \in DOMAIN entries : cursor = NoPath \/ Less(cursor, entries[i])
  BY <1>8, <1>9, <1>l
<1>13. CASE PageSize < Len(rest)
  <2>1. m = PageSize /\ PageSize \in 1..m /\ page.next = rest[PageSize]
    BY <1>0, <1>3, <1>4, <1>7, <1>13
  <2>2. page.next = entries[PageSize] /\ page.next \in left /\ page.next \in Range(entries)
    BY <1>8, <1>9, <2>1 DEF Range
  <2>3. ASSUME NEW i \in DOMAIN entries, Less(page.next, entries[i]) PROVE FALSE
    <3>1. i \in 1..m /\ entries[i] \in Path /\ page.next \in Path
      BY <1>8, <1>9, <1>l, <2>2
    <3>2. i < PageSize \/ i = PageSize
      BY <1>0, <2>1, <3>1
    <3>3. entries[i] = page.next \/ Less(entries[i], page.next)
      BY <1>8, <1>11, <2>1, <2>2, <3>1, <3>2
    <3> QED
      BY <2>3, <3>1, <3>3, LessTransitive, LessIrreflexive
  <2>4. ASSUME NEW x \in left PROVE x \in Range(entries) \/ Less(page.next, x)
    <3>1. PICK k \in 1..Len(rest) : x = rest[k]
      BY <1>3 DEF Range
    <3>2. CASE k <= PageSize
      <4>1. k \in 1..m
        BY <1>3, <2>1, <3>2
      <4> QED
        BY <1>8, <1>9, <3>1, <4>1 DEF Range
    <3>3. CASE ~(k <= PageSize)
      <4>1. PageSize \in 1..Len(rest) /\ PageSize < k
        BY <1>0, <1>3, <1>13, <3>3
      <4> QED
        BY <1>3, <2>1, <3>1, <4>1
    <3> QED
      BY <3>2, <3>3
  <2>5. page.next \in Path /\ page.next # NoPath
    BY <1>l, <2>2
  <2>6. \A x \in RootListing : cursor = NoPath \/ Less(cursor, x) => x \in left
    BY DEF left
  <2> HIDE DEF page
  <2> QED
    BY <1>10, <1>11, <1>12, <2>2, <2>3, <2>4, <2>5, <2>6 DEF entries, page
<1>14. CASE ~(PageSize < Len(rest))
  <2>1. m = Len(rest) /\ page.next = NoPath
    BY <1>4, <1>7, <1>14
  <2>2. ASSUME NEW x \in left PROVE x \in Range(entries)
    <3>1. PICK k \in 1..Len(rest) : x = rest[k]
      BY <1>3 DEF Range
    <3> QED
      BY <1>8, <1>9, <2>1, <3>1 DEF Range
  <2>3. NoPath \in Path
    BY DEF NoPath, Path
  <2>4. \A x \in RootListing : cursor = NoPath \/ Less(cursor, x) => x \in left
    BY DEF left
  <2> QED
    BY <1>10, <1>11, <1>12, <2>1, <2>2, <2>3, <2>4 DEF entries, page
<1> QED
  BY <1>13, <1>14

\* While the client does nothing its call stays well-formed.
LEMMA TypeKeeps ==
  ASSUME LogOK, CallOK, [Next]_vars, WalkType, call' = call
  PROVE  WalkType'
<1>1. ASSUME call.pc \in {"log", "logged", "list", "listed"}, NEW r \in Repo
      PROVE  call.begun[r] <= Len(log'[r])
  <2>1. Len(log[r]) \in Nat /\ Len(log'[r]) \in Nat /\ Len(log[r]) <= Len(log'[r])
    BY LogGrows
  <2>2. call.begun[r] \in Nat /\ call.begun[r] <= Len(log[r])
    BY <1>1 DEF WalkType
  <2> QED
    BY <2>1, <2>2
<1> QED
  BY <1>1 DEF WalkType

\* What stays while others commit has stayed until now.
LEMMA ListKeeps ==
  ASSUME LogOK, CallOK, [Next]_vars, WalkType, ListWalk, ListEnd,
         call' = call, rules' = rules, active' = active
  PROVE  ListWalk' /\ ListEnd'
<1> SUFFICES ASSUME call.pc \in {"list", "listed"}, call.steady PROVE ListWalk' /\ ListEnd'
  BY DEF ListWalk, ListEnd
<1>1. Reachable' = Reachable /\ Reachable \subseteq Repo
  BY DEF Reachable
<1>2. ASSUME NEW r \in Reachable, NEW p \in File, Stays(r, p)' PROVE Stays(r, p)
  <2>0. r \in Repo
    BY <1>1
  <2>1. /\ Len(log[r]) \in Nat /\ Len(log'[r]) \in Nat /\ Len(log[r]) <= Len(log'[r])
        /\ \A i \in 0..Len(log[r]) : TreeAt(log'[r], i) = TreeAt(log[r], i)
    BY <2>0, LogGrows
  <2>2. call.begun[r] \in Nat
    BY <2>0 DEF WalkType
  <2>3. \A i \in call.begun[r]..Len(log'[r]) : p \in DOMAIN Strip(rules[r], TreeAt(log'[r], i))
    BY <1>2 DEF Stays
  <2>4. ASSUME NEW i \in call.begun[r]..Len(log[r])
        PROVE  p \in DOMAIN Strip(rules[r], TreeAt(log[r], i))
    <3>1. i \in call.begun[r]..Len(log'[r]) /\ i \in 0..Len(log[r])
      BY <2>1, <2>2
    <3>2. TreeAt(log'[r], i) = TreeAt(log[r], i)
      BY <2>1, <3>1
    <3> QED
      BY <2>3, <3>1, <3>2
  <2> QED
    BY <2>4 DEF Stays
<1>3. Grows' <=> Grows
  BY DEF Grows
<1>4. CASE call.pc = "list"
  <2>1. /\ Grows /\ \A i \in DOMAIN call.got : call.cursor # NoPath /\ ~Less(call.cursor, call.got[i])
        /\ \A r \in Reachable, p \in File : Stays(r, p) =>
             <<r>> \o p \in Range(call.got) \/ call.cursor = NoPath \/ Less(call.cursor, <<r>> \o p)
    BY <1>4 DEF ListWalk
  <2>2. \A r \in Reachable', p \in File : Stays(r, p)' =>
             <<r>> \o p \in Range(call.got) \/ call.cursor = NoPath \/ Less(call.cursor, <<r>> \o p)
    BY <1>1, <1>2, <2>1
  <2>3. ListWalk'
    BY <1>3, <2>1, <2>2 DEF ListWalk
  <2> QED
    BY <1>4, <2>3 DEF ListEnd
<1>5. CASE call.pc = "listed"
  <2>1. Grows /\ \A r \in Reachable, p \in File : Stays(r, p) => <<r>> \o p \in Range(call.got)
    BY <1>5 DEF ListEnd
  <2>2. \A r \in Reachable', p \in File : Stays(r, p)' => <<r>> \o p \in Range(call.got)
    BY <1>1, <1>2, <2>1
  <2>3. ListEnd'
    BY <1>3, <2>1, <2>2 DEF ListEnd
  <2> QED
    BY <1>5, <2>3 DEF ListWalk
<1> QED
  BY <1>4, <1>5

\* Two increasing sequences, the second past the first, make one.
LEMMA GrowsJoin ==
  ASSUME NEW s \in Seq(Path), NEW t \in Seq(Path),
         \A i, j \in DOMAIN s : i < j => Less(s[i], s[j]),
         \A i, j \in DOMAIN t : i < j => Less(t[i], t[j]),
         \A i \in DOMAIN s, j \in DOMAIN t : Less(s[i], t[j])
  PROVE  \A i, j \in DOMAIN (s \o t) : i < j => Less((s \o t)[i], (s \o t)[j])
<1> DEFINE u == s \o t
<1>1. /\ u \in Seq(Path) /\ Len(u) = Len(s) + Len(t) /\ Len(s) \in Nat /\ Len(t) \in Nat
      /\ \A i \in 1..Len(s) + Len(t) : u[i] = IF i <= Len(s) THEN s[i] ELSE t[i - Len(s)]
  BY ConcatProperties
<1> HIDE DEF u
<1>2. DOMAIN u = 1..Len(s) + Len(t) /\ DOMAIN s = 1..Len(s) /\ DOMAIN t = 1..Len(t)
  BY <1>1
<1>3. ASSUME NEW i \in DOMAIN u, NEW j \in DOMAIN u, i < j PROVE Less(u[i], u[j])
  <2>1. CASE j <= Len(s)
    <3>1. i \in DOMAIN s /\ j \in DOMAIN s /\ u[i] = s[i] /\ u[j] = s[j]
      BY <1>1, <1>2, <1>3, <2>1
    <3> QED
      BY <1>3, <3>1
  <2>2. CASE i <= Len(s) /\ ~(j <= Len(s))
    <3>1. i \in DOMAIN s /\ j - Len(s) \in DOMAIN t /\ u[i] = s[i] /\ u[j] = t[j - Len(s)]
      BY <1>1, <1>2, <1>3, <2>2
    <3> QED
      BY <3>1
  <2>3. CASE ~(i <= Len(s))
    <3>1. /\ i - Len(s) \in DOMAIN t /\ j - Len(s) \in DOMAIN t /\ i - Len(s) < j - Len(s)
          /\ u[i] = t[i - Len(s)] /\ u[j] = t[j - Len(s)]
      BY <1>1, <1>2, <1>3, <2>3
    <3> QED
      BY <3>1
  <2>4. (j <= Len(s)) \/ (i <= Len(s) /\ ~(j <= Len(s))) \/ ~(i <= Len(s))
    OBVIOUS
  <2> QED
    BY <2>1, <2>2, <2>3, <2>4
<1> QED
  BY <1>3 DEF u

\* Reading a page of a listing keeps what is known of the walk.
LEMMA ListsPageStep ==
  ASSUME LogOK, RulesOK, WalkType, ListWalk, ListsPage
  PROVE  WalkType' /\ ListWalk' /\ ListEnd'
<1>q. log' = log /\ rules' = rules /\ active' = active /\ call.pc = "list"
  BY DEF ListsPage, Quiet
<1>0. call \in [pc : {"list", "listed"}, cursor : Path, got : Seq(Path),
                steady : BOOLEAN, begun : [Repo -> Nat]]
  BY <1>q DEF WalkType
<1>c. PICK cursor \in Path : cursor = call.cursor
  BY <1>0
<1> DEFINE page == ListPage(cursor, PageSize)
           entries == page.entries
           old == call.got
           got == old \o entries
<1>1. call' = [call EXCEPT !.got = got, !.cursor = page.next,
                           !.pc = IF page.next = NoPath THEN "listed" ELSE "list"]
  BY <1>c DEF ListsPage
<1>2. /\ entries \in Seq(Path) /\ page.next \in Path
      /\ \A i, j \in DOMAIN entries : i < j => Less(entries[i], entries[j])
      /\ \A i \in DOMAIN entries : cursor = NoPath \/ Less(cursor, entries[i])
  BY ListPageAdds
<1>3. page.next # NoPath => /\ \A i \in DOMAIN entries : ~Less(page.next, entries[i])
                            /\ page.next \in Range(entries)
  BY ListPageAdds
<1>4. \A x \in RootListing : cursor = NoPath \/ Less(cursor, x) =>
        x \in Range(entries) \/ (page.next # NoPath /\ Less(page.next, x))
  BY ListPageAdds
<1>5. old \in Seq(Path) /\ DOMAIN old = 1..Len(old) /\ \A i \in DOMAIN old : old[i] \in Path
  BY <1>0
<1>e. \A i \in DOMAIN entries : entries[i] \in Path
  BY <1>2
<1> HIDE DEF page, entries, old
<1>6. got \in Seq(Path) /\ Range(got) = Range(old) \cup Range(entries)
  BY <1>2, <1>5, RangeJoin
<1> HIDE DEF got
<1>7. /\ call' \in [pc : {"list", "listed"}, cursor : Path, got : Seq(Path),
                    steady : BOOLEAN, begun : [Repo -> Nat]]
      /\ call'.begun = call.begun /\ call'.steady = call.steady
      /\ call'.got = got /\ call'.cursor = page.next
      /\ call'.pc = IF page.next = NoPath THEN "listed" ELSE "list"
  BY <1>0, <1>1, <1>2, <1>6
<1>8. WalkType'
  BY <1>q, <1>7 DEF WalkType
<1>9. Reachable' = Reachable /\ Reachable \subseteq Repo
  BY <1>q DEF Reachable
<1>10. CASE ~call.steady
  <2>1. ~call'.steady
    BY <1>7, <1>10
  <2> QED
    BY <1>8, <2>1 DEF ListWalk, ListEnd
<1>11. CASE call.steady
  <2>1. /\ \A i, j \in DOMAIN old : i < j => Less(old[i], old[j])
        /\ \A i \in DOMAIN old : cursor # NoPath /\ ~Less(cursor, old[i])
    BY <1>q, <1>c, <1>11 DEF ListWalk, Grows, old
  <2>2. \A r \in Reachable, p \in File : Stays(r, p) =>
          <<r>> \o p \in Range(old) \/ cursor = NoPath \/ Less(cursor, <<r>> \o p)
    BY <1>q, <1>c, <1>11 DEF ListWalk, old
  <2>3. ASSUME NEW i \in DOMAIN old, NEW j \in DOMAIN entries PROVE Less(old[i], entries[j])
    <3>1. Less(cursor, entries[j]) /\ entries[j] \in Path /\ old[i] \in Path
      BY <1>2, <1>5, <1>e, <2>1
    <3>2. old[i] = cursor \/ Less(old[i], cursor)
      BY <2>1, <3>1, LessTotal
    <3> QED
      BY <3>1, <3>2, LessTransitive
  <2>4. \A i, j \in DOMAIN got : i < j => Less(got[i], got[j])
    BY <1>2, <1>5, <2>1, <2>3, GrowsJoin DEF got
  <2>5. Grows'
    BY <1>7, <2>4 DEF Grows
  <2>6. \A r \in Repo, p \in File : Stays(r, p)' <=> Stays(r, p)
    BY <1>q, <1>7 DEF Stays
  <2>7. ASSUME NEW r \in Reachable, NEW p \in File, Stays(r, p)
        PROVE  <<r>> \o p \in Range(got) \/ (page.next # NoPath /\ Less(page.next, <<r>> \o p))
    <3>1. r \in Repo /\ Len(log[r]) \in Nat /\ call.begun[r] \in Nat /\ call.begun[r] <= Len(log[r])
      BY <1>q, <1>9, <1>0 DEF WalkType, LogOK
    <3>2. Len(log[r]) \in call.begun[r]..Len(log[r])
      BY <3>1
    <3>3. p \in DOMAIN Strip(rules[r], Tip(log[r]))
      BY <2>7, <3>2 DEF Stays, Tip
    <3>4. <<r>> \o p \in RootListing
      BY <3>3, RootListingForm
    <3> QED
      BY <1>4, <1>6, <2>2, <2>7, <3>4
  <2>8. CASE page.next = NoPath
    <3>1. ListEnd'
      BY <1>7, <1>9, <2>5, <2>6, <2>7, <2>8 DEF ListEnd
    <3> QED
      BY <1>7, <1>8, <2>8, <3>1 DEF ListWalk
  <2>9. CASE page.next # NoPath
    <3>1. ASSUME NEW i \in DOMAIN got PROVE ~Less(page.next, got[i])
      <4>1. got[i] \in Range(old) \cup Range(entries)
        BY <1>6 DEF Range
      <4>2. ASSUME NEW k \in DOMAIN old, got[i] = old[k], Less(page.next, got[i]) PROVE FALSE
        <5>1. Less(old[k], page.next)
          BY <1>3, <2>3, <2>9 DEF Range
        <5>2. Less(page.next, page.next)
          BY <1>2, <1>5, <4>2, <5>1, LessTransitive
        <5> QED
          BY <1>2, <5>2, LessIrreflexive
      <4>3. ASSUME NEW k \in DOMAIN entries, got[i] = entries[k] PROVE ~Less(page.next, got[i])
        BY <1>3, <2>9, <4>3
      <4> QED
        BY <4>1, <4>2, <4>3 DEF Range
    <3>2. ListWalk'
      BY <1>7, <1>9, <2>5, <2>6, <2>7, <2>9, <3>1 DEF ListWalk
    <3> QED
      BY <1>7, <1>8, <2>9, <3>2 DEF ListEnd
  <2> QED
    BY <2>8, <2>9
<1> QED
  BY <1>0, <1>10, <1>11

\* A client that is not reading, or not under the rules it began with.
LEMMA NoWalk ==
  ASSUME WalkType',
         ~(call'.pc \in {"log", "logged", "list", "listed"}) \/ ~call'.steady
  PROVE  WalkInv'
BY DEF WalkInv, LogWalk, LogEnd, ListWalk, ListEnd

\* At first nobody walks.
LEMMA WalkInit == Init => WalkInv
<1> SUFFICES ASSUME Init PROVE WalkInv
  OBVIOUS
<1>1. call.pc = "idle"
  BY DEF Init, NoCall
<1> QED
  BY <1>1 DEF WalkInv, WalkType, LogWalk, LogEnd, ListWalk, ListEnd

\* A walk through a log begins with nothing read, ...
LEMMA BeginsLogStep ==
  ASSUME LogOK, NEW r \in Repo, BeginsLog(r)
  PROVE  WalkInv'
<1>1. /\ call' = [pc |-> "log", repo |-> r, cursor |-> 0, got |-> <<>>, steady |-> TRUE, begun |-> Begun]
      /\ log' = log /\ rules' = rules
  BY DEF BeginsLog, Quiet
<1>2. Begun \in [Repo -> Nat] /\ \A q \in Repo : Begun[q] = Len(log[q]) /\ Len(log[q]) \in Nat
  BY DEF Begun, LogOK
<1> DEFINE begun == Begun
<1> HIDE DEF begun
<1>3. /\ call'.pc = "log" /\ call'.repo = r /\ call'.cursor = 0 /\ call'.got = <<>>
      /\ call'.begun \in [Repo -> Nat] /\ \A q \in Repo : call'.begun[q] = Len(log[q])
      /\ call' \in [pc : {"log", "logged"}, repo : Repo, cursor : Nat, got : Seq(Nat),
                    steady : BOOLEAN, begun : [Repo -> Nat]]
  BY <1>1, <1>2
<1>4. WalkType'
  BY <1>1, <1>2, <1>3 DEF WalkType
<1>5. /\ Seen(r)' = Seen(r) /\ \A i : Newer(r, i)' = Newer(r, i)
  BY <1>1 DEF Seen, Newer
<1>6. /\ Cardinality(Seen(r)) \in Nat /\ NewestFirst(Seen(r)) \in Seq(Seen(r))
      /\ \A i \in Seen(r) : Cardinality(Newer(r, i)) \in Nat
  <2>1. /\ Cardinality(Seen(r)) \in Nat /\ NewestFirst(Seen(r)) \in Seq(Seen(r))
    BY SeenForm, InOrderOnce
  <2>2. ASSUME NEW i \in Seen(r) PROVE Cardinality(Newer(r, i)) \in Nat
    <3>1. Newer(r, i) \subseteq Seen(r) /\ IsFiniteSet(Seen(r))
      BY SeenForm DEF Newer
    <3> QED
      BY <3>1, FS_Subset, FS_CardinalityType
  <2> QED
    BY <2>1, <2>2
<1>7. Slice(NewestFirst(Seen(r)), 0, 0) = <<>>
  <2> DEFINE s == NewestFirst(Seen(r))
             page == Slice(s, 0, 0)
  <2>1. s \in Seq(Seen(r)) /\ Len(s) \in Nat
    BY <1>6
  <2> HIDE DEF s
  <2>2. page \in Seq(Seen(r)) /\ Len(page) = PageLen(Len(s), 0, 0)
    BY <2>1, SliceLength
  <2>3. PageLen(Len(s), 0, 0) = 0
    BY <2>1 DEF PageLen
  <2> HIDE DEF page
  <2>4. page = <<>>
    BY <2>2, <2>3
  <2> QED
    BY <2>4 DEF page, s
<1>8. LogWalk'
  <2>1. \A i \in Seen(r)' : ~(Cardinality(Newer(r, i)') < 0)
    BY <1>5, <1>6
  <2>2. 0 <= Cardinality(Seen(r)') /\ <<>> = Slice(NewestFirst(Seen(r)'), 0, 0)
    BY <1>5, <1>6, <1>7
  <2> QED
    BY <1>3, <2>1, <2>2 DEF LogWalk
<1> QED
  BY <1>3, <1>4, <1>8 DEF WalkInv, LogEnd, ListWalk, ListEnd

\* ... as does one through a listing.
LEMMA BeginsListStep ==
  ASSUME LogOK, BeginsList
  PROVE  WalkInv'
<1>1. /\ call' = [pc |-> "list", cursor |-> NoPath, got |-> <<>>, steady |-> TRUE, begun |-> Begun]
      /\ log' = log /\ rules' = rules
  BY DEF BeginsList, Quiet
<1>2. Begun \in [Repo -> Nat] /\ \A q \in Repo : Begun[q] = Len(log[q]) /\ Len(log[q]) \in Nat
  BY DEF Begun, LogOK
<1>p. NoPath \in Path
  BY DEF NoPath, Path
<1>3. /\ call'.pc = "list" /\ call'.cursor = NoPath /\ call'.got = <<>>
      /\ call'.begun \in [Repo -> Nat] /\ \A q \in Repo : call'.begun[q] = Len(log[q])
      /\ call' \in [pc : {"list", "listed"}, cursor : Path, got : Seq(Path),
                    steady : BOOLEAN, begun : [Repo -> Nat]]
  BY <1>1, <1>2, <1>p
<1>4. WalkType'
  BY <1>1, <1>2, <1>3 DEF WalkType
<1>5. ListWalk'
  <2>1. DOMAIN call'.got = {}
    BY <1>3
  <2> QED
    BY <1>3, <2>1 DEF ListWalk, Grows
<1> QED
  BY <1>3, <1>4, <1>5 DEF WalkInv, LogWalk, LogEnd, ListEnd

\* A change of the rules ends what is promised to a walk.
LEMMA RulesChangeStep ==
  ASSUME CallOK, WalkType, RulesChange
  PROVE  WalkInv'
<1>1. log' = log
  BY DEF RulesChange
<1>2. CASE call.pc \in {"asked", "admitted"}
  <2>1. call \in [pc : {"asked", "admitted"}, edit : Edits, since : SUBSET SUBSET Rule]
    BY <1>2 DEF CallOK
  <2>2. call'.pc = call.pc
    BY <1>2, <2>1 DEF RulesChange
  <2>3. WalkType'
    BY <1>2, <2>2 DEF WalkType
  <2> QED
    BY <1>2, <2>2, <2>3, NoWalk
<1>3. CASE call.pc = "idle"
  <2>1. call'.pc = "idle"
    BY <1>3 DEF RulesChange
  <2>2. WalkType'
    BY <2>1 DEF WalkType
  <2> QED
    BY <2>1, <2>2, NoWalk
<1>4. CASE call.pc \in {"log", "logged"}
  <2>1. call' = [call EXCEPT !.steady = FALSE]
    BY <1>4 DEF RulesChange
  <2>2. call \in [pc : {"log", "logged"}, repo : Repo, cursor : Nat, got : Seq(Nat),
                  steady : BOOLEAN, begun : [Repo -> Nat]]
    BY <1>4 DEF WalkType
  <2>3. /\ call' \in [pc : {"log", "logged"}, repo : Repo, cursor : Nat, got : Seq(Nat),
                      steady : BOOLEAN, begun : [Repo -> Nat]]
        /\ call'.steady = FALSE /\ call'.begun = call.begun /\ call'.pc \in {"log", "logged"}
    BY <2>1, <2>2
  <2>4. WalkType'
    BY <1>1, <1>4, <2>3 DEF WalkType
  <2> QED
    BY <2>3, <2>4, NoWalk
<1>5. CASE call.pc \in {"list", "listed"}
  <2>1. call' = [call EXCEPT !.steady = FALSE]
    BY <1>5 DEF RulesChange
  <2>2. call \in [pc : {"list", "listed"}, cursor : Path, got : Seq(Path),
                  steady : BOOLEAN, begun : [Repo -> Nat]]
    BY <1>5 DEF WalkType
  <2>3. /\ call' \in [pc : {"list", "listed"}, cursor : Path, got : Seq(Path),
                      steady : BOOLEAN, begun : [Repo -> Nat]]
        /\ call'.steady = FALSE /\ call'.begun = call.begun /\ call'.pc \in {"list", "listed"}
    BY <2>1, <2>2
  <2>4. WalkType'
    BY <1>1, <1>5, <2>3 DEF WalkType
  <2> QED
    BY <2>3, <2>4, NoWalk
<1> QED
  BY <1>2, <1>3, <1>4, <1>5 DEF CallOK

\* Every step keeps what is known of the walks.
LEMMA WalkStep == RulesOK /\ LogOK /\ CallOK /\ LogOK' /\ WalkInv /\ [Next]_vars => WalkInv'
<1> SUFFICES ASSUME RulesOK, LogOK, CallOK, LogOK', WalkInv, [Next]_vars PROVE WalkInv'
  OBVIOUS
<1>w. WalkType /\ LogWalk /\ LogEnd /\ ListWalk /\ ListEnd
  BY DEF WalkInv
<1>1. CASE UNCHANGED <<call, rules, active>>
  <2>1. WalkType'
    BY <1>1, <1>w, TypeKeeps
  <2>2. LogWalk' /\ LogEnd'
    BY <1>1, <1>w, LogKeeps
  <2>3. ListWalk' /\ ListEnd'
    BY <1>1, <1>w, ListKeeps
  <2> QED
    BY <2>1, <2>2, <2>3 DEF WalkInv
<1>2. CASE \E r \in Repo : BeginsLog(r)
  BY <1>2, BeginsLogStep
<1>3. CASE ReadsLog
  <2>1. WalkType' /\ LogWalk' /\ LogEnd'
    BY <1>3, <1>w, ReadsLogStep
  <2>2. call'.pc \in {"idle", "log", "logged"}
    <3>1. call \in [pc : {"log", "logged"}, repo : Repo, cursor : Nat, got : Seq(Nat),
                    steady : BOOLEAN, begun : [Repo -> Nat]]
      BY <1>3, <1>w DEF ReadsLog, WalkType
    <3> QED
      BY <1>3, <3>1 DEF ReadsLog, NoCall
  <2> QED
    BY <2>1, <2>2 DEF WalkInv, ListWalk, ListEnd
<1>4. CASE BeginsList
  BY <1>4, BeginsListStep
<1>5. CASE ListsPage
  <2>1. WalkType' /\ ListWalk' /\ ListEnd'
    BY <1>5, <1>w, ListsPageStep
  <2>2. call'.pc \in {"list", "listed"}
    <3>1. call \in [pc : {"list", "listed"}, cursor : Path, got : Seq(Path),
                    steady : BOOLEAN, begun : [Repo -> Nat]]
      BY <1>5, <1>w DEF ListsPage, WalkType
    <3> QED
      BY <1>5, <3>1 DEF ListsPage
  <2> QED
    BY <2>1, <2>2 DEF WalkInv, LogWalk, LogEnd
<1>6. CASE EndsWalk \/ Commits
  <2>1. call'.pc = "idle"
    BY <1>6 DEF EndsWalk, Commits, NoCall
  <2>2. WalkType'
    BY <2>1 DEF WalkType
  <2> QED
    BY <2>1, <2>2, NoWalk
<1>7. CASE \E e \in Edits : Asks(e)
  <2>1. call'.pc = "asked"
    BY <1>7 DEF Asks
  <2>2. WalkType'
    BY <2>1 DEF WalkType
  <2> QED
    BY <2>1, <2>2, NoWalk
<1>8. CASE Admits
  <2>1. call \in [pc : {"asked", "admitted"}, edit : Edits, since : SUBSET SUBSET Rule]
    BY <1>8 DEF Admits, CallOK
  <2>2. call'.pc \in {"idle", "admitted"}
    BY <1>8, <2>1 DEF Admits, NoCall
  <2>3. WalkType'
    BY <2>2 DEF WalkType
  <2> QED
    BY <2>2, <2>3, NoWalk
<1>9. CASE \E e \in Edits : OthersCommit(e)
  BY <1>1, <1>9 DEF OthersCommit
<1>10. CASE RulesChange
  BY <1>10, <1>w, RulesChangeStep
<1>11. Next \/ UNCHANGED vars
  OBVIOUS
<1>12. CASE UNCHANGED vars
  BY <1>1, <1>12 DEF vars
<1>13. CASE Next
  BY <1>2, <1>3, <1>4, <1>5, <1>6, <1>7, <1>8, <1>9, <1>10, <1>13 DEF Next, SetsRule, SetsActive
<1> QED
  BY <1>11, <1>12, <1>13

\* At its end a walk has seen everything that was there all the time.
LEMMA WalkSays == LogOK /\ WalkInv => WalksMissNothing
<1> SUFFICES ASSUME LogOK, WalkInv PROVE WalksMissNothing
  OBVIOUS
<1>1. ASSUME call.pc = "logged", call.steady
      PROVE  LET Then(n) == ShownCommits(rules[call.repo], SubSeq(log[call.repo], 1, n), <<>>)
             IN /\ Range(Then(call.begun[call.repo])) \subseteq Range(call.got)
                /\ call.begun[call.repo] = Len(log[call.repo]) => call.got = Then(call.begun[call.repo])
  <2>1. /\ call.repo \in Repo /\ call.begun \in [Repo -> Nat]
        /\ \A r \in Repo : call.begun[r] <= Len(log[r])
    BY <1>1 DEF WalkInv, WalkType
  <2>2. PICK r \in Repo : r = call.repo
    BY <2>1
  <2>3. PICK b \in Nat : b = call.begun[r]
    BY <2>1
  <2>4. b \in 0..Len(log[r])
    BY <2>1, <2>2, <2>3 DEF LogOK
  <2> DEFINE then == ShownCommits(rules[r], SubSeq(log[r], 1, b), <<>>)
  <2>5. Range(then) = {i \in Seen(r) : i <= b} /\ (b = Len(log[r]) => then = NewestFirst(Seen(r)))
    BY <2>4, ShownThen
  <2>6. /\ \A i \in Seen(r) : i <= b => i \in Range(call.got)
        /\ b = Len(log[r]) => call.got = NewestFirst(Seen(r))
    BY <1>1, <2>2, <2>3 DEF WalkInv, LogEnd
  <2> HIDE DEF then
  <2>7. Range(then) \subseteq Range(call.got) /\ (b = Len(log[r]) => call.got = then)
    BY <2>5, <2>6
  <2> QED
    BY <2>2, <2>3, <2>7 DEF then
<1>2. ASSUME call.pc = "listed", call.steady
      PROVE  /\ \A i, j \in DOMAIN call.got : i < j => Less(call.got[i], call.got[j])
             /\ \A r \in Reachable, p \in File :
                  (\A i \in call.begun[r]..Len(log[r]) : p \in DOMAIN Strip(rules[r], TreeAt(log[r], i)))
                    => <<r>> \o p \in Range(call.got)
  BY <1>2 DEF WalkInv, ListEnd, Grows, Stays
<1> QED
  BY <1>1, <1>2 DEF WalksMissNothing

(* A client that follows the cursor of a log or of a listing to its end,    *)
(* under the rules it began with, has seen everything that was there all    *)
(* the time: each entry of a listing once, in order, however others commit  *)
(* in between, and each commit of a log once when none came in between.     *)
THEOREM WalksKeepAll == Spec => []WalksMissNothing
<1>1. WriteInv /\ WriteInv' /\ WalkInv /\ [Next]_vars => WalkInv'
  BY WalkStep DEF WriteInv
<1>2. WriteInv /\ WalkInv => WalksMissNothing
  BY WalkSays DEF WriteInv
<1> QED
  BY <1>1, <1>2, WalkInit, WriteInvHolds, PTL DEF Spec

=============================================================================
