-------------------------- MODULE AccessRules_proofs --------------------------
(***************************************************************************)
(* What the functions of internal/acl answer for every set of rules and    *)
(* every path, of any depth.                                               *)
(***************************************************************************)
EXTENDS AccessRules, SequenceTheorems, TLAPS

(* A folder is within itself, and what is within a folder of it is, too.   *)
LEMMA WithinItself ==
  ASSUME NEW p \in Path
  PROVE  Within(p, p)
BY DEF Within, Path

LEMMA WithinTransitive ==
  ASSUME NEW f \in Path, NEW g \in Path, NEW p \in Path, Within(f, g), Within(g, p)
  PROVE  Within(f, p)
BY DEF Within, Path

(* Of two folders that contain a path the one that is not longer contains  *)
(* the other: folders above a path form a chain.                           *)
LEMMA WithinChain ==
  ASSUME NEW f \in Path, NEW g \in Path, NEW p \in Path,
         Within(f, p), Within(g, p), Len(f) <= Len(g)
  PROVE  Within(f, g)
BY DEF Within, Path

LEMMA SameLengthSamePath ==
  ASSUME NEW f \in Path, NEW g \in Path, Within(f, g), Len(f) = Len(g)
  PROVE  f = g
BY DEF Within, Path

(* At most one rule decides a path (acl.go:46-59), so that its level does  *)
(* not depend on the order of the rules.                                   *)
THEOREM MatchUnique ==
  ASSUME NEW rules, RuleSet(rules), NEW p \in Path,
         NEW r \in Match(rules, p), NEW q \in Match(rules, p)
  PROVE  r = q
<1>1. /\ r \in rules /\ q \in rules
      /\ r.path \in Path /\ q.path \in Path
  BY DEF RuleSet, Rule, Match
<1>2. Within(r.path, p) /\ Within(q.path, p)
  BY DEF Match
<1>3. Len(r.path) = Len(q.path)
  BY <1>1, <1>2 DEF Match, Path
<1>4. Within(r.path, q.path)
  BY <1>1, <1>2, <1>3, WithinChain DEF Path
<1>5. r.path = q.path
  BY <1>1, <1>3, <1>4, SameLengthSamePath
<1> QED
  BY <1>1, <1>5 DEF RuleSet

(* The rule on a folder decides that folder, whatever stands above it.     *)
THEOREM OwnRuleDecides ==
  ASSUME NEW rules, RuleSet(rules), NEW r \in rules
  PROVE  Match(rules, r.path) = {r}
<1>1. r.path \in Path
  BY DEF RuleSet, Rule
<1>2. r \in Match(rules, r.path)
  BY <1>1, WithinItself DEF Match, Within
<1> QED
  BY <1>1, <1>2, MatchUnique

LEMMA PrefixOfPath ==
  ASSUME NEW p \in Path, NEW n \in Nat, n <= Len(p)
  PROVE  /\ SubSeq(p, 1, n) \in Path /\ Len(SubSeq(p, 1, n)) = n
         /\ \A i \in 1..n : SubSeq(p, 1, n)[i] = p[i]
<1>1. \A i \in 1..n : p[i] \in Name
  BY DEF Path
<1>2. /\ SubSeq(p, 1, n) \in Seq(Name)
      /\ Len(SubSeq(p, 1, n)) = IF 1 <= n THEN n - 1 + 1 ELSE 0
      /\ \A i \in 1..n - 1 + 1 : SubSeq(p, 1, n)[i] = p[1 + i - 1]
  BY <1>1, SubSeqProperties
<1> QED
  BY <1>2 DEF Path

(* A path without a rule of its own has the level of the folder it is in:  *)
(* "inherited", as the panel shows it.                                     *)
THEOREM LevelsInherit ==
  ASSUME NEW rules, RuleSet(rules), NEW p \in Path, p # <<>>,
         \A r \in rules : r.path # p
  PROVE  /\ Match(rules, p) = Match(rules, SubSeq(p, 1, Len(p) - 1))
         /\ Level(rules, p) = Level(rules, SubSeq(p, 1, Len(p) - 1))
<1> DEFINE parent == SubSeq(p, 1, Len(p) - 1)
<1>1. /\ Len(p) \in Nat \ {0} /\ parent \in Path /\ Len(parent) = Len(p) - 1
      /\ \A i \in 1..Len(parent) : parent[i] = p[i]
  <2>1. Len(p) \in Nat \ {0}
    BY EmptySeq, LenProperties DEF Path
  <2>2. Len(p) - 1 \in Nat /\ Len(p) - 1 <= Len(p)
    BY <2>1
  <2>3. /\ parent \in Path /\ Len(parent) = Len(p) - 1
        /\ \A i \in 1..Len(p) - 1 : parent[i] = p[i]
    BY <2>2, PrefixOfPath
  <2> HIDE DEF parent
  <2> QED
    BY <2>1, <2>3
<1>2. ASSUME NEW r \in rules
      PROVE  Within(r.path, p) <=> Within(r.path, parent)
  <2>1. r.path \in Path /\ r.path # p
    BY DEF RuleSet, Rule
  <2>2. ASSUME Within(r.path, parent) PROVE Within(r.path, p)
    <3> HIDE DEF parent
    <3>1. Len(r.path) \in Nat /\ Len(r.path) <= Len(parent) /\ Len(parent) <= Len(p)
      BY <1>1, <2>1, <2>2, LenProperties DEF Within, Path
    <3>2. ASSUME NEW i \in 1..Len(r.path) PROVE r.path[i] = p[i]
      <4>1. i \in 1..Len(parent)
        BY <1>1, <3>1
      <4> QED
        BY <1>1, <2>2, <4>1 DEF Within
    <3> QED
      BY <1>1, <3>1, <3>2 DEF Within
  <2>3. ASSUME Within(r.path, p) PROVE Within(r.path, parent)
    <3>1. Len(r.path) # Len(p)
      BY <2>1, <2>3, SameLengthSamePath
    <3> QED
      BY <1>1, <2>1, <2>3, <3>1 DEF Within, Path
  <2> QED
    BY <2>2, <2>3
<1>3. Match(rules, p) = Match(rules, parent)
  BY <1>2 DEF Match
<1> QED
  BY <1>3 DEF Level, CanRead, CanWrite

(* A folder on the way to anything readable can be passed (acl.go:75-88):  *)
(* nothing that is granted is out of reach.                                *)
THEOREM ReadableIsReachable ==
  ASSUME NEW rules, RuleSet(rules), NEW p \in Path, NEW f \in Path,
         CanRead(rules, p), Within(f, p)
  PROVE  Traversable(rules, f)
<1>1. PICK r \in Match(rules, p) : Reads(r.level)
  BY DEF CanRead
<1>2. r \in rules /\ r.path \in Path /\ Within(r.path, p)
  BY <1>1 DEF RuleSet, Rule, Match
<1>3. CASE Len(f) < Len(r.path)
  <2>1. Within(f, r.path) /\ r.path # f
    BY <1>2, <1>3, WithinChain DEF Path
  <2> QED
    BY <1>1, <1>2, <2>1 DEF Traversable
<1>4. CASE Len(r.path) <= Len(f)
  <2>1. Within(r.path, f)
    BY <1>2, <1>4, WithinChain
  <2>2. ASSUME NEW q \in rules, Within(q.path, f)
        PROVE  Len(q.path) <= Len(r.path)
    <3>1. q.path \in Path
      BY DEF RuleSet, Rule
    <3>2. Within(q.path, p)
      BY <2>2, <3>1, WithinTransitive
    <3> QED
      BY <1>1, <3>2 DEF Match
  <2>3. r \in Match(rules, f)
    BY <1>2, <2>1, <2>2 DEF Match
  <2> QED
    BY <1>1, <2>3 DEF Traversable, CanRead
<1> QED
  BY <1>2, <1>3, <1>4 DEF Path

(* A folder that can be passed leads to something readable: none is shown  *)
(* for nothing.                                                            *)
THEOREM ReachableForAReason ==
  ASSUME NEW rules, RuleSet(rules), NEW f \in Path, Traversable(rules, f)
  PROVE  \E p \in Path : Within(f, p) /\ CanRead(rules, p)
<1>1. CASE CanRead(rules, f)
  BY <1>1, WithinItself
<1>2. CASE \E r \in rules : Reads(r.level) /\ Within(f, r.path)
  <2>1. PICK r \in rules : Reads(r.level) /\ Within(f, r.path)
    BY <1>2
  <2>2. r.path \in Path
    BY DEF RuleSet, Rule
  <2>3. CanRead(rules, r.path)
    BY <2>1, OwnRuleDecides DEF CanRead
  <2> QED
    BY <2>1, <2>2, <2>3
<1> QED
  BY <1>1, <1>2 DEF Traversable

(* Both together: a folder is passable exactly when it, or something below *)
(* it, is readable; and an account sees a repository exactly when it may   *)
(* read something in it.                                                   *)
THEOREM TraversableExact ==
  ASSUME NEW rules, RuleSet(rules)
  PROVE  /\ \A f \in Path : Traversable(rules, f) <=> \E p \in Path : Within(f, p) /\ CanRead(rules, p)
         /\ AnyAccess(rules) <=> \E p \in Path : CanRead(rules, p)
<1>1. ASSUME NEW f \in Path
      PROVE  Traversable(rules, f) <=> \E p \in Path : Within(f, p) /\ CanRead(rules, p)
  BY ReadableIsReachable, ReachableForAReason
<1>2. <<>> \in Path /\ \A p \in Path : Within(<<>>, p)
  BY DEF Path, Within
<1> QED
  BY <1>1, <1>2 DEF AnyAccess
=============================================================================
