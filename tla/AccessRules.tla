----------------------------- MODULE AccessRules -----------------------------
(***************************************************************************)
(* internal/acl: what the rules of one account say of the paths of one     *)
(* repository.                                                             *)
(*                                                                         *)
(* A path is the sequence of its segments, the repository itself the empty *)
(* one; a set of rules holds at most one on a folder, which is what        *)
(* AccountModel's SetRule leaves (OneRuleEach there).                      *)
(***************************************************************************)
EXTENDS Naturals, Sequences

CONSTANT Name   \* names of files and folders

Path   == Seq(Name)
Access == {"none", "read", "write"}
Rule   == [path : Path, level : Access]

RuleSet(rules) ==
  rules \subseteq Rule /\ \A r, q \in rules : r.path = q.path => r = q

-----------------------------------------------------------------------------
(* The functions of acl.go.                                                 *)

\* within: whole segments are compared.
Within(folder, p) == Len(folder) <= Len(p) /\ \A i \in 1..Len(folder) : folder[i] = p[i]

\* Match: the rule on the longest folder that contains the path, if any.
Match_Shortest(rules, p) ==
  {r \in rules : Within(r.path, p) /\ \A q \in rules : Within(q.path, p) => Len(r.path) <= Len(q.path)}
Match(rules, p) ==
  {r \in rules : Within(r.path, p) /\ \A q \in rules : Within(q.path, p) => Len(q.path) <= Len(r.path)}

Reads(level) == level \in {"read", "write"}

CanRead(rules, p)  == \E r \in Match(rules, p) : Reads(r.level)
CanWrite(rules, p) == \E r \in Match(rules, p) : r.level = "write"
Level(rules, p)    == IF CanWrite(rules, p) THEN "write" ELSE IF CanRead(rules, p) THEN "read" ELSE "none"

Traversable(rules, folder) ==
  \/ CanRead(rules, folder)
  \/ \E r \in rules : Reads(r.level) /\ r.path # folder /\ Within(folder, r.path)

AnyAccess(rules) == Traversable(rules, <<>>)
=============================================================================
