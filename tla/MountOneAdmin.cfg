SPECIFICATION Spec
CONSTANTS
  r1 = r1
  r2 = r2
  a1 = a1
  a2 = a2
  Repo = {r1, r2}
  Alias = {main}
  AliasOf <- SameAlias
  Admin = {a1}
  MaxOps = 3
  MaxBoots = 2
CHECK_DEADLOCK FALSE
INVARIANT TypeOK
INVARIANT NothingLeaked
INVARIANT RemovedIsNotServed
INVARIANT DownHoldsNothing
