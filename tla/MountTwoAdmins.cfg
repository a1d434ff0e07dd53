SPECIFICATION FairSpec
CONSTANTS
  r1 = r1
  r2 = r2
  a1 = a1
  a2 = a2
  Repo = {r1}
  Alias = {main}
  AliasOf <- SameAlias
  Admin = {a1, a2}
  MaxOps = 3
  MaxBoots = 1
CHECK_DEADLOCK FALSE
INVARIANT ServingIsOpen
INVARIANT OneServicePerClone
PROPERTY OperationsReturn
PROPERTY CloseReturns
