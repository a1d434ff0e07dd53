\* One client, one account: a sign-out between a code and its exchange.
SPECIFICATION Spec
CONSTANTS
  c1 = c1  c2 = c2  a1 = a1  a2 = a2  q1 = q1  q2 = q2  h1 = h1  h2 = h2
  Client = {c1}
  AccountId = {a1}
  Request = {q1}
  Handler = {h1, h2}
  MaxSignIns = 1
  MaxGrants = 2
  MaxSaveErrors = 0
  MaxActs = 1
  MaxCrashes = 0
INVARIANT SignedOutEverywhere
CHECK_DEADLOCK FALSE
