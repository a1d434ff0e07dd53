\* Two clients, two accounts, one request for a sign-in that may be granted
\* twice, three pairs of tokens, one failing save, two acts of the panel, one crash.
SPECIFICATION Spec
CONSTANTS
  c1 = c1  c2 = c2  a1 = a1  a2 = a2  q1 = q1  q2 = q2  h1 = h1  h2 = h2
  Client = {c1, c2}
  AccountId = {a1, a2}
  Request = {q1}
  Handler = {h1, h2}
  MaxSignIns = 2
  MaxGrants = 3
  MaxSaveErrors = 1
  MaxActs = 1
  MaxCrashes = 1
SYMMETRY TokenSymmetry
INVARIANTS TokenTypeOK OneSession AccessNeedsRefresh BoundToSignIn CrashKeepsSessions
CHECK_DEADLOCK FALSE
