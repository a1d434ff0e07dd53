\* One request that opens a page of a client or of the panel, two handlers, an
\* administrator and a user, three codes within three ticks and an hour of two.
\* Two codes an hour for an address or a client, one mail an hour, one wrong code
\* each, a recovery token, a session, and two of: a request of a tab of the panel,
\* a restart that may name another administrator.
SPECIFICATION Spec
CONSTANTS
  acc1 = acc1  acc2 = acc2  repo1 = repo1  adm = adm  usr = usr  bad = bad  top = top
  q1 = q1  q2 = q2  q3 = q3  n1 = n1  n2 = n2  h1 = h1  h2 = h2
  admMail = admMail  usrMail = usrMail  t1 = t1  t2 = t2
  Tab = {t1, t2}
  AccountId = {acc1, acc2}
  RepoId = {repo1}
  Address = {adm, usr}
  AdminAddress = {adm, usr}
  Email = {admMail, usrMail}
  Canonical <- CanonicalAddress
  Alias = {}
  BadAlias = {}
  Folder = {top}
  Root = top
  Kinds = {"client", "panel"}
  Request = {q1}
  Network = {n1}
  Handler = {h1, h2}
  AddrInterval = 1
  AddrPerHour = 2
  ClientPerHour = 2
  TotalPerHour = 1
  Hour = 2
  CodeTTL = 1
  PageTTL <- Lifetimes
  MaxAttempts = 1
  MaxCodes = 3
  MaxTime = 2
  SessionTTL = 0
  StaticToken = TRUE
  MaxSessions = 1
  MaxEvents = 2
SYMMETRY PanelSymmetry
INVARIANTS PanelTypeOK CodesWithinLimits GuessesBounded SignInNeedsMail OneActiveAdmin SessionsAreAdmins
CHECK_DEADLOCK FALSE
