\* The page of the panel: a user signs in with a code of its own, then the
\* administrator asks for one with the same page.
SPECIFICATION Spec
CONSTANTS
  acc1 = acc1  acc2 = acc2  repo1 = repo1  adm = adm  usr = usr  bad = bad  top = top
  q1 = q1  q2 = q2  q3 = q3  n1 = n1  n2 = n2  h1 = h1  h2 = h2
  admMail = admMail  usrMail = usrMail  t1 = t1  t2 = t2
  Tab = {t1, t2}
  AccountId = {acc1, acc2}
  RepoId = {repo1}
  Address = {adm, usr}
  AdminAddress = {adm}
  Email = {admMail, usrMail}
  Canonical <- CanonicalAddress
  Alias = {}
  BadAlias = {}
  Folder = {top}
  Root = top
  Kinds = {"panel"}
  Request = {q1}
  Network = {n1}
  Handler = {h1}
  AddrInterval = 1
  AddrPerHour = 2
  ClientPerHour = 3
  TotalPerHour = 3
  Hour = 3
  CodeTTL = 1
  PageTTL <- Lifetimes
  MaxAttempts = 1
  MaxCodes = 2
  MaxTime = 1
  SessionTTL = 1
  StaticToken = FALSE
  MaxSessions = 1
  MaxEvents = 0
INVARIANT MailKeysDiffer
CHECK_DEADLOCK FALSE
