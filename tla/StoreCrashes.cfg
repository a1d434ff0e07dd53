\* Two writers, two accounts and one repository; five updates with the three
\* NewMulti makes; two ends of the process.
SPECIFICATION Spec
CONSTANTS
  acc1 = acc1  acc2 = acc2  repo1 = repo1  w1 = w1  w2 = w2
  adm = adm  usr = usr  Usr = Usr  bad = bad  notes = notes  BadName = BadName
  top = top  sub = sub
  AccountId = {acc1, acc2}
  RepoId = {repo1}
  Address = {adm, usr, Usr, bad}
  AdminAddress = {adm, Usr}
  Email = {"adm", "usr"}
  Canonical <- CanonicalAddress
  Alias = {notes}
  BadAlias = {BadName}
  Folder = {top}
  Root = top
  Writer = {w1, w2}
  MaxUpdates = 5
  MaxStops = 2
SYMMETRY StoreSymmetry
INVARIANTS StoreTypeOK Recoverable BackupIsPrevious ServesAdmin
PROPERTY StateSpec
CHECK_DEADLOCK FALSE
