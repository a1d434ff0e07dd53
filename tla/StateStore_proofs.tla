-------------------------- MODULE StateStore_proofs --------------------------
(***************************************************************************)
(* Proofs about StateStore: whatever fails and whenever the process or the *)
(* machine stops, the files hold whole documents that satisfy the rules of *)
(* the model, the backup is the version before, an administrator is        *)
(* served, and the store implements AtomicState.                           *)
(***************************************************************************)
EXTENDS StateStore, AccountModel_proofs

-----------------------------------------------------------------------------
(* The inductive invariant.                                                 *)

Busy(w) == op[w].pc # "idle"

\* The lock: one update at a time, and none without a process.
OneUpdate ==
  /\ \A w, v \in Writer : Busy(w) /\ Busy(v) => w = v
  /\ phase = "down" => Unlocked

\* What is being written was made from what readers see.
NextIsWanted == \A w \in Writer : Busy(w) => op[w].next \in Wanted(cur)

Content(w) == IF op[w].file = "bak" THEN cur ELSE op[w].next
Written(w, kind) == tmp[op[w].file] = [kind |-> kind, doc |-> Content(w)]
TemporaryFile ==
  \A w \in Writer : /\ At(w, "sync")   => Written(w, "written")
                    /\ At(w, "rename") => Written(w, "synced")

\* Until its rename an update has changed nothing; after it, only memory is
\* behind.
MemoryIsFile ==
  phase # "down" =>
    IF \E w \in Writer : At(w, "publish")
    THEN \A w \in Writer : At(w, "publish") => dir.main.kind = "synced" /\ dir.main.doc = op[w].next
    ELSE cur = dir.main.doc /\ raw = (dir.main.kind # "none")

\* The main file is not touched before the backup holds its content.
BackedUp ==
  \A w \in Writer :
    op[w].pc \in {"create", "write", "sync", "rename"} /\ op[w].file = "main" /\ dir.main.kind # "none"
      => dir.bak.kind = "synced" /\ dir.bak.doc = cur

Inv ==
  /\ StoreTypeOK /\ Recoverable /\ BackupIsPrevious /\ ServesAdmin
  /\ OneUpdate /\ NextIsWanted /\ TemporaryFile /\ MemoryIsFile /\ BackedUp

-----------------------------------------------------------------------------
(* The values the actions build.                                            *)

LEMMA FileType ==
  /\ NoFile \in File /\ TornFile \in File /\ Idle \in Op
  /\ \A k \in {"none", "torn", "written", "synced"}, s \in State : [kind |-> k, doc |-> s] \in File
BY EmptyIsWell DEF NoFile, TornFile, File, Idle, Op, Files

\* What Update's callback may leave is a well formed document, with an
\* administrator once there is to be one.
LEMMA WantedKeeps ==
  ASSUME cur \in State, Consistent(cur), NEW s \in Wanted(cur)
  PROVE  /\ s \in State /\ Consistent(s) /\ s \in Changes(cur)
         /\ phase \in {"admin", "clients", "import", "serving"}
         /\ (phase = "admin" \/ HasAdmin(cur)) => HasAdmin(s)
<1>1. /\ phase = "admin"   => s \in AdminChanges(cur)
      /\ phase = "clients" => s \in ImportClients(cur)
      /\ phase = "import"  => s \in ImportChanges(cur)
      /\ phase = "serving" => s \in {cur} \cup PanelChanges(cur)
      /\ phase \in {"admin", "clients", "import", "serving"}
  BY DEF Wanted
<1>2. s \in Changes(cur)
  BY <1>1 DEF Changes
<1>3. s \in State /\ Consistent(s)
  BY <1>2, ChangesKeepState
<1>4. (phase = "admin" \/ HasAdmin(cur)) => HasAdmin(s)
  <2>1. CASE phase = "admin"
    BY <1>1, <2>1, AdminChangesMakeAdmin
  <2>2. CASE phase # "admin" /\ HasAdmin(cur)
    BY <1>1, <2>2, AdminStays
  <2> QED
    BY <2>1, <2>2
<1> QED
  BY <1>1, <1>2, <1>3, <1>4

LEMMA SameWanted ==
  ASSUME phase' = phase, cur' = cur
  PROVE  Wanted(cur)' = Wanted(cur)
BY DEF Wanted

\* The step of a writer from one point of its update to the next.
LEMMA NextPoint ==
  ASSUME op \in [Writer -> Op], NEW w \in Writer,
         NEW pc \in {"idle", "create", "write", "sync", "rename", "publish"}, Then(w, pc)
  PROVE  /\ op' \in [Writer -> Op]
         /\ op'[w].pc = pc /\ op'[w].file = op[w].file /\ op'[w].next = op[w].next
         /\ \A v \in Writer : v # w => op'[v] = op[v]
BY DEF Then, Op

LEMMA OthersIdle ==
  ASSUME Inv, NEW w \in Writer, Busy(w)
  PROVE  /\ \A v \in Writer : v # w => op[v].pc = "idle"
         /\ phase # "down" /\ op[w].next \in Wanted(cur)
BY DEF Inv, OneUpdate, NextIsWanted, Busy, Unlocked

-----------------------------------------------------------------------------
(* The steps.                                                               *)

LEMMA InitInv == Init => Inv
<1> SUFFICES ASSUME Init PROVE Inv
  OBVIOUS
<1>1. StoreTypeOK
  <2>1. /\ phase \in {"down", "admin", "clients", "import", "serving"}
        /\ cur \in State /\ op \in [Writer -> Op] /\ tmp \in [Files -> File]
    BY FileType, EmptyIsWell DEF Init
  <2>2. raw \in BOOLEAN
    BY Zenon DEF Init
  <2>3. dir \in Directory /\ settled \in Directory
    BY FileType DEF Init, Directory
  <2>4. updates \in 0..MaxUpdates /\ stops \in 0..MaxStops
    BY StoreBoundAssumption DEF Init
  <2> QED
    BY <2>1, <2>2, <2>3, <2>4 DEF StoreTypeOK
<1>2. Recoverable /\ BackupIsPrevious /\ ServesAdmin
  BY EmptyIsWell DEF Init, Recoverable, Whole, NoFile, BackupIsPrevious, ServesAdmin
<1>3. OneUpdate /\ NextIsWanted /\ TemporaryFile /\ MemoryIsFile /\ BackedUp
  BY DEF Init, OneUpdate, Unlocked, NextIsWanted, Busy, TemporaryFile, At, MemoryIsFile, BackedUp, Idle
<1> QED
  BY <1>1, <1>2, <1>3 DEF Inv

\* What all steps of a write before its rename have in common.
LEMMA QuietStep ==
  ASSUME Inv, NEW w \in Writer, Busy(w), op[w].pc # "publish",
         NEW pc \in {"write", "sync", "rename"}, Then(w, pc),
         op[w].pc \in {"create", "write", "sync", "rename"},
         UNCHANGED <<memVars, diskVars, boundVars>>,
         tmp' \in [Files -> File],
         pc = "sync"   => Written(w, "written")',
         pc = "rename" => Written(w, "synced")'
  PROVE  Inv'
<1> USE DEF Inv
<1>1. /\ op' \in [Writer -> Op]
      /\ op'[w].pc = pc /\ op'[w].file = op[w].file /\ op'[w].next = op[w].next
      /\ \A v \in Writer : v # w => op'[v] = op[v]
  BY NextPoint DEF StoreTypeOK
<1>2. \A v \in Writer : v # w => op[v].pc = "idle"
  BY OthersIdle
<1>3. phase # "down" /\ op[w].next \in Wanted(cur)
  BY OthersIdle
<1>4. StoreTypeOK' /\ Recoverable' /\ BackupIsPrevious' /\ ServesAdmin'
  BY <1>1 DEF StoreTypeOK, Recoverable, BackupIsPrevious, ServesAdmin, memVars, diskVars, boundVars
<1>5. OneUpdate'
  BY <1>1, <1>2, <1>3 DEF OneUpdate, Busy, Unlocked, memVars
<1>6. NextIsWanted'
  BY <1>1, <1>2, <1>3, SameWanted DEF NextIsWanted, Busy, memVars
<1>7. TemporaryFile'
  BY <1>1, <1>2 DEF TemporaryFile, At
<1>8. MemoryIsFile'
  BY <1>1, <1>2 DEF MemoryIsFile, At, memVars, diskVars
<1>9. BackedUp'
  BY <1>1, <1>2 DEF BackedUp, memVars, diskVars
<1> QED
  BY <1>4, <1>5, <1>6, <1>7, <1>8, <1>9

LEMMA CreatesInv == ASSUME Inv, NEW w \in Writer, Creates(w) PROVE Inv'
<1>1. Busy(w) /\ op[w].pc = "create"
  BY DEF Creates, At, Busy
<1>2. tmp' \in [Files -> File]
  BY FileType DEF Inv, StoreTypeOK, Creates
<1>3. Then(w, "write") /\ UNCHANGED <<memVars, diskVars, boundVars>>
  BY DEF Creates
<1> QED
  BY <1>1, <1>2, <1>3, QuietStep

LEMMA WritesInv == ASSUME Inv, NEW w \in Writer, Writes(w) PROVE Inv'
<1>1. Busy(w) /\ op[w].pc = "write"
  BY DEF Writes, At, Busy
<1>2. Then(w, "sync") /\ UNCHANGED <<memVars, diskVars, boundVars>>
  BY DEF Writes
<1>3. op \in [Writer -> Op] /\ op[w].file \in Files /\ cur \in State /\ op[w].next \in State
      /\ tmp \in [Files -> File]
  BY DEF Inv, StoreTypeOK, Op
<1>4. op'[w].file = op[w].file /\ op'[w].next = op[w].next
  BY <1>2, <1>3, NextPoint
<1>5. tmp' = [tmp EXCEPT ![op[w].file] = [kind |-> "written", doc |-> Content(w)]]
  BY DEF Writes, Content
<1>6. [kind |-> "written", doc |-> Content(w)] \in File
  BY <1>3, FileType DEF Content
<1>7. tmp' \in [Files -> File] /\ tmp'[op[w].file] = [kind |-> "written", doc |-> Content(w)]
  BY <1>3, <1>5, <1>6
<1>8. Written(w, "written")'
  BY <1>2, <1>4, <1>7 DEF Written, Content, memVars
<1> QED
  BY <1>1, <1>2, <1>7, <1>8, QuietStep

LEMMA SyncsInv == ASSUME Inv, NEW w \in Writer, Syncs(w) PROVE Inv'
<1>1. Busy(w) /\ op[w].pc = "sync"
  BY DEF Syncs, At, Busy
<1>2. Then(w, "rename") /\ UNCHANGED <<memVars, diskVars, boundVars>>
  BY DEF Syncs
<1>3. op \in [Writer -> Op] /\ op[w].file \in Files /\ tmp \in [Files -> File]
  BY DEF Inv, StoreTypeOK, Op
<1>4. op'[w].file = op[w].file /\ op'[w].next = op[w].next
  BY <1>2, <1>3, NextPoint
<1>5. tmp[op[w].file] = [kind |-> "written", doc |-> Content(w)]
  BY <1>1 DEF Inv, TemporaryFile, At, Written
<1>6. /\ tmp' \in [Files -> File]
      /\ tmp'[op[w].file] = [kind |-> "synced", doc |-> Content(w)]
  BY <1>3, <1>5 DEF Syncs, File
<1>7. Written(w, "synced")'
  BY <1>2, <1>4, <1>6 DEF Written, Content, memVars
<1> QED
  BY <1>1, <1>2, <1>6, <1>7, QuietStep

LEMMA BeginsInv == ASSUME Inv, NEW w \in Writer, Begins(w) PROVE Inv'
<1> USE DEF Inv
<1>1. PICK s \in Wanted(cur) :
        op' = [op EXCEPT ![w] = [pc |-> "create", file |-> IF raw THEN "bak" ELSE "main", next |-> s]]
  BY DEF Begins
<1>2. /\ Unlocked /\ updates' = updates + 1 /\ updates < MaxUpdates
      /\ UNCHANGED <<memVars, tmp, diskVars, stops>>
  BY DEF Begins
<1>3. cur \in State /\ Consistent(cur) /\ op \in [Writer -> Op]
  BY DEF StoreTypeOK, Recoverable
<1>4. s \in State /\ phase # "down"
  BY <1>3, WantedKeeps
<1> DEFINE f == IF raw THEN "bak" ELSE "main"
<1>5. f \in Files /\ (f = "main" => raw = FALSE)
  BY DEF Files, StoreTypeOK
<1> HIDE DEF f
<1>6. /\ op' \in [Writer -> Op]
      /\ op'[w].pc = "create" /\ op'[w].file = f /\ op'[w].next = s
      /\ \A v \in Writer : v # w => op'[v] = op[v] /\ op[v].pc = "idle"
      /\ \A v \in Writer : op[v].pc = "idle"
  <2>1. op' = [op EXCEPT ![w] = [pc |-> "create", file |-> f, next |-> s]]
    BY <1>1 DEF f
  <2>2. [pc |-> "create", file |-> f, next |-> s] \in Op
    BY <1>4, <1>5 DEF Op
  <2> QED
    BY <1>2, <1>3, <2>1, <2>2 DEF Unlocked
<1>7. StoreTypeOK'
  BY <1>2, <1>6, StoreBoundAssumption DEF StoreTypeOK, memVars, diskVars
<1>8. Recoverable' /\ BackupIsPrevious' /\ ServesAdmin'
  BY <1>2 DEF Recoverable, BackupIsPrevious, ServesAdmin, memVars, diskVars
<1>9. OneUpdate'
  BY <1>2, <1>4, <1>6 DEF OneUpdate, Busy, memVars
<1>10. NextIsWanted'
  BY <1>2, <1>6, SameWanted DEF NextIsWanted, Busy, memVars
<1>11. TemporaryFile'
  BY <1>6 DEF TemporaryFile, At
<1>12. cur = dir.main.doc /\ raw = (dir.main.kind # "none")
  BY <1>4, <1>6 DEF MemoryIsFile, At
<1>13. MemoryIsFile'
  BY <1>2, <1>6, <1>12 DEF MemoryIsFile, At, memVars, diskVars
<1>14. BackedUp'
  BY <1>2, <1>5, <1>6, <1>12 DEF BackedUp, memVars, diskVars
<1> QED
  BY <1>7, <1>8, <1>9, <1>10, <1>11, <1>13, <1>14

\* A rename that is reached puts a synced file in place: the content of the
\* main file into the backup, or the new document into the main file.
LEMMA RenamesInv == ASSUME Inv, NEW w \in Writer, Renames(w) PROVE Inv'
<1> USE DEF Inv
<1>1. At(w, "rename") /\ Busy(w) /\ UNCHANGED <<memVars, settled, boundVars>>
  BY DEF Renames, At, Busy
<1>2. /\ \A v \in Writer : v # w => op[v].pc = "idle"
      /\ phase # "down" /\ op[w].next \in Wanted(cur)
  BY <1>1, OthersIdle
<1>3. cur \in State /\ Consistent(cur) /\ op \in [Writer -> Op] /\ op[w] \in Op
  BY DEF StoreTypeOK, Recoverable
<1>4. op[w].next \in State /\ Consistent(op[w].next)
  BY <1>2, <1>3, WantedKeeps
<1>5. cur = dir.main.doc /\ raw = (dir.main.kind # "none")
  BY <1>1, <1>2 DEF MemoryIsFile, At
<1> DEFINE f == op[w].file
<1>6. f \in Files /\ tmp[f] = [kind |-> "synced", doc |-> Content(w)] /\ Content(w) \in State
  BY <1>1, <1>3, <1>4 DEF TemporaryFile, Written, Op, Content
<1>7. tmp' \in [Files -> File]
  BY <1>6, FileType DEF Renames, StoreTypeOK
<1>8. tmp[f].kind = "synced" /\ tmp[f].doc = Content(w) /\ tmp[f] \in File
  BY <1>6, FileType DEF StoreTypeOK
<1>9. /\ dir \in Directory /\ dir.main \in File /\ dir.bak \in File /\ dir.before \in File
      /\ dir = [main |-> dir.main, bak |-> dir.bak, before |-> dir.before]
  BY DEF StoreTypeOK, Directory
<1>10. CASE f = "bak"
  <2>1. /\ dir' = [dir EXCEPT !.bak = tmp[f]]
        /\ op' = [op EXCEPT ![w] = [pc |-> "create", file |-> "main", next |-> op[w].next]]
    BY <1>10 DEF Renames
  <2>2. /\ op' \in [Writer -> Op]
        /\ op'[w].pc = "create" /\ op'[w].file = "main" /\ op'[w].next = op[w].next
        /\ \A v \in Writer : v # w => op'[v] = op[v]
    <3>1. [pc |-> "create", file |-> "main", next |-> op[w].next] \in Op
      BY <1>4 DEF Op, Files
    <3> QED
      BY <1>3, <2>1, <3>1
  <2>3. /\ dir'.main = dir.main /\ dir'.bak = tmp[f] /\ dir'.before = dir.before
        /\ dir' \in Directory /\ tmp[f].doc = cur
    BY <1>8, <1>9, <1>10, <2>1 DEF Directory, Content
  <2>4. StoreTypeOK'
    BY <1>1, <1>7, <2>2, <2>3 DEF StoreTypeOK, memVars, boundVars
  <2>5. Recoverable' /\ BackupIsPrevious' /\ ServesAdmin'
    BY <1>1, <1>3, <1>5, <1>8, <2>3
    DEF Recoverable, Whole, BackupIsPrevious, ServesAdmin, memVars
  <2>6. OneUpdate'
    BY <1>1, <1>2, <2>2 DEF OneUpdate, Busy, memVars
  <2>7. NextIsWanted'
    BY <1>1, <1>2, <2>2, SameWanted DEF NextIsWanted, Busy, memVars
  <2>8. TemporaryFile'
    BY <1>2, <2>2 DEF TemporaryFile, At
  <2>9. MemoryIsFile'
    BY <1>1, <1>2, <1>5, <2>2, <2>3 DEF MemoryIsFile, At, memVars
  <2>10. BackedUp'
    BY <1>1, <1>2, <1>8, <2>2, <2>3 DEF BackedUp, memVars
  <2> QED
    BY <2>4, <2>5, <2>6, <2>7, <2>8, <2>9, <2>10
<1>11. CASE f = "main"
  <2>1. dir' = [main |-> tmp[f], bak |-> dir.bak, before |-> dir.main] /\ Then(w, "publish")
    BY <1>11 DEF Renames
  <2>2. /\ op' \in [Writer -> Op]
        /\ op'[w].pc = "publish" /\ op'[w].file = op[w].file /\ op'[w].next = op[w].next
        /\ \A v \in Writer : v # w => op'[v] = op[v]
    BY <1>3, <2>1, NextPoint
  <2>3. /\ dir'.main = tmp[f] /\ dir'.bak = dir.bak /\ dir'.before = dir.main
        /\ dir' \in Directory /\ tmp[f].doc = op[w].next
    BY <1>8, <1>9, <1>11, <2>1 DEF Directory, Content
  <2>4. StoreTypeOK'
    BY <1>1, <1>7, <2>2, <2>3 DEF StoreTypeOK, memVars, boundVars
  <2>5. Recoverable' /\ ServesAdmin'
    BY <1>1, <1>3, <1>4, <1>8, <2>3 DEF Recoverable, Whole, ServesAdmin, memVars
  <2>6. BackupIsPrevious'
    <3>1. dir.main.kind # "none" => dir.bak.kind = "synced" /\ dir.bak.doc = cur
      BY <1>1, <1>11 DEF BackedUp, At
    <3> QED
      BY <1>1, <1>5, <2>3, <3>1 DEF BackupIsPrevious
  <2>7. OneUpdate'
    BY <1>1, <1>2, <2>2 DEF OneUpdate, Busy, memVars
  <2>8. NextIsWanted'
    BY <1>1, <1>2, <2>2, SameWanted DEF NextIsWanted, Busy, memVars
  <2>9. TemporaryFile'
    BY <1>2, <2>2 DEF TemporaryFile, At
  <2>10. MemoryIsFile'
    BY <1>1, <1>2, <1>8, <2>2, <2>3 DEF MemoryIsFile, At, memVars
  <2>11. BackedUp'
    BY <1>2, <2>2 DEF BackedUp
  <2> QED
    BY <2>4, <2>5, <2>6, <2>7, <2>8, <2>9, <2>10, <2>11
<1> QED
  BY <1>6, <1>10, <1>11 DEF Files

\* A step that leaves no update in progress; memory is what the file holds or
\* there is no process.
LEMMA QuietInv ==
  ASSUME Inv, StoreTypeOK', Recoverable', BackupIsPrevious', ServesAdmin',
         \A w \in Writer : op'[w].pc = "idle",
         phase' # "down" => cur' = dir'.main.doc /\ raw' = (dir'.main.kind # "none")
  PROVE  Inv'
<1>1. OneUpdate'
  BY DEF OneUpdate, Busy, Unlocked
<1>2. NextIsWanted' /\ TemporaryFile' /\ BackedUp'
  BY DEF NextIsWanted, Busy, TemporaryFile, At, BackedUp
<1>3. MemoryIsFile'
  BY DEF MemoryIsFile, At
<1> QED
  BY <1>1, <1>2, <1>3 DEF Inv

\* An update is over: its writer is idle again.
LEMMA EndsUpdate ==
  ASSUME Inv, NEW w \in Writer, Busy(w), op' = [op EXCEPT ![w] = Idle]
  PROVE  op' \in [Writer -> Op] /\ \A v \in Writer : op'[v].pc = "idle"
<1>1. \A v \in Writer : v # w => op[v].pc = "idle"
  BY OthersIdle
<1> QED
  BY <1>1, FileType DEF Inv, StoreTypeOK, Idle

LEMMA PublishesInv == ASSUME Inv, NEW w \in Writer, Publishes(w) PROVE Inv'
<1>1. Busy(w) /\ At(w, "publish") /\ UNCHANGED <<tmp, diskVars, boundVars>>
  BY DEF Publishes, At, Busy
<1>2. cur' = op[w].next /\ raw' = TRUE /\ phase' = NextPhase /\ op' = [op EXCEPT ![w] = Idle]
  BY DEF Publishes
<1>3. phase # "down" /\ op[w].next \in Wanted(cur)
  BY <1>1, OthersIdle
<1>4. /\ op[w].next \in State /\ Consistent(op[w].next)
      /\ phase \in {"admin", "clients", "import", "serving"}
      /\ (phase = "admin" \/ HasAdmin(cur)) => HasAdmin(op[w].next)
  BY <1>3, WantedKeeps DEF Inv, StoreTypeOK, Recoverable
<1>5. phase' \in {"clients", "import", "serving"}
  BY <1>2, <1>4 DEF NextPhase
<1>6. op' \in [Writer -> Op] /\ \A v \in Writer : op'[v].pc = "idle"
  BY <1>1, <1>2, EndsUpdate
<1>7. StoreTypeOK'
  <2>1. raw' \in BOOLEAN
    BY <1>2, Zenon
  <2>2. cur' \in State
    BY <1>2, <1>4, Zenon
  <2> QED
    BY <1>1, <1>5, <1>6, <2>1, <2>2 DEF Inv, StoreTypeOK, diskVars, boundVars
<1>8. Recoverable' /\ BackupIsPrevious'
  BY <1>1, <1>2, <1>4 DEF Inv, Recoverable, BackupIsPrevious, diskVars
<1>9. ServesAdmin'
  BY <1>2, <1>4 DEF Inv, ServesAdmin
<1>10. dir.main.doc = op[w].next /\ dir.main.kind # "none"
  BY <1>1, <1>3 DEF Inv, MemoryIsFile
<1>11. cur' = dir'.main.doc /\ raw' = (dir'.main.kind # "none")
  BY <1>1, <1>2, <1>10 DEF diskVars
<1> QED
  BY <1>6, <1>7, <1>8, <1>9, <1>11, QuietInv

LEMMA FailsInv == ASSUME Inv, NEW w \in Writer, Fails(w) PROVE Inv'
<1>1. /\ Busy(w) /\ op[w].pc # "publish" /\ op' = [op EXCEPT ![w] = Idle]
      /\ phase' = (IF phase = "serving" THEN phase ELSE "down")
      /\ UNCHANGED <<cur, raw, tmp, diskVars, boundVars>>
  BY DEF Fails, Busy
<1>2. phase # "down" /\ \A v \in Writer : ~At(v, "publish")
  BY <1>1, OthersIdle DEF At
<1>3. op' \in [Writer -> Op] /\ \A v \in Writer : op'[v].pc = "idle"
  BY <1>1, EndsUpdate
<1>4. cur = dir.main.doc /\ raw = (dir.main.kind # "none")
  BY <1>2 DEF Inv, MemoryIsFile
<1>5. StoreTypeOK'
  BY <1>1, <1>3 DEF Inv, StoreTypeOK, diskVars, boundVars
<1>6. Recoverable' /\ BackupIsPrevious' /\ ServesAdmin'
  BY <1>1 DEF Inv, Recoverable, BackupIsPrevious, ServesAdmin, diskVars
<1>7. cur' = dir'.main.doc /\ raw' = (dir'.main.kind # "none")
  BY <1>1, <1>4 DEF diskVars
<1> QED
  BY <1>3, <1>5, <1>6, <1>7, QuietInv

LEMMA OpensInv == ASSUME Inv, Opens PROVE Inv'
<1>1. /\ phase = "down" /\ phase' = "admin" /\ cur' = dir.main.doc
      /\ raw' = (dir.main.kind # "none") /\ UNCHANGED <<op, tmp, diskVars, boundVars>>
  BY DEF Opens
<1>2. \A v \in Writer : op'[v].pc = "idle"
  BY <1>1 DEF Inv, OneUpdate, Unlocked
<1>3. StoreTypeOK'
  <2>1. cur' \in State /\ raw' \in BOOLEAN
    BY <1>1 DEF Inv, StoreTypeOK, Directory, File
  <2> QED
    BY <1>1, <2>1 DEF Inv, StoreTypeOK, diskVars, boundVars
<1>4. Recoverable' /\ BackupIsPrevious' /\ ServesAdmin'
  BY <1>1 DEF Inv, Recoverable, Whole, BackupIsPrevious, ServesAdmin, diskVars
<1>5. cur' = dir'.main.doc /\ raw' = (dir'.main.kind # "none")
  BY <1>1 DEF diskVars
<1> QED
  BY <1>2, <1>3, <1>4, <1>5, QuietInv

LEMMA SkipsImportInv == ASSUME Inv, SkipsImport PROVE Inv'
<1>1. /\ phase \in {"clients", "import"} /\ phase' = NextPhase /\ Unlocked
      /\ UNCHANGED <<cur, raw, op, tmp, diskVars, boundVars>>
  BY DEF SkipsImport
<1>2. phase' \in {"import", "serving"}
  BY <1>1 DEF NextPhase
<1>3. \A v \in Writer : op'[v].pc = "idle" /\ ~At(v, "publish")
  BY <1>1 DEF Unlocked, At
<1>4. cur = dir.main.doc /\ raw = (dir.main.kind # "none")
  BY <1>1, <1>3 DEF Inv, MemoryIsFile
<1>5. StoreTypeOK'
  BY <1>1, <1>2 DEF Inv, StoreTypeOK, diskVars, boundVars
<1>6. Recoverable' /\ BackupIsPrevious' /\ ServesAdmin'
  BY <1>1 DEF Inv, Recoverable, BackupIsPrevious, ServesAdmin, diskVars
<1>7. cur' = dir'.main.doc /\ raw' = (dir'.main.kind # "none")
  BY <1>1, <1>4 DEF diskVars
<1> QED
  BY <1>3, <1>5, <1>6, <1>7, QuietInv

\* Nothing but what a loss of power leaves changes.
LEMMA SettlesInv == ASSUME Inv, Settles PROVE Inv'
<1>1. settled' = dir /\ UNCHANGED <<memVars, op, tmp, dir, boundVars>>
  BY DEF Settles
<1>2. StoreTypeOK' /\ Recoverable' /\ BackupIsPrevious' /\ ServesAdmin'
  BY <1>1 DEF Inv, StoreTypeOK, Recoverable, BackupIsPrevious, ServesAdmin, memVars, boundVars
<1>3. OneUpdate' /\ NextIsWanted' /\ TemporaryFile' /\ MemoryIsFile' /\ BackedUp'
  <2>1. OneUpdate'
    BY <1>1 DEF Inv, OneUpdate, Busy, Unlocked, memVars
  <2>2. NextIsWanted'
    BY <1>1, SameWanted DEF Inv, NextIsWanted, Busy, memVars
  <2>3. TemporaryFile'
    BY <1>1 DEF Inv, TemporaryFile, At, Written, Content, memVars
  <2>4. MemoryIsFile' /\ BackedUp'
    BY <1>1 DEF Inv, MemoryIsFile, BackedUp, At, memVars
  <2> QED
    BY <2>1, <2>2, <2>3, <2>4
<1> QED
  BY <1>2, <1>3 DEF Inv

\* No process, no update.
LEMMA EndsAll ==
  ASSUME Inv, Ends
  PROVE  /\ op' \in [Writer -> Op] /\ \A v \in Writer : op'[v].pc = "idle"
         /\ phase' = "down" /\ cur' = cur /\ raw' = raw /\ updates' = updates
         /\ stops' \in 0..MaxStops
<1>1. op' = [w \in Writer |-> Idle] /\ Idle \in Op
  BY FileType DEF Ends
<1>2. op' \in [Writer -> Op] /\ \A v \in Writer : op'[v].pc = "idle"
  BY <1>1 DEF Idle
<1>3. stops' \in 0..MaxStops
  BY StoreBoundAssumption DEF Ends, Inv, StoreTypeOK
<1> QED
  BY <1>2, <1>3 DEF Ends

LEMMA DiesInv == ASSUME Inv, Dies PROVE Inv'
<1>1. /\ op' \in [Writer -> Op] /\ \A v \in Writer : op'[v].pc = "idle"
      /\ phase' = "down" /\ cur' = cur /\ raw' = raw /\ updates' = updates /\ stops' \in 0..MaxStops
  BY EndsAll DEF Dies
<1>2. StoreTypeOK' /\ Recoverable' /\ BackupIsPrevious' /\ ServesAdmin'
  BY <1>1 DEF Dies, Inv, StoreTypeOK, Recoverable, BackupIsPrevious, ServesAdmin, diskVars
<1> QED
  BY <1>1, <1>2, QuietInv

\* What had settled was synced before its rename: a loss of power takes the
\* latest renames back and tears nothing.
LEMMA LosesPowerIsClean ==
  ASSUME Inv, LosesPower
  PROVE  dir' = settled /\ settled' = settled
<1>1. PICK main \in Tears(settled.main), bak \in Tears(settled.bak) :
        dir' = [main |-> main, bak |-> bak, before |-> settled.before]
  BY DEF LosesPower
<1>2. main = settled.main /\ bak = settled.bak
  BY <1>1 DEF Tears, Inv, Recoverable, Whole
<1>3. settled = [main |-> settled.main, bak |-> settled.bak, before |-> settled.before]
  BY DEF Inv, StoreTypeOK, Directory
<1> QED
  BY <1>1, <1>2, <1>3 DEF LosesPower

LEMMA LosesPowerInv == ASSUME Inv, LosesPower PROVE Inv'
<1>1. /\ op' \in [Writer -> Op] /\ \A v \in Writer : op'[v].pc = "idle"
      /\ phase' = "down" /\ cur' = cur /\ raw' = raw /\ updates' = updates /\ stops' \in 0..MaxStops
  BY EndsAll DEF LosesPower
<1>2. dir' = settled /\ settled' = settled
  BY LosesPowerIsClean
<1>3. tmp' \in [Files -> File]
  BY FileType DEF LosesPower
<1>4. StoreTypeOK' /\ Recoverable' /\ BackupIsPrevious' /\ ServesAdmin'
  BY <1>1, <1>2, <1>3 DEF Inv, StoreTypeOK, Recoverable, BackupIsPrevious, ServesAdmin
<1> QED
  BY <1>1, <1>4, QuietInv

LEMMA StutterInv == ASSUME Inv, UNCHANGED vars PROVE Inv'
<1>1. StoreTypeOK' /\ Recoverable' /\ BackupIsPrevious' /\ ServesAdmin'
  BY DEF Inv, StoreTypeOK, Recoverable, BackupIsPrevious, ServesAdmin, vars, memVars, diskVars, boundVars
<1>2. OneUpdate' /\ TemporaryFile' /\ MemoryIsFile' /\ BackedUp'
  BY DEF Inv, OneUpdate, Busy, Unlocked, TemporaryFile, At, Written, Content, MemoryIsFile, BackedUp,
         vars, memVars, diskVars
<1>3. NextIsWanted'
  BY SameWanted DEF Inv, NextIsWanted, Busy, vars, memVars
<1> QED
  BY <1>1, <1>2, <1>3 DEF Inv

THEOREM InvHolds == Spec => []Inv
<1>1. Inv /\ [Next]_vars => Inv'
  <2> SUFFICES ASSUME Inv, [Next]_vars PROVE Inv'
    OBVIOUS
  <2>1. ASSUME NEW w \in Writer, UpdateStep(w) PROVE Inv'
    BY <2>1, BeginsInv, CreatesInv, WritesInv, SyncsInv, RenamesInv, PublishesInv, FailsInv DEF UpdateStep
  <2>2. CASE Opens \/ SkipsImport
    BY <2>2, OpensInv, SkipsImportInv
  <2>3. CASE Settles \/ Dies \/ LosesPower
    BY <2>3, SettlesInv, DiesInv, LosesPowerInv
  <2>4. CASE UNCHANGED vars
    BY <2>4, StutterInv
  <2> QED
    BY <2>1, <2>2, <2>3, <2>4 DEF Next
<1> QED
  BY <1>1, InitInv, PTL DEF Spec

-----------------------------------------------------------------------------
(* The properties.                                                          *)

(* Memory, files, temporary files and updates are what they should be,     *)
(* whatever fails and whenever the process or the machine stops.           *)
THEOREM StoreTypeCorrect == Spec => []StoreTypeOK
<1>1. Inv => StoreTypeOK
  BY DEF Inv
<1> QED
  BY <1>1, InvHolds, PTL

(* What the next process opens, and the backup, is a whole document that   *)
(* satisfies the rules of the model: each file is synced before its rename *)
(* and every change of the model keeps them.                               *)
THEOREM AlwaysRecoverable == Spec => []Recoverable
<1>1. Inv => Recoverable
  BY DEF Inv
<1> QED
  BY <1>1, InvHolds, PTL

(* From its second version on the state file has a backup, and it is the   *)
(* version the file holds or the one before: the main file is replaced     *)
(* only after the backup took its content.                                 *)
THEOREM BackupHolds == Spec => []BackupIsPrevious
<1>1. Inv => BackupIsPrevious
  BY DEF Inv
<1> QED
  BY <1>1, InvHolds, PTL

(* Once NewMulti made its first update there is an active administrator in *)
(* what readers see.                                                       *)
THEOREM AdminIsServed == Spec => []ServesAdmin
<1>1. Inv => ServesAdmin
  BY DEF Inv
<1> QED
  BY <1>1, InvHolds, PTL

-----------------------------------------------------------------------------
(* The store implements AtomicState.                                        *)

(* Every step of the store is a step of AtomicState or leaves all it sees  *)
(* unchanged: whole updates, one at a time, kept before they are seen, and *)
(* a process that dies finds all it answered.                              *)
THEOREM StoreIsAtomic == Spec => StateSpec
<1>1. Init => Atomic!Init
  BY DEF Init, Atomic!Init, NoFile
<1>2. Inv /\ [Next]_vars => [Atomic!Next]_Atomic!vars
  <2> SUFFICES ASSUME Inv, [Next]_vars PROVE [Atomic!Next]_Atomic!vars
    OBVIOUS
  <2>1. ASSUME NEW w \in Writer, UpdateStep(w) PROVE [Atomic!Next]_Atomic!vars
    <3>1. CASE Begins(w) \/ Creates(w) \/ Writes(w) \/ Syncs(w)
      BY <3>1 DEF Begins, Creates, Writes, Syncs, Atomic!vars, memVars, diskVars
    <3>2. CASE Renames(w)
      <4>1. Busy(w) /\ At(w, "rename")
        BY <3>2 DEF Renames, At, Busy
      <4>2. /\ \A v \in Writer : v # w => op[v].pc = "idle"
            /\ phase # "down" /\ op[w].next \in Wanted(cur)
        BY <4>1, OthersIdle
      <4>3. cur = dir.main.doc
        BY <4>1, <4>2 DEF Inv, MemoryIsFile, At
      <4>4. UNCHANGED <<phase, cur, settled>>
        BY <3>2 DEF Renames, memVars
      <4>5. CASE op[w].file = "bak"
        <5>1. dir'.main = dir.main
          BY <3>2, <4>5 DEF Renames, Inv, StoreTypeOK, Directory
        <5> QED
          BY <4>4, <5>1 DEF Atomic!vars
      <4>6. CASE op[w].file = "main"
        <5>1. dir'.main.doc = op[w].next
          <6>1. tmp["main"] = [kind |-> "synced", doc |-> op[w].next]
            BY <4>1, <4>6 DEF Inv, TemporaryFile, Written, Content
          <6>2. dir' = [main |-> tmp["main"], bak |-> dir.bak, before |-> dir.main]
            BY <3>2, <4>6 DEF Renames
          <6> QED
            BY <6>1, <6>2
        <5>2. op[w].next \in Changes(cur)
          BY <4>2, WantedKeeps DEF Inv, StoreTypeOK, Recoverable
        <5> QED
          BY <4>2, <4>3, <4>4, <5>1, <5>2 DEF Atomic!Next, Atomic!Keep
      <4> QED
        BY <4>5, <4>6 DEF Inv, StoreTypeOK, Op, Files
    <3>3. CASE Publishes(w)
      <4>1. Busy(w) /\ At(w, "publish")
        BY <3>3 DEF Publishes, At, Busy
      <4>2. phase # "down" /\ dir.main.doc = op[w].next
        BY <4>1, OthersIdle DEF Inv, MemoryIsFile
      <4>3. /\ cur' = dir.main.doc /\ phase' # "down"
            /\ dir' = dir /\ settled' = settled
        BY <3>3, <4>2 DEF Publishes, NextPhase, diskVars
      <4> QED
        BY <4>2, <4>3 DEF Atomic!Next, Atomic!Answer
    <3>4. CASE Fails(w)
      <4>1. phase # "down"
        BY <3>4, OthersIdle DEF Fails, Busy
      <4>2. phase' \in {phase, "down"} /\ UNCHANGED <<cur, dir, settled>>
        BY <3>4 DEF Fails, diskVars
      <4> QED
        BY <4>1, <4>2 DEF Atomic!Next, Atomic!Die, Atomic!vars
    <3> QED
      BY <2>1, <3>1, <3>2, <3>3, <3>4 DEF UpdateStep
  <2>2. CASE Opens
    BY <2>2 DEF Opens, Atomic!Next, Atomic!Start, diskVars
  <2>3. CASE SkipsImport
    <3>1. phase # "down" /\ phase' # "down" /\ UNCHANGED <<cur, dir, settled>>
      BY <2>3 DEF SkipsImport, NextPhase, diskVars
    <3> QED
      BY <3>1 DEF Atomic!vars
  <2>4. CASE Settles
    BY <2>4 DEF Settles, Atomic!Next, Atomic!Settle, memVars
  <2>5. CASE Dies
    BY <2>5 DEF Dies, Ends, Atomic!Next, Atomic!Die, diskVars
  <2>6. CASE LosesPower
    <3>1. dir' = settled /\ settled' = settled /\ phase' = "down" /\ cur' = cur
      BY <2>6, LosesPowerIsClean DEF LosesPower, Ends
    <3> QED
      BY <3>1 DEF Atomic!Next, Atomic!LosePower
  <2>7. CASE UNCHANGED vars
    BY <2>7 DEF vars, memVars, diskVars, Atomic!vars
  <2> QED
    BY <2>1, <2>2, <2>3, <2>4, <2>5, <2>6, <2>7 DEF Next
<1> QED
  BY <1>1, <1>2, InvHolds, PTL DEF Spec, StateSpec, Atomic!Spec
=============================================================================
