------------------------------ MODULE StateStore ------------------------------
(***************************************************************************)
(* internal/store/store.go: the state file of a multi-user server, its     *)
(* backup and the copy in memory.                                          *)
(*                                                                         *)
(* Update prepares a new document from the one in memory, writes the       *)
(* serialised old one to the backup and the new one to the state file,     *)
(* each through a temporary file that is synced and renamed, and only then *)
(* replaces the document in memory.  Any of these steps may fail; between  *)
(* them the process may be killed, or the machine may lose power: what was *)
(* not synced may then be torn, and the renames that the file system has   *)
(* not settled are undone, the latest first.                               *)
(***************************************************************************)
EXTENDS AccountModel

CONSTANTS
  Writer,       \* requests that may call Update at the same time
  MaxUpdates,   \* bound: calls of Update
  MaxStops      \* bound: ends of the process

ASSUME WriterAssumption == Writer # {}
ASSUME StoreBoundAssumption == MaxUpdates \in Nat /\ MaxStops \in Nat

Files == {"bak", "main"}

VARIABLES
  phase,     \* down, or: admin, clients, import (NewMulti), serving
  cur,       \* Store.cur, the document readers see
  raw,       \* is Store.raw there?  It is nil until a file was read or written
  op,        \* the Update each writer has in progress
  tmp,       \* the temporary files
  dir,       \* the files themselves, as a process sees them ...
  settled,   \* ... and as they are after a loss of power
  updates, stops

memVars   == <<phase, cur, raw>>
diskVars  == <<dir, settled>>
boundVars == <<updates, stops>>
vars      == <<memVars, op, tmp, diskVars, boundVars>>

(* "torn" is a file without its whole content, "written" one whose content *)
(* was not synced.                                                         *)
File == [kind : {"none", "torn", "written", "synced"}, doc : State]
NoFile   == [kind |-> "none", doc |-> emptyState]
TornFile == [kind |-> "torn", doc |-> emptyState]

Op == [pc : {"idle", "create", "write", "sync", "rename", "publish"}, file : Files, next : State]
Idle == [pc |-> "idle", file |-> "main", next |-> emptyState]

(* "before" is what the state file held before, and is nothing in the code. *)
Directory == [main : File, bak : File, before : File]

Init ==
  /\ phase = "down"
  /\ cur = emptyState /\ raw = FALSE
  /\ op = [w \in Writer |-> Idle]
  /\ tmp = [f \in Files |-> NoFile]
  /\ dir = [main |-> NoFile, bak |-> NoFile, before |-> NoFile]
  /\ settled = dir
  /\ updates = 0 /\ stops = 0

-----------------------------------------------------------------------------
(* The start of a process: NewMulti.                                        *)

\* Open takes a missing file for an empty document and refuses a damaged one.
Opens ==
  /\ phase = "down" /\ dir.main.kind # "torn"
  /\ cur' = dir.main.doc
  /\ raw' = (dir.main.kind # "none")
  /\ phase' = "admin"
  /\ UNCHANGED <<op, tmp, diskVars, boundVars>>

Unlocked == \A w \in Writer : op[w].pc = "idle"

NextPhase == CASE phase = "admin" -> "clients" [] phase = "clients" -> "import" [] OTHER -> "serving"

\* The clients were imported before; there is no vault to import.
SkipsImport ==
  /\ phase = "import" \/ (phase = "clients" /\ cur.migrated)
  /\ Unlocked
  /\ phase' = NextPhase
  /\ UNCHANGED <<cur, raw, op, tmp, diskVars, boundVars>>

-----------------------------------------------------------------------------
(* Update, under the store's lock from its first step to its last.          *)

Wanted(s) ==
  CASE phase = "admin"   -> AdminChanges(s)
    [] phase = "clients" -> ImportClients(s)
    [] phase = "import"  -> IF Imports(s) THEN ImportChanges(s) ELSE {}
    [] phase = "serving" -> {s} \cup PanelChanges(s)
    [] OTHER             -> {}

\* The backup is skipped while there is nothing to back up.
Begins_NoBackup(w) ==
  /\ Unlocked /\ updates < MaxUpdates
  /\ updates' = updates + 1
  /\ \E s \in Wanted(cur) : op' = [op EXCEPT ![w] = [pc |-> "create", file |-> "main", next |-> s]]
  /\ UNCHANGED <<memVars, tmp, diskVars, stops>>
Begins(w) ==
  /\ Unlocked /\ updates < MaxUpdates
  /\ updates' = updates + 1
  /\ \E s \in Wanted(cur) :
       op' = [op EXCEPT ![w] = [pc |-> "create", file |-> IF raw THEN "bak" ELSE "main", next |-> s]]
  /\ UNCHANGED <<memVars, tmp, diskVars, stops>>

At(w, pc)   == op[w].pc = pc
Then(w, pc) == op' = [op EXCEPT ![w].pc = pc]

\* writeFileAtomic: create or truncate the temporary file, ...
Creates(w) ==
  /\ At(w, "create") /\ Then(w, "write")
  /\ tmp' = [tmp EXCEPT ![op[w].file] = TornFile]
  /\ UNCHANGED <<memVars, diskVars, boundVars>>

\* ... write the old document to the backup, the new one to the state file, ...
Writes(w) ==
  LET f == op[w].file
  IN /\ At(w, "write") /\ Then(w, "sync")
     /\ tmp' = [tmp EXCEPT ![f] = [kind |-> "written",
                                   doc  |-> IF f = "bak" THEN cur ELSE op[w].next]]
     /\ UNCHANGED <<memVars, diskVars, boundVars>>

\* ... sync it ...
Syncs_Not(w) ==
  /\ At(w, "sync") /\ Then(w, "rename")
  /\ UNCHANGED <<memVars, tmp, diskVars, boundVars>>
Syncs(w) ==
  /\ At(w, "sync") /\ Then(w, "rename")
  /\ tmp' = [tmp EXCEPT ![op[w].file].kind = "synced"]
  /\ UNCHANGED <<memVars, diskVars, boundVars>>

\* ... and put it in the file's place.
Renames(w) ==
  LET f == op[w].file
  IN /\ At(w, "rename")
     /\ tmp' = [tmp EXCEPT ![f] = NoFile]
     /\ IF f = "bak"
        THEN /\ dir' = [dir EXCEPT !.bak = tmp[f]]
             /\ op' = [op EXCEPT ![w] = [pc |-> "create", file |-> "main", next |-> op[w].next]]
        ELSE /\ dir' = [main |-> tmp[f], bak |-> dir.bak, before |-> dir.main]
             /\ Then(w, "publish")
     /\ UNCHANGED <<memVars, settled, boundVars>>

\* The document in memory is replaced last.
Publishes(w) ==
  /\ At(w, "publish")
  /\ cur' = op[w].next /\ raw' = TRUE
  /\ phase' = NextPhase
  /\ op' = [op EXCEPT ![w] = Idle]
  /\ UNCHANGED <<tmp, diskVars, boundVars>>

\* A step of the write fails: nothing changed; a server that was starting ends.
Fails_Publishes(w) ==
  /\ op[w].pc \in {"create", "write", "sync", "rename"}
  /\ op' = [op EXCEPT ![w] = Idle]
  /\ cur' = op[w].next /\ raw' = TRUE
  /\ phase' = IF phase = "serving" THEN phase ELSE "down"
  /\ UNCHANGED <<tmp, diskVars, boundVars>>
Fails(w) ==
  /\ op[w].pc \in {"create", "write", "sync", "rename"}
  /\ op' = [op EXCEPT ![w] = Idle]
  /\ phase' = IF phase = "serving" THEN phase ELSE "down"
  /\ UNCHANGED <<cur, raw, tmp, diskVars, boundVars>>

UpdateStep(w) ==
  Begins(w) \/ Creates(w) \/ Writes(w) \/ Syncs(w) \/ Renames(w) \/ Publishes(w) \/ Fails(w)

-----------------------------------------------------------------------------
(* The machine.                                                             *)

\* The file system writes its directory out.
Settles ==
  /\ settled' = dir
  /\ UNCHANGED <<memVars, op, tmp, dir, boundVars>>

Ends ==
  /\ stops < MaxStops
  /\ stops' = stops + 1
  /\ phase' = "down"
  /\ op' = [w \in Writer |-> Idle]
  /\ UNCHANGED <<cur, raw, updates>>

\* The process is killed, or ends: the store has nothing to close.
Dies ==
  /\ phase # "down"
  /\ Ends
  /\ UNCHANGED <<tmp, diskVars>>

Tears(f) == IF f.kind = "written" THEN {f, TornFile} ELSE {f}

LosesPower ==
  /\ Ends
  /\ \E main \in Tears(settled.main), bak \in Tears(settled.bak) :
       dir' = [main |-> main, bak |-> bak, before |-> settled.before]
  /\ settled' = dir'
  /\ tmp' = [f \in Files |-> NoFile]

Next ==
  \/ Opens \/ SkipsImport \/ (\E w \in Writer : UpdateStep(w))
  \/ Settles \/ Dies \/ LosesPower

Spec == Init /\ [][Next]_vars

-----------------------------------------------------------------------------
(* Properties.                                                              *)

StoreTypeOK ==
  /\ phase \in {"down", "admin", "clients", "import", "serving"}
  /\ cur \in State /\ raw \in BOOLEAN
  /\ op \in [Writer -> Op]
  /\ tmp \in [Files -> File]
  /\ dir \in Directory /\ settled \in Directory
  /\ updates \in 0..MaxUpdates /\ stops \in 0..MaxStops

(* What the next process opens, after a kill and after a loss of power, is *)
(* a whole document that satisfies the rules of the model, and so are the  *)
(* backup and what readers see.                                            *)
Whole(f) == f.kind \in {"none", "synced"} /\ Consistent(f.doc)
Recoverable ==
  /\ \A d \in {dir, settled} : Whole(d.main) /\ Whole(d.bak)
  /\ Consistent(cur)

(* "Keeping the previous version as a backup", which the message about a   *)
(* damaged state file points to: once there were two versions of the file  *)
(* the backup holds its content or the one before, at every moment.        *)
BackupIsPrevious ==
  \A d \in {dir, settled} :
    d.before.kind # "none" => /\ d.bak.kind = "synced"
                              /\ d.bak.doc \in {d.main.doc, d.before.doc}

(* From NewMulti's update on, readers see exactly one administrator, and   *)
(* an active one, whatever address the settings name and whatever the      *)
(* panel does.                                                             *)
ServesAdmin == phase \in {"clients", "import", "serving"} => HasAdmin(cur)

(* The store implements AtomicState: whole updates, one at a time, kept    *)
(* before they are seen, and a process that dies finds all it answered.    *)
Atomic == INSTANCE AtomicState WITH
  Empty <- emptyState, Changes <- Changes,
  up <- phase # "down", seen <- cur, kept <- dir.main.doc, settled <- settled.main.doc
StateSpec == Atomic!Spec
=============================================================================
