---------------------------- MODULE MountRegistry ----------------------------
(***************************************************************************)
(* The repositories of a multi-user server: the registry in the store, the *)
(* mounts of internal/workspace and the vault services behind them.        *)
(*                                                                         *)
(* Administrators add, connect, replace and remove repositories, each      *)
(* request in a goroutine of its own and several at a time.  Bringing a    *)
(* repository up is an attempt in the background: it clones if needed,     *)
(* opens the vault (which takes a file lock), and publishes the service in *)
(* its mount unless it was replaced meanwhile.  Only single accesses to    *)
(* the map of mounts and single updates of the store are atomic.           *)
(***************************************************************************)
EXTENDS Naturals, Sequences, FiniteSets

CONSTANTS
  Repo,        \* repository ids, each given out once
  Alias,       \* aliases
  AliasOf,     \* the alias each repository is registered under
  Admin,       \* administrators' requests that may run at the same time
  MaxOps,      \* bound: operations of administrators
  MaxBoots     \* bound: starts of the process

ASSUME RepoAssumption == Repo # {} /\ AliasOf \in [Repo -> Alias]
ASSUME MountBoundAssumption == MaxOps \in Nat /\ MaxBoots \in Nat

NoAttempt == 0

VARIABLES
  (* on disk *)
  registry,    \* State.Repos of the store
  keyPending,  \* registered repositories whose generated key awaits confirmation
  ids,         \* ids given out so far
  clone,       \* the local clone: none, partial (an interrupted git clone), whole
  unpushed,    \* clones that hold commits the remote lacks
  keyFiles,    \* decrypted credentials in the key directory
  (* in the process *)
  phase,       \* booting, running, closing, down
  mounts,      \* Workspace.mounts: the attempt mounted for each repository
  attempts,    \* every mount object made since the process started
  op,          \* the request each administrator has in progress
  client,      \* the service a client's write was routed to
  (* bounds *)
  ops, boots

diskVars    == <<registry, keyPending, ids, clone, unpushed, keyFiles>>
processVars == <<phase, mounts, attempts, op, client>>
boundVars   == <<ops, boots>>
vars        == <<diskVars, processVars, boundVars>>

(* An attempt: the repository it serves, its next step, whether it was      *)
(* cancelled, its service, and whether the goroutine that Start launches    *)
(* for the first pull has yet to run.  "done" is the closed channel.        *)
Attempt == [repo : Repo,
            step : {"credential", "find", "make", "clone", "open", "publish", "start", "done"},
            cancelled : BOOLEAN,
            svc : {"none", "open", "closed"},
            firstPull : BOOLEAN]

Op == [kind : {"none", "add", "connect", "replace", "remove"},
       pc : {"idle", "update", "start", "push", "check", "take", "wait", "keys", "look",
             "delete", "erase"},
       repo : Repo,
       flag : BOOLEAN,                 \* KeyPending, or the administrator's consent to discard
       attempt : Nat]

IsOpen(n) == attempts[n].svc = "open"

\* Has the attempt put its service into the mount, for others to see?
Published(n) == attempts[n].svc # "none" /\ attempts[n].step \in {"start", "done"}

\* The file lock of the index directory is held from OpenWith to Close.
Locked(r) == \E n \in DOMAIN attempts : attempts[n].repo = r /\ IsOpen(n)

Stopping == phase \in {"closing", "down"}
CutShort(n) == attempts[n].cancelled \/ Stopping

NewAttempt(r, pending) ==
  [repo |-> r, step |-> IF pending THEN "done" ELSE "credential", cancelled |-> FALSE, svc |-> "none",
   firstPull |-> FALSE]

NoOp == [kind |-> "none", pc |-> "idle", repo |-> CHOOSE r \in Repo : TRUE, flag |-> FALSE,
         attempt |-> NoAttempt]

Init ==
  /\ registry = {} /\ keyPending = {} /\ ids = {}
  /\ clone = [r \in Repo |-> "none"]
  /\ unpushed = {} /\ keyFiles = {}
  /\ phase = "running"
  /\ mounts = [r \in Repo |-> NoAttempt]
  /\ attempts = <<>>
  /\ op = [a \in Admin |-> NoOp]
  /\ client = NoAttempt
  /\ ops = 0 /\ boots = 1

-----------------------------------------------------------------------------
(* A start attempt: the goroutine of start, with open.                      *)

Advance(n, step) == attempts' = [attempts EXCEPT ![n].step = step]
Fail(n) == Advance(n, "publish")

\* gitOptions writes a decrypted key.  One that cannot be written is fatal, one
\* that cannot be decrypted only when there is no clone to serve.
ReadsCredential(n) ==
  LET r == attempts[n].repo
  IN /\ attempts[n].step = "credential"
     /\ \/ /\ keyFiles' \in {keyFiles} \cup (IF phase = "down" THEN {} ELSE {keyFiles \cup {r}})
           /\ Advance(n, "find")
        \/ Fail(n) /\ UNCHANGED keyFiles
     /\ UNCHANGED <<registry, keyPending, ids, clone, unpushed, phase, mounts, op, client, boundVars>>

\* What has a .git is taken for a clone.
FindsClone(n) ==
  /\ attempts[n].step = "find"
  /\ Advance(n, IF clone[attempts[n].repo] = "none" THEN "make" ELSE "open")
  /\ UNCHANGED <<diskVars, phase, mounts, op, client, boundVars>>

\* What has none is removed, whatever it has become since, and git clone begins;
\* it fails over what another attempt puts there meanwhile.
MakesClone(n) ==
  LET r == attempts[n].repo
  IN /\ attempts[n].step = "make"
     /\ \/ Advance(n, "clone") /\ clone' = [clone EXCEPT ![r] = "partial"]
        \/ Fail(n) /\ clone' = [clone EXCEPT ![r] = IF @ = "none" THEN @ ELSE "partial"]
     /\ unpushed' = unpushed \ {r}
     /\ UNCHANGED <<registry, keyPending, ids, keyFiles, phase, mounts, op, client, boundVars>>

\* git clone cleans up after itself when it fails, but not when it is killed.
Clones(n) ==
  LET r == attempts[n].repo
      Left(what) == clone' = [clone EXCEPT ![r] = what]
  IN /\ attempts[n].step = "clone"
     /\ \/ ~CutShort(n) /\ clone[r] = "partial" /\ Advance(n, "open") /\ Left("whole")
        \/ ~CutShort(n) /\ Fail(n) /\ Left("none")
        \/ /\ CutShort(n) /\ Fail(n)
           /\ \E what \in {"none", "partial", "whole"} : (clone[r] = "partial" \/ clone[r] = what) /\ Left(what)
     /\ UNCHANGED <<registry, keyPending, ids, unpushed, keyFiles, phase, mounts, op, client, boundVars>>

\* OpenWith refuses a vault on another branch or with a broken index, and one
\* whose lock is held; an unfinished clone may pass its checks.
Opens_NoLock(n) ==
  /\ attempts[n].step = "open"
  /\ \/ /\ ~CutShort(n) /\ clone[attempts[n].repo] # "none"
        /\ attempts' = [attempts EXCEPT ![n].step = "publish", ![n].svc = "open"]
     \/ Fail(n)
  /\ UNCHANGED <<diskVars, phase, mounts, op, client, boundVars>>
Opens(n) ==
  LET r == attempts[n].repo
  IN /\ attempts[n].step = "open"
     /\ \/ /\ ~CutShort(n) /\ clone[r] # "none" /\ ~Locked(r)
           /\ attempts' = [attempts EXCEPT ![n].step = "publish", ![n].svc = "open"]
        \/ Fail(n)
     /\ UNCHANGED <<diskVars, phase, mounts, op, client, boundVars>>

\* Removed or restarted while the attempt was running: it closes its service.
Replaced(n) == mounts[attempts[n].repo] # n \/ Stopping

Publishes_Forgets(n) ==
  /\ attempts[n].step = "publish" /\ ~Replaced(n)
  /\ Advance(n, IF IsOpen(n) THEN "start" ELSE "done")
  /\ UNCHANGED <<diskVars, phase, mounts, op, client, boundVars>>
Publishes(n) ==
  /\ attempts[n].step = "publish"
  /\ attempts' = [attempts EXCEPT
       ![n].step = IF IsOpen(n) /\ ~Replaced(n) THEN "start" ELSE "done",
       ![n].svc  = IF Replaced(n) THEN "none" ELSE @]
  /\ UNCHANGED <<diskVars, phase, mounts, op, client, boundVars>>

\* svc.Start, which leaves the first pull to a goroutine nobody waits for.
Starts(n) ==
  /\ attempts[n].step = "start"
  /\ attempts' = [attempts EXCEPT ![n].step = "done", ![n].firstPull = TRUE]
  /\ UNCHANGED <<diskVars, phase, mounts, op, client, boundVars>>

\* The goroutine of the first pull, which pulls and asks for a push; whether the
\* service was closed meanwhile it does not look at.
PullsFirst(n) ==
  /\ attempts[n].firstPull
  /\ attempts' = [attempts EXCEPT ![n].firstPull = FALSE]
  /\ UNCHANGED <<diskVars, phase, mounts, op, client, boundVars>>

\* pushLoop of an open service.
Pushes(n) ==
  /\ IsOpen(n) /\ attempts[n].step = "done"
  /\ attempts[n].repo \in unpushed
  /\ unpushed' = unpushed \ {attempts[n].repo}
  /\ UNCHANGED <<registry, keyPending, ids, clone, keyFiles, processVars, boundVars>>

AttemptStep(n) ==
  \/ ReadsCredential(n) \/ FindsClone(n) \/ MakesClone(n) \/ Clones(n) \/ Opens(n) \/ Publishes(n) \/ Starts(n)
  \/ PullsFirst(n)

-----------------------------------------------------------------------------
(* start: a new mount object takes the place of whatever is in the map.     *)

Mounted(r) == mounts[r] # NoAttempt

MountsNew(r, pending) ==
  /\ attempts' = Append(attempts, NewAttempt(r, pending))
  /\ mounts' = [mounts EXCEPT ![r] = Len(attempts) + 1]

-----------------------------------------------------------------------------
(* The requests of the administrators.                                      *)

Then(a, pc) == op' = [op EXCEPT ![a].pc = pc]
Return(a)   == op' = [op EXCEPT ![a] = NoOp]

Begins(a, kind, pc, r, flag) ==
  /\ phase = "running" /\ op[a].pc = "idle" /\ ops < MaxOps
  /\ ops' = ops + 1
  /\ op' = [op EXCEPT ![a] = [kind |-> kind, pc |-> pc, repo |-> r, flag |-> flag,
                             attempt |-> NoAttempt]]

\* mountByAlias: some mount of an alias.
MountsOf(alias) == {mounts[r] : r \in {q \in Repo : Mounted(q) /\ AliasOf[q] = alias}}

\* AddRepo registers the repository, then starts it.
Adds(a) ==
  /\ \E r \in Repo \ ids, pending \in BOOLEAN :
       /\ \A q \in registry : AliasOf[q] # AliasOf[r]
       /\ Begins(a, "add", "start", r, pending)
       /\ registry' = registry \cup {r}
       /\ keyPending' = IF pending THEN keyPending \cup {r} ELSE keyPending
       /\ ids' = ids \cup {r}
  /\ UNCHANGED <<clone, unpushed, keyFiles, phase, mounts, attempts, client, boots>>

Replaces(a) ==
  /\ \E r \in registry, pending \in BOOLEAN : Begins(a, "replace", "update", r, pending)
  /\ UNCHANGED <<diskVars, phase, mounts, attempts, client, boots>>

\* Connect updates the store only when the key was pending.
Connects(a) ==
  /\ \E r \in registry :
       Begins(a, "connect", IF r \in keyPending THEN "update" ELSE "take", r, FALSE)
  /\ UNCHANGED <<diskVars, phase, mounts, attempts, client, boots>>

\* ReplaceCredential refuses a repository that is gone; Connect goes on.
Updates(a) ==
  LET r == op[a].repo
  IN /\ op[a].pc = "update"
     /\ \/ /\ r \in registry \/ op[a].kind = "connect"
           /\ keyPending' = IF op[a].flag /\ r \in registry THEN keyPending \cup {r} ELSE keyPending \ {r}
           /\ Then(a, "take")
        \/ Return(a) /\ UNCHANGED keyPending      \* gone, or the store failed
     /\ UNCHANGED <<registry, ids, clone, unpushed, keyFiles, phase, mounts, attempts, client, boundVars>>

Removes(a) ==
  /\ \E r \in registry, discard \in BOOLEAN : Begins(a, "remove", "push", r, discard)
  /\ UNCHANGED <<diskVars, phase, mounts, attempts, client, boots>>

\* RemoveRepo pushes through the mount of the alias, when that has a service.
PushesNow(a) ==
  LET found == MountsOf(AliasOf[op[a].repo])
  IN /\ op[a].pc = "push"
     /\ \/ /\ found = {} \/ \E n \in found : ~Published(n)
           /\ Then(a, "take")
           /\ UNCHANGED unpushed
        \/ \E n \in found :
             /\ Published(n)
             /\ op' = [op EXCEPT ![a].pc = "check", ![a].attempt = n]
             /\ unpushed' \in {unpushed, unpushed \ {attempts[n].repo}}
     /\ UNCHANGED <<registry, keyPending, ids, clone, keyFiles, phase, mounts, attempts, client, boundVars>>

\* A failing count of the unpushed commits -- a cancelled request -- counts as none.
ChecksUnpushed(a) ==
  /\ op[a].pc = "check"
  /\ \/ attempts[op[a].attempt].repo \in unpushed /\ ~op[a].flag /\ Return(a)
     \/ op' = [op EXCEPT ![a].pc = "take", ![a].attempt = NoAttempt]
  /\ UNCHANGED <<diskVars, phase, mounts, attempts, client, boundVars>>

\* stop: take the mount out of the map and cancel its attempt ...
TakesMount_Leaves(a) ==
  LET n == mounts[op[a].repo]
  IN /\ op[a].pc = "take"
     /\ IF n = NoAttempt
        THEN Then(a, IF op[a].kind = "remove" THEN "delete" ELSE "look") /\ UNCHANGED attempts
        ELSE /\ op' = [op EXCEPT ![a].pc = "wait", ![a].attempt = n]
             /\ attempts' = [attempts EXCEPT ![n].cancelled = TRUE]
     /\ UNCHANGED <<diskVars, phase, mounts, client, boundVars>>
TakesMount(a) ==
  LET r == op[a].repo
      n == mounts[r]
  IN /\ op[a].pc = "take"
     /\ mounts' = [mounts EXCEPT ![r] = NoAttempt]
     /\ IF n = NoAttempt
        THEN Then(a, IF op[a].kind = "remove" THEN "delete" ELSE "look") /\ UNCHANGED attempts
        ELSE /\ op' = [op EXCEPT ![a].pc = "wait", ![a].attempt = n]
             /\ attempts' = [attempts EXCEPT ![n].cancelled = TRUE]
     /\ UNCHANGED <<diskVars, phase, client, boundVars>>

\* ... wait for it to end, close its service ...
ClosesService_Leaves(a) ==
  /\ op[a].pc = "wait" /\ attempts[op[a].attempt].step = "done"
  /\ op' = [op EXCEPT ![a].pc = "keys", ![a].attempt = NoAttempt]
  /\ UNCHANGED <<diskVars, phase, mounts, attempts, client, boundVars>>
ClosesService_NoWait(a) ==
  LET n == op[a].attempt
  IN /\ op[a].pc = "wait"
     /\ attempts' = [attempts EXCEPT ![n].svc = IF @ = "open" THEN "closed" ELSE @]
     /\ op' = [op EXCEPT ![a].pc = "keys", ![a].attempt = NoAttempt]
     /\ UNCHANGED <<diskVars, phase, mounts, client, boundVars>>
ClosesService(a) ==
  LET n == op[a].attempt
  IN /\ op[a].pc = "wait" /\ attempts[n].step = "done"
     /\ attempts' = [attempts EXCEPT ![n].svc = IF @ = "open" THEN "closed" ELSE @]
     /\ op' = [op EXCEPT ![a].pc = "keys", ![a].attempt = NoAttempt]
     /\ UNCHANGED <<diskVars, phase, mounts, client, boundVars>>

\* ... and remove its decrypted key.
RemovesKey(a) ==
  /\ op[a].pc = "keys"
  /\ keyFiles' = keyFiles \ {op[a].repo}
  /\ Then(a, IF op[a].kind = "remove" THEN "delete" ELSE "look")
  /\ UNCHANGED <<registry, keyPending, ids, clone, unpushed, phase, mounts, attempts, client, boundVars>>

\* restart reads the store again, and starts the repository if it is still there.
Looks(a) ==
  LET r == op[a].repo
  IN /\ op[a].pc = "look"
     /\ IF r \in registry
        THEN op' = [op EXCEPT ![a].pc = "start", ![a].flag = r \in keyPending]
        ELSE Return(a)
     /\ UNCHANGED <<diskVars, phase, mounts, attempts, client, boundVars>>

StartsMount(a) ==
  /\ op[a].pc = "start"
  /\ MountsNew(op[a].repo, op[a].flag)
  /\ Return(a)
  /\ UNCHANGED <<diskVars, phase, client, boundVars>>

\* The repository is forgotten, then its clone deleted; the store may fail.
Deletes(a) ==
  LET r == op[a].repo
  IN /\ op[a].pc = "delete"
     /\ \/ /\ r \in registry
           /\ registry' = registry \ {r} /\ keyPending' = keyPending \ {r}
           /\ Then(a, "erase")
        \/ Return(a) /\ UNCHANGED <<registry, keyPending>>
     /\ UNCHANGED <<ids, clone, unpushed, keyFiles, phase, mounts, attempts, client, boundVars>>

Erases(a) ==
  LET r == op[a].repo
  IN /\ op[a].pc = "erase"
     /\ clone' = [clone EXCEPT ![r] = "none"]
     /\ unpushed' = unpushed \ {r}
     /\ Return(a)
     /\ UNCHANGED <<registry, keyPending, ids, keyFiles, phase, mounts, attempts, client, boundVars>>

OpBegins(a) == Adds(a) \/ Replaces(a) \/ Connects(a) \/ Removes(a)

OpStep(a) ==
  \/ Updates(a) \/ PushesNow(a) \/ ChecksUnpushed(a)
  \/ TakesMount(a) \/ ClosesService(a) \/ RemovesKey(a) \/ Looks(a) \/ StartsMount(a)
  \/ Deletes(a) \/ Erases(a)

-----------------------------------------------------------------------------
(* A client's write: it is routed to a service, and commits there later.    *)

Routes ==
  /\ phase = "running" /\ client = NoAttempt
  /\ \E r \in Repo : Mounted(r) /\ Published(mounts[r]) /\ client' = mounts[r]
  /\ UNCHANGED <<diskVars, phase, mounts, attempts, op, boundVars>>

Writes ==
  /\ client # NoAttempt
  /\ LET r == attempts[client].repo
     IN unpushed' \in {unpushed} \cup (IF clone[r] = "whole" THEN {unpushed \cup {r}} ELSE {})
  /\ client' = NoAttempt
  /\ UNCHANGED <<registry, keyPending, ids, clone, keyFiles, phase, mounts, attempts, op, boundVars>>

-----------------------------------------------------------------------------
(* The process.                                                             *)

\* Close cancels the context; requests still running go on.
CloseBegins ==
  /\ phase = "running"
  /\ phase' = "closing"
  /\ UNCHANGED <<diskVars, mounts, attempts, op, client, boundVars>>

\* Every attempt has ended: close what is mounted and release the data directory.
AllEnded_NotAwaited == TRUE
AllEnded == \A n \in DOMAIN attempts : attempts[n].step = "done"

CloseEnds ==
  /\ phase = "closing" /\ AllEnded
  /\ attempts' = [n \in DOMAIN attempts |->
       IF mounts[attempts[n].repo] = n /\ Published(n) THEN [attempts[n] EXCEPT !.svc = "closed"]
       ELSE attempts[n]]
  /\ mounts' = [r \in Repo |-> NoAttempt]
  /\ keyFiles' = {}
  /\ phase' = "down"
  /\ UNCHANGED <<registry, keyPending, ids, clone, unpushed, op, client, boundVars>>

\* The next process, after a shutdown or a crash; it removes the old keys.
Boots ==
  /\ boots < MaxBoots
  /\ boots' = boots + 1
  /\ phase' = "booting"
  /\ mounts' = [r \in Repo |-> NoAttempt]
  /\ attempts' = <<>>
  /\ op' = [a \in Admin |-> NoOp]
  /\ client' = NoAttempt
  /\ keyFiles' = {}
  /\ UNCHANGED <<registry, keyPending, ids, clone, unpushed, ops>>

\* NewMulti starts every registered repository before it returns.
BootStarts ==
  /\ phase = "booting"
  /\ \E r \in registry : ~Mounted(r) /\ MountsNew(r, r \in keyPending)
  /\ UNCHANGED <<diskVars, phase, op, client, boundVars>>

BootEnds ==
  /\ phase = "booting" /\ \A r \in registry : Mounted(r)
  /\ phase' = "running"
  /\ UNCHANGED <<diskVars, mounts, attempts, op, client, boundVars>>

Next ==
  \/ \E n \in DOMAIN attempts : AttemptStep(n) \/ Pushes(n)
  \/ \E a \in Admin : OpBegins(a) \/ OpStep(a)
  \/ Routes \/ Writes
  \/ CloseBegins \/ CloseEnds \/ Boots \/ BootStarts \/ BootEnds

Spec == Init /\ [][Next]_vars

\* Goroutines run on, a clone ends or is killed, requests run on, Close runs on.
Fairness ==
  /\ WF_vars(\E n \in DOMAIN attempts : AttemptStep(n))
  /\ \A a \in Admin : WF_vars(OpStep(a))
  /\ WF_vars(CloseEnds) /\ WF_vars(BootStarts) /\ WF_vars(BootEnds)

FairSpec == Spec /\ Fairness

-----------------------------------------------------------------------------
DiskTypeOK ==
  /\ registry \in SUBSET Repo /\ keyPending \in SUBSET registry
  /\ registry \subseteq ids /\ ids \in SUBSET Repo
  /\ clone \in [Repo -> {"none", "partial", "whole"}]
  /\ unpushed \in SUBSET Repo /\ keyFiles \in SUBSET Repo

ProcessTypeOK ==
  /\ phase \in {"booting", "running", "closing", "down"}
  /\ attempts \in Seq(Attempt)
  /\ mounts \in [Repo -> {NoAttempt} \cup DOMAIN attempts]
  /\ op \in [Admin -> Op]
  /\ \A a \in Admin : op[a].attempt \in {NoAttempt} \cup DOMAIN attempts
  /\ client \in {NoAttempt} \cup DOMAIN attempts

\* An attempt has a service from opening the vault on, and nobody closes that
\* service before the attempt has ended: it would start a closed one.
Fits(attempt) ==
  /\ attempt.svc # "none" => attempt.step \in {"publish", "start", "done"}
  /\ attempt.svc = "closed" => attempt.step = "done"

AttemptsFit == \A n \in DOMAIN attempts : Fits(attempts[n])

(* Every variable keeps its type; mounts, requests and clients refer to    *)
(* attempts that exist; and whoever closes a service -- a removal, a       *)
(* restart, the shutdown -- has waited for its attempt, however far along. *)
TypeOK ==
  /\ DiskTypeOK /\ ProcessTypeOK /\ AttemptsFit
  /\ ops \in 0..MaxOps /\ boots \in Nat

(* What a client can be routed to is open, and is a service of that        *)
(* repository: a mount is taken away before its service is closed, and a   *)
(* late attempt never publishes a service into a mount it has lost.        *)
ServingIsOpen ==
  \A r \in Repo : Mounted(r) =>
    LET n == mounts[r]
    IN /\ attempts[n].repo = r
       /\ Published(n) => IsOpen(n)

(* At most one open service works on a clone and its index, however many   *)
(* attempts run: the lock is held from before the service is published     *)
(* until it is closed.                                                     *)
OneServicePerClone ==
  \A m, n \in DOMAIN attempts :
    attempts[m].repo = attempts[n].repo /\ IsOpen(m) /\ IsOpen(n) => m = n

\* No request and no attempt is under way.
AtRest ==
  /\ phase = "running"
  /\ \A a \in Admin : op[a].pc = "idle"
  /\ AllEnded

(* When the dust settles, every open service can be reached through its    *)
(* mount, and a decrypted key is kept only for a mounted repository.       *)
NothingLeaked ==
  AtRest => /\ \A n \in DOMAIN attempts : IsOpen(n) => mounts[attempts[n].repo] = n
            /\ \A r \in keyFiles : Mounted(r)

(* When the dust settles, what is mounted is registered: a removed         *)
(* repository is not served.                                               *)
RemovedIsNotServed == AtRest => \A r \in Repo : Mounted(r) => r \in registry

(* Once the data directory is released, the only services still open are   *)
(* those a request took out of their mounts and is about to close.         *)
DownHoldsNothing ==
  phase = "down" => \A n \in DOMAIN attempts : IsOpen(n) => \E a \in Admin : op[a].attempt = n

(* Every request of an administrator returns.                              *)
OperationsReturn == \A a \in Admin : op[a].pc # "idle" ~> op[a].pc = "idle"

(* Close returns, whatever is starting or being cloned.                    *)
CloseReturns == phase = "closing" ~> phase # "closing"
=============================================================================
