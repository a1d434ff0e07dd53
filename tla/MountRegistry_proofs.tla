------------------------- MODULE MountRegistry_proofs -------------------------
(***************************************************************************)
(* For any number of repositories, administrators, operations and starts   *)
(* of the process: the state is well typed, a mount never serves a closed  *)
(* service, and a clone never has two open services.  While no two         *)
(* requests on one repository overlap, nothing leaks, only what is         *)
(* registered is served, and a closed workspace holds nothing open.        *)
(***************************************************************************)
EXTENDS MountRegistry, SequenceTheorems, TLAPS

\* An attempt that takes one step stays an attempt; the others do not change.
LEMMA AttemptMoves ==
  ASSUME attempts \in Seq(Attempt), NEW n \in DOMAIN attempts, NEW x \in Attempt,
         attempts' = [attempts EXCEPT ![n] = x]
  PROVE  /\ attempts' \in Seq(Attempt)
         /\ DOMAIN attempts' = DOMAIN attempts
         /\ attempts'[n] = x
         /\ \A m \in DOMAIN attempts : m # n => attempts'[m] = attempts[m]
<1>1. DOMAIN attempts = 1..Len(attempts)
  OBVIOUS
<1>2. attempts' \in Seq(Attempt) /\ Len(attempts') = Len(attempts)
  BY <1>1, ExceptSeq
<1> QED
  BY <1>1, <1>2

LEMMA NewAttemptType ==
  ASSUME NEW r \in Repo, NEW pending \in BOOLEAN
  PROVE  /\ NewAttempt(r, pending) \in Attempt
         /\ NewAttempt(r, pending).repo = r /\ NewAttempt(r, pending).svc = "none"
BY DEF NewAttempt, Attempt

\* A new mount object comes after all the others.
LEMMA MountsNewType ==
  ASSUME attempts \in Seq(Attempt), NEW r \in Repo, NEW pending \in BOOLEAN,
         MountsNew(r, pending)
  PROVE  /\ attempts' \in Seq(Attempt)
         /\ Len(attempts) + 1 \in Nat \ {NoAttempt}
         /\ Len(attempts) + 1 \notin DOMAIN attempts
         /\ DOMAIN attempts' = DOMAIN attempts \cup {Len(attempts) + 1}
         /\ \A m \in DOMAIN attempts : attempts'[m] = attempts[m]
         /\ attempts'[Len(attempts) + 1] = NewAttempt(r, pending)
<1> DEFINE x == NewAttempt(r, pending)
<1>1. x \in Attempt
  BY NewAttemptType
<1>2. attempts' = Append(attempts, x)
  BY DEF MountsNew
<1> HIDE DEF x
<1>3. /\ Append(attempts, x) \in Seq(Attempt)
      /\ Len(Append(attempts, x)) = Len(attempts) + 1
      /\ \A i \in 1..Len(attempts) : Append(attempts, x)[i] = attempts[i]
      /\ Append(attempts, x)[Len(attempts) + 1] = x
  BY <1>1, AppendProperties
<1>4. DOMAIN attempts = 1..Len(attempts) /\ DOMAIN attempts' = 1..(Len(attempts) + 1)
  BY <1>2, <1>3
<1> QED
  BY <1>2, <1>3, <1>4 DEF NoAttempt, x

LEMMA NoOpType == NoOp \in Op /\ NoOp.attempt = NoAttempt /\ NoOp.pc = "idle"
BY RepoAssumption DEF NoOp, Op, NoAttempt

-----------------------------------------------------------------------------
(* Every step, as what it does to the attempts and the mounts.              *)

Stays == attempts' = attempts /\ mounts' = mounts

\* One attempt moves on; its service stays, is given up, or takes a free lock.
Proceeds ==
  \E n \in DOMAIN attempts, x \in Attempt :
    /\ attempts' = [attempts EXCEPT ![n] = x] /\ mounts' = mounts
    /\ x.repo = attempts[n].repo
    /\ \/ x.svc = attempts[n].svc
       \/ x.svc = "none"
       \/ x.svc = "open" /\ ~Locked(attempts[n].repo)

\* A request takes the mount out of the map, its attempt keeps its service.
Takes ==
  \E a \in Admin :
    /\ mounts' = [mounts EXCEPT ![op[a].repo] = NoAttempt]
    /\ \/ attempts' = attempts
       \/ \E n \in DOMAIN attempts, x \in Attempt :
            /\ attempts' = [attempts EXCEPT ![n] = x]
            /\ x.repo = attempts[n].repo /\ x.svc = attempts[n].svc

\* A request closes the service it has taken.
Closes ==
  \E a \in Admin :
    /\ op[a].pc = "wait" /\ op[a].attempt \in DOMAIN attempts
    /\ mounts' = mounts
    /\ \E x \in Attempt :
         /\ attempts' = [attempts EXCEPT ![op[a].attempt] = x]
         /\ x.repo = attempts[op[a].attempt].repo
         /\ x.svc \in {attempts[op[a].attempt].svc, "closed"}

Mounts == \E r \in Repo, pending \in BOOLEAN : MountsNew(r, pending)

\* Close, or the next process: nothing stays mounted.
Unmounts ==
  /\ mounts' = [r \in Repo |-> NoAttempt]
  /\ \/ Boots
     \/ /\ attempts' \in Seq(Attempt) /\ DOMAIN attempts' = DOMAIN attempts
        /\ \A n \in DOMAIN attempts : /\ attempts'[n].repo = attempts[n].repo
                                     /\ attempts'[n].svc \in {attempts[n].svc, "closed"}

\* No request takes a mount of nothing for an attempt.
WaitsForOne == \A a \in Admin : op[a].pc = "wait" => op[a].attempt \in DOMAIN attempts

LEMMA MountStep ==
  TypeOK /\ WaitsForOne /\ [Next]_vars => Stays \/ Proceeds \/ Takes \/ Closes \/ Mounts \/ Unmounts
<1> SUFFICES ASSUME TypeOK, WaitsForOne, [Next]_vars
             PROVE  Stays \/ Proceeds \/ Takes \/ Closes \/ Mounts \/ Unmounts
  OBVIOUS
<1>t. /\ attempts \in Seq(Attempt) /\ \A n \in DOMAIN attempts : attempts[n] \in Attempt
      /\ op \in [Admin -> Op] /\ mounts \in [Repo -> {NoAttempt} \cup DOMAIN attempts]
  BY DEF TypeOK, ProcessTypeOK
<1>1. CASE \E n \in DOMAIN attempts : AttemptStep(n)
  <2>1. PICK n \in DOMAIN attempts : AttemptStep(n)
    BY <1>1
  <2>2. attempts[n] \in Attempt
    BY <1>t
  <2>3. ASSUME NEW step \in {"find", "make", "clone", "open", "publish", "start", "done"}, Advance(n, step),
               mounts' = mounts
        PROVE  Proceeds
    <3> DEFINE x == [attempts[n] EXCEPT !.step = step]
    <3>1. x \in Attempt /\ x.repo = attempts[n].repo /\ x.svc = attempts[n].svc
      BY <2>2 DEF Attempt
    <3> QED
      BY <2>3, <3>1 DEF Proceeds, Advance
  <2>4. ASSUME Fail(n), mounts' = mounts
        PROVE  Proceeds
    BY <2>3, <2>4 DEF Fail
  <2>5. CASE ReadsCredential(n)
    BY <2>3, <2>4, <2>5 DEF ReadsCredential
  <2>6. CASE FindsClone(n) \/ MakesClone(n)
    BY <2>3, <2>4, <2>6 DEF FindsClone, MakesClone
  <2>7. CASE Clones(n)
    BY <2>3, <2>4, <2>7 DEF Clones
  <2>8. CASE Opens(n)
    <3> DEFINE x == [attempts[n] EXCEPT !.step = "publish", !.svc = "open"]
    <3>1. x \in Attempt /\ x.repo = attempts[n].repo /\ x.svc = "open"
      BY <2>2 DEF Attempt
    <3>2. CASE attempts' = [attempts EXCEPT ![n].step = "publish", ![n].svc = "open"]
               /\ ~Locked(attempts[n].repo)
      <4>1. attempts' = [attempts EXCEPT ![n] = x]
        BY <3>2
      <4> QED
        BY <2>8, <3>1, <3>2, <4>1 DEF Proceeds, Opens
    <3> QED
      BY <2>4, <2>8, <3>2 DEF Opens
  <2>9. CASE Publishes(n)
    <3> DEFINE x == [attempts[n] EXCEPT
                       !.step = IF IsOpen(n) /\ ~Replaced(n) THEN "start" ELSE "done",
                       !.svc = IF Replaced(n) THEN "none" ELSE attempts[n].svc]
    <3>1. /\ x \in Attempt /\ x.repo = attempts[n].repo
          /\ x.svc = attempts[n].svc \/ x.svc = "none"
      BY <2>2 DEF Attempt
    <3>2. attempts' = [attempts EXCEPT ![n] = x] /\ mounts' = mounts
      BY <2>9 DEF Publishes
    <3> QED
      BY <3>1, <3>2 DEF Proceeds
  <2>10. CASE Starts(n)
    <3> DEFINE x == [attempts[n] EXCEPT !.step = "done", !.firstPull = TRUE]
    <3>1. x \in Attempt /\ x.repo = attempts[n].repo /\ x.svc = attempts[n].svc
      BY <2>2 DEF Attempt
    <3>2. attempts' = [attempts EXCEPT ![n] = x] /\ mounts' = mounts
      BY <2>10 DEF Starts
    <3> QED
      BY <3>1, <3>2 DEF Proceeds
  <2>11. CASE PullsFirst(n)
    <3> DEFINE x == [attempts[n] EXCEPT !.firstPull = FALSE]
    <3>1. x \in Attempt /\ x.repo = attempts[n].repo /\ x.svc = attempts[n].svc
      BY <2>2 DEF Attempt
    <3>2. attempts' = [attempts EXCEPT ![n] = x] /\ mounts' = mounts
      BY <2>11 DEF PullsFirst
    <3> QED
      BY <3>1, <3>2 DEF Proceeds
  <2> QED
    BY <2>1, <2>5, <2>6, <2>7, <2>8, <2>9, <2>10, <2>11 DEF AttemptStep
<1>2. ASSUME NEW a \in Admin, TakesMount(a)
      PROVE  Takes
  <2> DEFINE r == op[a].repo
             n == mounts[r]
  <2>1. r \in Repo
    BY <1>t DEF Op
  <2>2. mounts' = [mounts EXCEPT ![r] = NoAttempt]
    BY <1>2 DEF TakesMount
  <2>3. CASE n = NoAttempt
    BY <1>2, <2>2, <2>3 DEF TakesMount, Takes
  <2>4. CASE n # NoAttempt
    <3> DEFINE x == [attempts[n] EXCEPT !.cancelled = TRUE]
    <3>1. n \in DOMAIN attempts /\ attempts[n] \in Attempt
      BY <1>t, <2>1, <2>4
    <3>2. x \in Attempt /\ x.repo = attempts[n].repo /\ x.svc = attempts[n].svc
      BY <3>1 DEF Attempt
    <3>3. attempts' = [attempts EXCEPT ![n] = x]
      BY <1>2, <2>4 DEF TakesMount
    <3> QED
      BY <2>2, <3>1, <3>2, <3>3 DEF Takes
  <2> QED
    BY <2>3, <2>4
<1>3. ASSUME NEW a \in Admin, ClosesService(a)
      PROVE  Closes
  <2> DEFINE n == op[a].attempt
             x == [attempts[n] EXCEPT !.svc = IF @ = "open" THEN "closed" ELSE @]
  <2>1. op[a].pc = "wait" /\ mounts' = mounts /\ n \in DOMAIN attempts
    BY <1>3 DEF ClosesService, WaitsForOne
  <2>2. x \in Attempt /\ x.repo = attempts[n].repo /\ x.svc \in {attempts[n].svc, "closed"}
    BY <1>t, <2>1 DEF Attempt
  <2>3. attempts' = [attempts EXCEPT ![n] = x]
    BY <1>3 DEF ClosesService
  <2> QED
    BY <2>1, <2>2, <2>3 DEF Closes
<1>4. ASSUME NEW a \in Admin, StartsMount(a)
      PROVE  Mounts
  BY <1>t, <1>4 DEF StartsMount, Mounts, Op
<1>5. CASE BootStarts
  <2>1. PICK r \in registry : MountsNew(r, r \in keyPending)
    BY <1>5 DEF BootStarts
  <2>2. (r \in keyPending) \in BOOLEAN
    OBVIOUS
  <2>3. r \in Repo
    BY DEF TypeOK, DiskTypeOK
  <2> QED
    BY <2>1, <2>2, <2>3 DEF Mounts
<1>6. CASE CloseEnds
  <2> DEFINE after(n) == IF mounts[attempts[n].repo] = n /\ Published(n)
                         THEN [attempts[n] EXCEPT !.svc = "closed"] ELSE attempts[n]
  <2>1. attempts' = [n \in DOMAIN attempts |-> after(n)] /\ mounts' = [r \in Repo |-> NoAttempt]
    BY <1>6 DEF CloseEnds
  <2>2. \A n \in DOMAIN attempts : /\ after(n) \in Attempt /\ after(n).repo = attempts[n].repo
                                  /\ after(n).svc \in {attempts[n].svc, "closed"}
    BY <1>t DEF Attempt
  <2> HIDE DEF after
  <2>3. DOMAIN attempts = 1..Len(attempts) /\ Len(attempts) \in Nat
    BY <1>t
  <2>4. attempts' \in Seq(Attempt)
    BY <2>1, <2>2, <2>3
  <2> QED
    BY <2>1, <2>2, <2>4 DEF Unmounts
<1>7. CASE Boots
  BY <1>7 DEF Boots, Unmounts
<1>8. CASE UNCHANGED vars
  BY <1>8 DEF vars, processVars, Stays
<1>9. CASE \E n \in DOMAIN attempts : Pushes(n)
  BY <1>9 DEF Pushes, Stays, processVars
<1>10. CASE \E a \in Admin : OpBegins(a)
  BY <1>10 DEF OpBegins, Adds, Replaces, Connects, Removes, Stays
<1>11. ASSUME NEW a \in Admin,
              \/ Updates(a) \/ PushesNow(a) \/ ChecksUnpushed(a) \/ RemovesKey(a) \/ Looks(a)
              \/ Deletes(a) \/ Erases(a)
       PROVE  Stays
  BY <1>11 DEF Updates, PushesNow, ChecksUnpushed, RemovesKey, Looks, Deletes, Erases, Stays
<1>12. CASE Routes \/ Writes \/ CloseBegins \/ BootEnds
  BY <1>12 DEF Routes, Writes, CloseBegins, BootEnds, Stays
<1>13. ASSUME NEW a \in Admin, OpStep(a)
       PROVE  Stays \/ Takes \/ Closes \/ Mounts
  BY <1>2, <1>3, <1>4, <1>11, <1>13 DEF OpStep
<1>14. \/ \E n \in DOMAIN attempts : AttemptStep(n)
       \/ \E n \in DOMAIN attempts : Pushes(n)
       \/ \E a \in Admin : OpBegins(a)
       \/ \E a \in Admin : OpStep(a)
       \/ BootStarts \/ CloseEnds \/ Boots
       \/ Routes \/ Writes \/ CloseBegins \/ BootEnds
       \/ UNCHANGED vars
  BY DEF Next
<1> QED
  BY <1>1, <1>5, <1>6, <1>7, <1>8, <1>9, <1>10, <1>12, <1>13, <1>14

-----------------------------------------------------------------------------
(* Types.                                                                   *)

LEMMA TypeInit == Init => TypeOK
BY MountBoundAssumption, NoOpType DEF Init, TypeOK, DiskTypeOK, ProcessTypeOK, AttemptsFit, NoAttempt

LEMMA AttemptsType ==
  TypeOK /\ WaitsForOne /\ [Next]_vars =>
    /\ attempts' \in Seq(Attempt)
    /\ mounts' \in [Repo -> {NoAttempt} \cup DOMAIN attempts']
    /\ Boots \/ DOMAIN attempts \subseteq DOMAIN attempts'
<1> SUFFICES ASSUME TypeOK, WaitsForOne, [Next]_vars
             PROVE  /\ attempts' \in Seq(Attempt)
                    /\ mounts' \in [Repo -> {NoAttempt} \cup DOMAIN attempts']
                    /\ Boots \/ DOMAIN attempts \subseteq DOMAIN attempts'
  OBVIOUS
<1>t. /\ attempts \in Seq(Attempt)
      /\ mounts \in [Repo -> {NoAttempt} \cup DOMAIN attempts]
  BY DEF TypeOK, ProcessTypeOK
<1>1. CASE Stays
  BY <1>t, <1>1 DEF Stays
<1>2. CASE Proceeds
  BY <1>t, <1>2, AttemptMoves DEF Proceeds
<1>3. CASE Takes
  BY <1>t, <1>3, AttemptMoves DEF Takes
<1>4. CASE Closes
  BY <1>t, <1>4, AttemptMoves DEF Closes
<1>5. CASE Mounts
  <2>1. PICK r \in Repo, pending \in BOOLEAN : MountsNew(r, pending)
    BY <1>5 DEF Mounts
  <2>2. mounts' = [mounts EXCEPT ![r] = Len(attempts) + 1]
    BY <2>1 DEF MountsNew
  <2> QED
    BY <1>t, <2>1, <2>2, MountsNewType
<1>6. CASE Unmounts
  <2>1. mounts' \in [Repo -> {NoAttempt} \cup DOMAIN attempts']
    BY <1>6 DEF Unmounts
  <2>2. CASE Boots
    <3>1. attempts' = <<>>
      BY <2>2 DEF Boots
    <3> QED
      BY <2>1, <2>2, <3>1
  <2>3. CASE attempts' \in Seq(Attempt) /\ DOMAIN attempts' = DOMAIN attempts
    BY <2>1, <2>3
  <2> QED
    BY <1>6, <2>2, <2>3 DEF Unmounts
<1>7. Stays \/ Proceeds \/ Takes \/ Closes \/ Mounts \/ Unmounts
  BY MountStep
<1> QED
  BY <1>1, <1>2, <1>3, <1>4, <1>5, <1>6, <1>7

\* Every step, as what it does to the requests in progress.
OpMoves ==
  \E a \in Admin, x \in Op :
    /\ op' = [op EXCEPT ![a] = x] /\ x.pc # "wait"
    /\ x.attempt \in {NoAttempt, op[a].attempt} \cup DOMAIN attempts

OpWaits ==
  \E a \in Admin, x \in Op :
    /\ op' = [op EXCEPT ![a] = x] /\ op[a].repo \in Repo
    /\ x.attempt = mounts[op[a].repo] /\ x.attempt \in DOMAIN attempts
    /\ mounts' = [mounts EXCEPT ![op[a].repo] = NoAttempt]

LEMMA RequestStep ==
  ASSUME TypeOK, NEW a \in Admin, OpBegins(a) \/ OpStep(a)
  PROVE  OpMoves \/ OpWaits
<1>t. /\ op \in [Admin -> Op] /\ op[a] \in Op
      /\ mounts \in [Repo -> {NoAttempt} \cup DOMAIN attempts]
      /\ registry \subseteq Repo
  BY DEF TypeOK, ProcessTypeOK, DiskTypeOK
<1>1. ASSUME NEW pc \in {"take", "wait", "start", "delete", "look", "erase"}, pc # "wait", Then(a, pc)
      PROVE  OpMoves
  <2> DEFINE x == [op[a] EXCEPT !.pc = pc]
  <2>1. x \in Op /\ x.pc # "wait" /\ x.attempt = op[a].attempt
    BY <1>t, <1>1 DEF Op
  <2> QED
    BY <1>1, <2>1 DEF Then, OpMoves
<1>2. ASSUME Return(a)
      PROVE  OpMoves
  BY <1>2, NoOpType DEF Return, OpMoves
<1>3. CASE OpBegins(a)
  <2>1. PICK kind \in {"add", "connect", "replace", "remove"},
             pc \in {"start", "update", "take", "push"}, r \in Repo, flag \in BOOLEAN :
          Begins(a, kind, pc, r, flag)
    BY <1>t, <1>3 DEF OpBegins, Adds, Replaces, Connects, Removes
  <2> DEFINE x == [kind |-> kind, pc |-> pc, repo |-> r, flag |-> flag, attempt |-> NoAttempt]
  <2>2. x \in Op /\ x.pc # "wait" /\ x.attempt = NoAttempt
    BY DEF Op, NoAttempt
  <2>3. op' = [op EXCEPT ![a] = x]
    BY <2>1 DEF Begins
  <2> QED
    BY <2>2, <2>3 DEF OpMoves
<1>4. CASE Updates(a)
  BY <1>1, <1>2, <1>4 DEF Updates
<1>5. CASE PushesNow(a)
  <2>1. CASE Then(a, "take")
    BY <1>1, <2>1
  <2>2. CASE \E n \in MountsOf(AliasOf[op[a].repo]) :
               op' = [op EXCEPT ![a].pc = "check", ![a].attempt = n]
    <3>1. PICK n \in MountsOf(AliasOf[op[a].repo]) :
            op' = [op EXCEPT ![a].pc = "check", ![a].attempt = n]
      BY <2>2
    <3> DEFINE x == [op[a] EXCEPT !.pc = "check", !.attempt = n]
    <3>2. n \in DOMAIN attempts /\ n \in Nat
      BY <1>t DEF MountsOf, Mounted, TypeOK, ProcessTypeOK
    <3>3. x \in Op /\ x.pc # "wait" /\ x.attempt = n
      BY <1>t, <3>2 DEF Op
    <3>4. op' = [op EXCEPT ![a] = x]
      BY <3>1
    <3> QED
      BY <3>2, <3>3, <3>4 DEF OpMoves
  <2> QED
    BY <1>5, <2>1, <2>2 DEF PushesNow
<1>6. ASSUME NEW pc \in {"take", "keys"}, op' = [op EXCEPT ![a].pc = pc, ![a].attempt = NoAttempt]
      PROVE  OpMoves
  <2> DEFINE x == [op[a] EXCEPT !.pc = pc, !.attempt = NoAttempt]
  <2>1. x \in Op /\ x.pc # "wait" /\ x.attempt = NoAttempt
    BY <1>t DEF Op, NoAttempt
  <2>2. op' = [op EXCEPT ![a] = x]
    BY <1>6
  <2> QED
    BY <2>1, <2>2 DEF OpMoves
<1>7. CASE ChecksUnpushed(a)
  BY <1>2, <1>6, <1>7 DEF ChecksUnpushed
<1>8. CASE ClosesService(a)
  BY <1>6, <1>8 DEF ClosesService
<1>9. CASE TakesMount(a)
  <2> DEFINE n == mounts[op[a].repo]
             x == [op[a] EXCEPT !.pc = "wait", !.attempt = n]
  <2>1. op[a].repo \in Repo
    BY <1>t DEF Op
  <2>2. CASE n = NoAttempt
    BY <1>1, <1>9, <2>2 DEF TakesMount
  <2>3. CASE n # NoAttempt
    <3>1. n \in DOMAIN attempts /\ n \in Nat
      BY <1>t, <2>1, <2>3 DEF TypeOK, ProcessTypeOK
    <3>2. x \in Op /\ x.attempt = n
      BY <1>t, <3>1 DEF Op
    <3>3. op' = [op EXCEPT ![a] = x] /\ mounts' = [mounts EXCEPT ![op[a].repo] = NoAttempt]
      BY <1>9, <2>3 DEF TakesMount
    <3> QED
      BY <2>1, <3>1, <3>2, <3>3 DEF OpWaits
  <2> QED
    BY <2>2, <2>3
<1>10. CASE RemovesKey(a)
  BY <1>1, <1>10 DEF RemovesKey
<1>11. CASE Looks(a)
  <2> DEFINE x == [op[a] EXCEPT !.pc = "start", !.flag = op[a].repo \in keyPending]
  <2>1. (op[a].repo \in keyPending) \in BOOLEAN
    OBVIOUS
  <2>2. x \in Op /\ x.pc # "wait" /\ x.attempt = op[a].attempt
    BY <1>t, <2>1 DEF Op
  <2>3. CASE op' = [op EXCEPT ![a].pc = "start", ![a].flag = op[a].repo \in keyPending]
    <3>1. op' = [op EXCEPT ![a] = x]
      BY <2>3
    <3> QED
      BY <2>2, <3>1 DEF OpMoves
  <2> QED
    BY <1>2, <1>11, <2>3 DEF Looks
<1>12. CASE StartsMount(a)
  BY <1>2, <1>12 DEF StartsMount
<1>13. CASE Deletes(a)
  BY <1>1, <1>2, <1>13 DEF Deletes
<1>14. CASE Erases(a)
  BY <1>2, <1>14 DEF Erases
<1> QED
  BY <1>3, <1>4, <1>5, <1>7, <1>8, <1>9, <1>10, <1>11, <1>12, <1>13, <1>14 DEF OpStep

LEMMA OpStepType ==
  TypeOK /\ [Next]_vars => Boots \/ op' = op \/ OpMoves \/ OpWaits
<1> SUFFICES ASSUME TypeOK, [Next]_vars
             PROVE  Boots \/ op' = op \/ OpMoves \/ OpWaits
  OBVIOUS
<1>1. CASE \E n \in DOMAIN attempts : AttemptStep(n) \/ Pushes(n)
  BY <1>1 DEF AttemptStep, Pushes, ReadsCredential, FindsClone, MakesClone, Clones, Opens, Publishes, Starts,
              PullsFirst, processVars
<1>2. CASE \E a \in Admin : OpBegins(a) \/ OpStep(a)
  BY <1>2, RequestStep
<1>3. CASE \/ Routes \/ Writes \/ CloseBegins \/ CloseEnds \/ BootStarts \/ BootEnds \/ UNCHANGED vars
  BY <1>3 DEF Routes, Writes, CloseBegins, CloseEnds, BootStarts, BootEnds, vars, processVars
<1> QED
  BY <1>1, <1>2, <1>3 DEF Next

LEMMA OpType ==
  TypeOK /\ WaitsForOne /\ [Next]_vars =>
    /\ op' \in [Admin -> Op]
    /\ \A a \in Admin : op'[a].attempt \in {NoAttempt} \cup DOMAIN attempts'
<1> SUFFICES ASSUME TypeOK, WaitsForOne, [Next]_vars
             PROVE  /\ op' \in [Admin -> Op]
                    /\ \A a \in Admin : op'[a].attempt \in {NoAttempt} \cup DOMAIN attempts'
  OBVIOUS
<1>t. /\ op \in [Admin -> Op]
      /\ \A a \in Admin : op[a].attempt \in {NoAttempt} \cup DOMAIN attempts
  BY DEF TypeOK, ProcessTypeOK
<1>1. CASE Boots
  <2>1. op' = [a \in Admin |-> NoOp]
    BY <1>1 DEF Boots
  <2> QED
    BY <2>1, NoOpType
<1>2. ASSUME DOMAIN attempts \subseteq DOMAIN attempts', op' = op \/ OpMoves \/ OpWaits
      PROVE  /\ op' \in [Admin -> Op]
             /\ \A a \in Admin : op'[a].attempt \in {NoAttempt} \cup DOMAIN attempts'
  <2>1. CASE op' = op
    BY <1>t, <1>2, <2>1
  <2>2. CASE OpMoves
    BY <1>t, <1>2, <2>2 DEF OpMoves
  <2>3. CASE OpWaits
    BY <1>t, <1>2, <2>3 DEF OpWaits
  <2> QED
    BY <1>2, <2>1, <2>2, <2>3
<1> QED
  BY <1>1, <1>2, OpStepType, AttemptsType

LEMMA DiskType == TypeOK /\ [Next]_vars => DiskTypeOK'
<1> SUFFICES ASSUME TypeOK, [Next]_vars
             PROVE  DiskTypeOK'
  OBVIOUS
<1> USE DEF DiskTypeOK
<1>t. /\ DiskTypeOK /\ op \in [Admin -> Op]
      /\ \A a \in Admin : op[a].repo \in Repo
      /\ \A n \in DOMAIN attempts : attempts[n].repo \in Repo
      /\ client \in {NoAttempt} \cup DOMAIN attempts
  <2>1. attempts \in Seq(Attempt) /\ op \in [Admin -> Op] /\ client \in {NoAttempt} \cup DOMAIN attempts
    BY DEF TypeOK, ProcessTypeOK
  <2>2. \A n \in DOMAIN attempts : attempts[n] \in Attempt
    BY <2>1
  <2>3. \A x \in Attempt : x.repo \in Repo
    BY DEF Attempt
  <2>4. \A x \in Op : x.repo \in Repo
    BY DEF Op
  <2> QED
    BY <2>1, <2>2, <2>3, <2>4 DEF TypeOK
<1>1. ASSUME NEW n \in DOMAIN attempts, AttemptStep(n) \/ Pushes(n)
      PROVE  DiskTypeOK'
  <2>1. CASE ReadsCredential(n)
    BY <1>t, <2>1 DEF ReadsCredential
  <2>2. CASE FindsClone(n)
    BY <1>t, <2>2 DEF FindsClone, diskVars
  <2>3. CASE MakesClone(n)
    BY <1>t, <2>3 DEF MakesClone
  <2>4. CASE Clones(n)
    BY <1>t, <2>4 DEF Clones
  <2>5. CASE Opens(n) \/ Publishes(n) \/ Starts(n) \/ PullsFirst(n)
    BY <1>t, <2>5 DEF Opens, Publishes, Starts, PullsFirst, diskVars
  <2>6. CASE Pushes(n)
    BY <1>t, <2>6 DEF Pushes
  <2> QED
    BY <1>1, <2>1, <2>2, <2>3, <2>4, <2>5, <2>6 DEF AttemptStep
<1>2. ASSUME NEW a \in Admin, OpBegins(a)
      PROVE  DiskTypeOK'
  <2>1. CASE Adds(a)
    BY <1>t, <2>1 DEF Adds
  <2>2. CASE Replaces(a) \/ Connects(a) \/ Removes(a)
    BY <1>t, <2>2 DEF Replaces, Connects, Removes, diskVars
  <2> QED
    BY <1>2, <2>1, <2>2 DEF OpBegins
<1>3. ASSUME NEW a \in Admin, OpStep(a)
      PROVE  DiskTypeOK'
  <2>1. CASE Updates(a)
    BY <1>t, <2>1 DEF Updates
  <2>2. CASE PushesNow(a)
    BY <1>t, <2>2 DEF PushesNow
  <2>3. CASE ChecksUnpushed(a) \/ TakesMount(a) \/ ClosesService(a) \/ Looks(a) \/ StartsMount(a)
    BY <1>t, <2>3 DEF ChecksUnpushed, TakesMount, ClosesService, Looks, StartsMount, diskVars
  <2>4. CASE RemovesKey(a)
    BY <1>t, <2>4 DEF RemovesKey
  <2>5. CASE Deletes(a)
    BY <1>t, <2>5 DEF Deletes
  <2>6. CASE Erases(a)
    BY <1>t, <2>6 DEF Erases
  <2> QED
    BY <1>3, <2>1, <2>2, <2>3, <2>4, <2>5, <2>6 DEF OpStep
<1>4. CASE Writes
  BY <1>t, <1>4 DEF Writes
<1>5. CASE Routes \/ CloseBegins \/ BootStarts \/ BootEnds \/ UNCHANGED vars
  BY <1>t, <1>5 DEF Routes, CloseBegins, BootStarts, BootEnds, diskVars, vars
<1>6. CASE CloseEnds \/ Boots
  BY <1>t, <1>6 DEF CloseEnds, Boots
<1> QED
  BY <1>1, <1>2, <1>3, <1>4, <1>5, <1>6 DEF Next

LEMMA BoundsType ==
  TypeOK /\ [Next]_vars =>
    /\ phase' \in {"booting", "running", "closing", "down"}
    /\ ops' \in 0..MaxOps /\ boots' \in Nat
    /\ client' \in {NoAttempt, client} \cup DOMAIN attempts
    /\ Boots => client' = NoAttempt
<1> SUFFICES ASSUME TypeOK, [Next]_vars
             PROVE  /\ phase' \in {"booting", "running", "closing", "down"}
                    /\ ops' \in 0..MaxOps /\ boots' \in Nat
                    /\ client' \in {NoAttempt, client} \cup DOMAIN attempts
                    /\ Boots => client' = NoAttempt
  OBVIOUS
<1>t. /\ phase \in {"booting", "running", "closing", "down"}
      /\ ops \in 0..MaxOps /\ boots \in Nat /\ MaxOps \in Nat
      /\ mounts \in [Repo -> {NoAttempt} \cup DOMAIN attempts]
  BY MountBoundAssumption DEF TypeOK, ProcessTypeOK
<1>1. CASE \E n \in DOMAIN attempts : AttemptStep(n) \/ Pushes(n)
  <2>1. UNCHANGED <<phase, client, ops, boots>>
    BY <1>1 DEF AttemptStep, Pushes, ReadsCredential, FindsClone, MakesClone, Clones, Opens, Publishes, Starts,
                PullsFirst, processVars, boundVars
  <2> QED
    BY <1>t, <2>1 DEF Boots
<1>2. CASE \E a \in Admin : OpBegins(a)
  <2>1. UNCHANGED <<phase, client, boots>> /\ ops < MaxOps /\ ops' = ops + 1
    BY <1>2 DEF OpBegins, Adds, Replaces, Connects, Removes, Begins
  <2> QED
    BY <1>t, <2>1 DEF Boots
<1>3. CASE \E a \in Admin : OpStep(a)
  <2>1. UNCHANGED <<phase, client, ops, boots>>
    BY <1>3 DEF OpStep, Updates, PushesNow, ChecksUnpushed, TakesMount, ClosesService, RemovesKey,
                Looks, StartsMount, Deletes, Erases, boundVars
  <2> QED
    BY <1>t, <2>1 DEF Boots
<1>4. CASE Routes
  BY <1>t, <1>4 DEF Routes, Mounted, boundVars, Boots
<1>5. CASE Writes
  BY <1>t, <1>5 DEF Writes, boundVars, Boots
<1>6. CASE CloseBegins \/ CloseEnds \/ BootStarts \/ BootEnds \/ UNCHANGED vars
  <2>1. client' = client /\ ops' = ops /\ boots' = boots
        /\ phase' \in {phase, "closing", "down", "running"}
    BY <1>6 DEF CloseBegins, CloseEnds, BootStarts, BootEnds, vars, processVars, boundVars
  <2> QED
    BY <1>t, <2>1 DEF Boots
<1>7. CASE Boots
  BY <1>t, <1>7 DEF Boots
<1> QED
  BY <1>1, <1>2, <1>3, <1>4, <1>5, <1>6, <1>7 DEF Next

\* Services are opened late in an attempt and closed after it.
LEMMA FitsStep == TypeOK /\ WaitsForOne /\ [Next]_vars => AttemptsFit'
<1> SUFFICES ASSUME TypeOK, WaitsForOne, [Next]_vars
             PROVE  AttemptsFit'
  OBVIOUS
<1>t. /\ attempts \in Seq(Attempt) /\ \A n \in DOMAIN attempts : attempts[n] \in Attempt
      /\ \A n \in DOMAIN attempts : Fits(attempts[n])
      /\ op \in [Admin -> Op] /\ mounts \in [Repo -> {NoAttempt} \cup DOMAIN attempts]
  BY DEF TypeOK, ProcessTypeOK, AttemptsFit
<1>one. ASSUME NEW n \in DOMAIN attempts, NEW x \in Attempt, Fits(x), attempts' = [attempts EXCEPT ![n] = x]
        PROVE  AttemptsFit'
  BY <1>t, <1>one, AttemptMoves DEF AttemptsFit, Fits
<1>1. CASE attempts' = attempts
  BY <1>t, <1>1 DEF AttemptsFit
<1>2. ASSUME NEW n \in DOMAIN attempts, AttemptStep(n)
      PROVE  AttemptsFit'
  <2>n. attempts[n] \in Attempt /\ Fits(attempts[n])
    BY <1>t
  <2>1. ASSUME NEW step \in {"find", "make", "clone", "open", "publish"}, Advance(n, step), attempts[n].svc = "none"
        PROVE  AttemptsFit'
    <3> DEFINE x == [attempts[n] EXCEPT !.step = step]
    <3>1. x \in Attempt /\ Fits(x)
      BY <2>n, <2>1 DEF Attempt, Fits
    <3> QED
      BY <1>one, <2>1, <3>1 DEF Advance
  <2>2. attempts[n].step \in {"credential", "find", "make", "clone", "open"} => attempts[n].svc = "none"
    BY <2>n DEF Fits
  <2>3. CASE ReadsCredential(n) \/ FindsClone(n) \/ MakesClone(n) \/ Clones(n)
    BY <2>1, <2>2, <2>3 DEF ReadsCredential, FindsClone, MakesClone, Clones, Fail
  <2>4. CASE Opens(n)
    <3> DEFINE x == [attempts[n] EXCEPT !.step = "publish", !.svc = "open"]
    <3>1. x \in Attempt /\ Fits(x)
      BY <2>n DEF Attempt, Fits
    <3>2. CASE attempts' = [attempts EXCEPT ![n].step = "publish", ![n].svc = "open"]
      <4>1. attempts' = [attempts EXCEPT ![n] = x]
        BY <3>2
      <4> QED
        BY <1>one, <3>1, <4>1
    <3> QED
      BY <2>1, <2>2, <2>4, <3>2 DEF Opens, Fail
  <2>5. CASE Publishes(n)
    <3> DEFINE x == [attempts[n] EXCEPT
                       !.step = IF IsOpen(n) /\ ~Replaced(n) THEN "start" ELSE "done",
                       !.svc = IF Replaced(n) THEN "none" ELSE attempts[n].svc]
    <3>1. attempts[n].svc # "closed"
      BY <2>n, <2>5 DEF Publishes, Fits
    <3>2. x \in Attempt /\ Fits(x)
      BY <2>n, <3>1 DEF Attempt, Fits, IsOpen
    <3>3. attempts' = [attempts EXCEPT ![n] = x]
      BY <2>5 DEF Publishes
    <3> QED
      BY <1>one, <3>2, <3>3
  <2>6. CASE Starts(n)
    <3> DEFINE x == [attempts[n] EXCEPT !.step = "done", !.firstPull = TRUE]
    <3>1. x \in Attempt /\ Fits(x)
      BY <2>n DEF Attempt, Fits
    <3>2. attempts' = [attempts EXCEPT ![n] = x]
      BY <2>6 DEF Starts
    <3> QED
      BY <1>one, <3>1, <3>2
  <2>7. CASE PullsFirst(n)
    <3> DEFINE x == [attempts[n] EXCEPT !.firstPull = FALSE]
    <3>1. x \in Attempt /\ Fits(x)
      BY <2>n DEF Attempt, Fits
    <3>2. attempts' = [attempts EXCEPT ![n] = x]
      BY <2>7 DEF PullsFirst
    <3> QED
      BY <1>one, <3>1, <3>2
  <2> QED
    BY <1>2, <2>3, <2>4, <2>5, <2>6, <2>7 DEF AttemptStep
<1>3. ASSUME NEW a \in Admin, TakesMount(a), attempts' # attempts
      PROVE  AttemptsFit'
  <2> DEFINE n == mounts[op[a].repo]
             x == [attempts[n] EXCEPT !.cancelled = TRUE]
  <2>1. n \in DOMAIN attempts
    BY <1>t, <1>3 DEF TakesMount, Op
  <2>2. attempts[n] \in Attempt /\ Fits(attempts[n])
    BY <1>t, <2>1
  <2>3. x \in Attempt /\ Fits(x)
    BY <2>2 DEF Attempt, Fits
  <2>4. attempts' = [attempts EXCEPT ![n] = x]
    BY <1>3 DEF TakesMount
  <2> HIDE DEF n, x
  <2> QED
    BY <1>one, <2>1, <2>3, <2>4
<1>4. ASSUME NEW a \in Admin, ClosesService(a)
      PROVE  AttemptsFit'
  <2> DEFINE n == op[a].attempt
             x == [attempts[n] EXCEPT !.svc = IF @ = "open" THEN "closed" ELSE @]
  <2>1. n \in DOMAIN attempts /\ attempts[n].step = "done"
    BY <1>4 DEF ClosesService, WaitsForOne
  <2>2. attempts[n] \in Attempt
    BY <1>t, <2>1
  <2>3. x \in Attempt /\ Fits(x)
    BY <2>1, <2>2 DEF Attempt, Fits
  <2>4. attempts' = [attempts EXCEPT ![n] = x]
    BY <1>4 DEF ClosesService
  <2> HIDE DEF n, x
  <2> QED
    BY <1>one, <2>1, <2>3, <2>4
<1>5. CASE Mounts
  <2>1. PICK r \in Repo, pending \in BOOLEAN : MountsNew(r, pending)
    BY <1>5 DEF Mounts
  <2>2. Fits(NewAttempt(r, pending))
    BY DEF NewAttempt, Fits
  <2>3. \A m \in DOMAIN attempts' : attempts'[m] = NewAttempt(r, pending) \/
                                   (m \in DOMAIN attempts /\ attempts'[m] = attempts[m])
    BY <1>t, <2>1, MountsNewType
  <2> QED
    BY <1>t, <2>2, <2>3 DEF AttemptsFit
<1>6. CASE CloseEnds
  <2>1. \A n \in DOMAIN attempts : attempts[n].step = "done"
    BY <1>6 DEF CloseEnds, AllEnded
  <2>2. DOMAIN attempts' = DOMAIN attempts /\ \A n \in DOMAIN attempts : attempts'[n].step = "done"
    BY <1>t, <1>6, <2>1 DEF CloseEnds, Attempt
  <2> QED
    BY <2>2 DEF AttemptsFit, Fits
<1>7. CASE Boots
  BY <1>7 DEF Boots, AttemptsFit
<1>8. \/ \E n \in DOMAIN attempts : AttemptStep(n)
      \/ \E a \in Admin : TakesMount(a) \/ ClosesService(a)
      \/ Mounts \/ CloseEnds \/ Boots \/ attempts' = attempts
  <2>1. ASSUME NEW a \in Admin, StartsMount(a) PROVE Mounts
    BY <1>t, <2>1 DEF StartsMount, Mounts, Op
  <2>2. ASSUME BootStarts PROVE Mounts
    <3>1. PICK r \in registry : MountsNew(r, r \in keyPending)
      BY <2>2 DEF BootStarts
    <3>2. r \in Repo /\ (r \in keyPending) \in BOOLEAN
      BY DEF TypeOK, DiskTypeOK
    <3> QED
      BY <3>1, <3>2 DEF Mounts
  <2>3. ASSUME NEW a \in Admin, OpStep(a)
        PROVE  TakesMount(a) \/ ClosesService(a) \/ StartsMount(a) \/ attempts' = attempts
    BY <2>3 DEF OpStep, Updates, PushesNow, ChecksUnpushed, RemovesKey, Looks, Deletes, Erases
  <2>4. ASSUME NEW a \in Admin, OpBegins(a) PROVE attempts' = attempts
    BY <2>4 DEF OpBegins, Adds, Replaces, Connects, Removes
  <2>5. ASSUME \/ \E n \in DOMAIN attempts : Pushes(n)
               \/ Routes \/ Writes \/ CloseBegins \/ BootEnds \/ UNCHANGED vars
        PROVE  attempts' = attempts
    BY <2>5 DEF Pushes, Routes, Writes, CloseBegins, BootEnds, vars, processVars
  <2>6. \/ \E n \in DOMAIN attempts : AttemptStep(n)
        \/ \E n \in DOMAIN attempts : Pushes(n)
        \/ \E a \in Admin : OpBegins(a)
        \/ \E a \in Admin : OpStep(a)
        \/ BootStarts \/ CloseEnds \/ Boots
        \/ Routes \/ Writes \/ CloseBegins \/ BootEnds \/ UNCHANGED vars
    BY DEF Next
  <2> QED
    BY <2>1, <2>2, <2>3, <2>4, <2>5, <2>6
<1> QED
  BY <1>1, <1>2, <1>3, <1>4, <1>5, <1>6, <1>7, <1>8

LEMMA TypeStep == TypeOK /\ WaitsForOne /\ [Next]_vars => TypeOK'
<1> SUFFICES ASSUME TypeOK, WaitsForOne, [Next]_vars
             PROVE  TypeOK'
  OBVIOUS
<1>1. client \in {NoAttempt} \cup DOMAIN attempts
  BY DEF TypeOK, ProcessTypeOK
<1>2. client' \in {NoAttempt} \cup DOMAIN attempts'
  BY <1>1, AttemptsType, BoundsType
<1> QED
  BY <1>2, AttemptsType, OpType, DiskType, BoundsType, FitsStep DEF TypeOK, ProcessTypeOK

-----------------------------------------------------------------------------
(* The inductive invariant.                                                 *)

\* What is mounted serves its repository, and nobody has closed it.
MountsOK ==
  \A r \in Repo : Mounted(r) => /\ attempts[mounts[r]].repo = r
                                /\ attempts[mounts[r]].svc # "closed"

\* What a request has taken out of its mount is mounted no more.
TakenOK ==
  \A a \in Admin : op[a].pc = "wait" =>
    LET n == op[a].attempt
    IN n \in DOMAIN attempts /\ mounts[attempts[n].repo] # n

Inv == TypeOK /\ MountsOK /\ TakenOK /\ OneServicePerClone

LEMMA InvInit == Init => Inv
<1> SUFFICES ASSUME Init
             PROVE  Inv
  OBVIOUS
<1>1. TypeOK
  BY TypeInit
<1>2. MountsOK
  BY DEF Init, MountsOK, Mounted
<1>3. TakenOK
  BY NoOpType DEF Init, TakenOK
<1>4. OneServicePerClone
  BY DEF Init, OneServicePerClone
<1> QED
  BY <1>1, <1>2, <1>3, <1>4 DEF Inv

\* Attempts keep their repository, and a mount changes only to nothing or to
\* a new attempt.
LEMMA MountsMove ==
  TypeOK /\ WaitsForOne /\ [Next]_vars /\ ~Boots =>
    /\ \A m \in DOMAIN attempts : m \in DOMAIN attempts' /\ attempts'[m].repo = attempts[m].repo
    /\ \A r \in Repo, m \in DOMAIN attempts : mounts'[r] = m => mounts[r] = m
<1> SUFFICES ASSUME TypeOK, WaitsForOne, [Next]_vars, ~Boots
             PROVE  /\ \A m \in DOMAIN attempts :
                         m \in DOMAIN attempts' /\ attempts'[m].repo = attempts[m].repo
                    /\ \A r \in Repo, m \in DOMAIN attempts : mounts'[r] = m => mounts[r] = m
  OBVIOUS
<1>t. /\ attempts \in Seq(Attempt) /\ NoAttempt \notin DOMAIN attempts
      /\ mounts \in [Repo -> {NoAttempt} \cup DOMAIN attempts]
  BY DEF TypeOK, ProcessTypeOK, NoAttempt
<1>1. CASE Stays
  BY <1>1 DEF Stays
<1>2. CASE Proceeds
  BY <1>t, <1>2, AttemptMoves DEF Proceeds
<1>3. CASE Takes
  <2>1. PICK a \in Admin :
          /\ mounts' = [mounts EXCEPT ![op[a].repo] = NoAttempt]
          /\ \/ attempts' = attempts
             \/ \E n \in DOMAIN attempts, x \in Attempt :
                  /\ attempts' = [attempts EXCEPT ![n] = x]
                  /\ x.repo = attempts[n].repo /\ x.svc = attempts[n].svc
    BY <1>3 DEF Takes
  <2>2. \A m \in DOMAIN attempts : m \in DOMAIN attempts' /\ attempts'[m].repo = attempts[m].repo
    BY <1>t, <2>1, AttemptMoves
  <2>3. \A r \in Repo : mounts'[r] \in {NoAttempt, mounts[r]}
    BY <1>t, <2>1
  <2> QED
    BY <1>t, <2>2, <2>3
<1>4. CASE Closes
  BY <1>t, <1>4, AttemptMoves DEF Closes
<1>5. CASE Mounts
  <2>1. PICK r \in Repo, pending \in BOOLEAN : MountsNew(r, pending)
    BY <1>5 DEF Mounts
  <2>2. mounts' = [mounts EXCEPT ![r] = Len(attempts) + 1]
    BY <2>1 DEF MountsNew
  <2>3. \A q \in Repo : mounts'[q] \in {Len(attempts) + 1, mounts[q]}
    BY <1>t, <2>2
  <2> QED
    BY <1>t, <2>1, <2>3, MountsNewType
<1>6. CASE Unmounts
  BY <1>t, <1>6 DEF Unmounts
<1> QED
  BY <1>1, <1>2, <1>3, <1>4, <1>5, <1>6, MountStep

LEMMA TakenStep == Inv /\ [Next]_vars => TakenOK'
<1> SUFFICES ASSUME Inv, [Next]_vars
             PROVE  TakenOK'
  OBVIOUS
<1>t. /\ TypeOK /\ MountsOK /\ TakenOK /\ WaitsForOne
      /\ op \in [Admin -> Op] /\ NoAttempt \notin DOMAIN attempts
      /\ mounts \in [Repo -> {NoAttempt} \cup DOMAIN attempts]
      /\ \A n \in DOMAIN attempts : attempts[n].repo \in Repo
  <2>1. attempts \in Seq(Attempt)
    BY DEF Inv, TypeOK, ProcessTypeOK
  <2>2. \A n \in DOMAIN attempts : attempts[n] \in Attempt
    BY <2>1
  <2>3. \A n \in DOMAIN attempts : attempts[n].repo \in Repo
    BY <2>2 DEF Attempt
  <2> QED
    BY <2>1, <2>3 DEF Inv, TypeOK, ProcessTypeOK, WaitsForOne, TakenOK, NoAttempt
<1>1. CASE Boots
  <2>1. op' = [a \in Admin |-> NoOp]
    BY <1>1 DEF Boots
  <2> QED
    BY <2>1, NoOpType DEF TakenOK
<1>2. ASSUME ~Boots, NEW n \in DOMAIN attempts, mounts[attempts[n].repo] # n
      PROVE  n \in DOMAIN attempts' /\ mounts'[attempts'[n].repo] # n
  BY <1>t, <1>2, MountsMove
<1>3. ASSUME ~Boots, NEW a \in Admin, op[a].pc = "wait", op'[a] = op[a]
      PROVE  LET n == op'[a].attempt IN n \in DOMAIN attempts' /\ mounts'[attempts'[n].repo] # n
  BY <1>t, <1>2, <1>3 DEF TakenOK
<1>4. CASE ~Boots /\ op' = op
  BY <1>3, <1>4 DEF TakenOK
<1>5. CASE ~Boots /\ OpMoves
  <2>1. PICK a \in Admin, x \in Op : op' = [op EXCEPT ![a] = x] /\ x.pc # "wait"
    BY <1>5 DEF OpMoves
  <2>2. \A b \in Admin : op'[b].pc = "wait" => op'[b] = op[b]
    BY <1>t, <2>1
  <2> QED
    BY <1>3, <1>5, <2>2 DEF TakenOK
<1>6. CASE ~Boots /\ OpWaits
  <2>1. PICK a \in Admin, x \in Op :
          /\ op' = [op EXCEPT ![a] = x] /\ op[a].repo \in Repo
          /\ x.attempt = mounts[op[a].repo] /\ x.attempt \in DOMAIN attempts
          /\ mounts' = [mounts EXCEPT ![op[a].repo] = NoAttempt]
    BY <1>6 DEF OpWaits
  <2>2. attempts[x.attempt].repo = op[a].repo
    BY <1>t, <2>1 DEF MountsOK, Mounted
  <2>3. x.attempt \in DOMAIN attempts' /\ attempts'[x.attempt].repo = op[a].repo
    BY <1>6, <1>t, <2>1, <2>2, MountsMove
  <2>4. mounts'[attempts'[x.attempt].repo] # x.attempt
    BY <1>t, <2>1, <2>3
  <2>5. op'[a] = x /\ \A b \in Admin : b # a => op'[b] = op[b]
    BY <1>t, <2>1
  <2> QED
    BY <1>3, <1>6, <2>3, <2>4, <2>5 DEF TakenOK
<1> QED
  BY <1>t, <1>1, <1>4, <1>5, <1>6, OpStepType

LEMMA MountsStep == Inv /\ [Next]_vars => MountsOK'
<1> SUFFICES ASSUME Inv, [Next]_vars
             PROVE  MountsOK'
  OBVIOUS
<1>t. /\ TypeOK /\ MountsOK /\ TakenOK /\ WaitsForOne
      /\ attempts \in Seq(Attempt) /\ NoAttempt \notin DOMAIN attempts
      /\ mounts \in [Repo -> {NoAttempt} \cup DOMAIN attempts]
  BY DEF Inv, TypeOK, ProcessTypeOK, WaitsForOne, TakenOK, NoAttempt
<1>o. ASSUME NEW r \in Repo, mounts[r] # NoAttempt
      PROVE  /\ mounts[r] \in DOMAIN attempts
             /\ attempts[mounts[r]].repo = r /\ attempts[mounts[r]].svc # "closed"
  BY <1>t, <1>o DEF MountsOK, Mounted
<1> SUFFICES ASSUME NEW r \in Repo, mounts'[r] # NoAttempt
             PROVE  attempts'[mounts'[r]].repo = r /\ attempts'[mounts'[r]].svc # "closed"
  BY DEF MountsOK, Mounted
<1>1. CASE Stays
  BY <1>1, <1>o DEF Stays
<1>2. CASE Proceeds
  <2>1. PICK n \in DOMAIN attempts, x \in Attempt :
          /\ attempts' = [attempts EXCEPT ![n] = x] /\ mounts' = mounts
          /\ x.repo = attempts[n].repo
          /\ x.svc \in {attempts[n].svc, "none", "open"}
    BY <1>2 DEF Proceeds
  <2> QED
    BY <1>t, <1>o, <2>1, AttemptMoves
<1>3. CASE Takes
  <2>1. PICK a \in Admin :
          /\ mounts' = [mounts EXCEPT ![op[a].repo] = NoAttempt]
          /\ \/ attempts' = attempts
             \/ \E n \in DOMAIN attempts, x \in Attempt :
                  /\ attempts' = [attempts EXCEPT ![n] = x]
                  /\ x.repo = attempts[n].repo /\ x.svc = attempts[n].svc
    BY <1>3 DEF Takes
  <2>2. mounts'[r] = mounts[r] /\ mounts[r] # NoAttempt
    BY <1>t, <2>1
  <2> QED
    BY <1>t, <1>o, <2>1, <2>2, AttemptMoves
<1>4. CASE Closes
  <2>1. PICK a \in Admin, x \in Attempt :
          /\ op[a].pc = "wait" /\ op[a].attempt \in DOMAIN attempts
          /\ mounts' = mounts
          /\ attempts' = [attempts EXCEPT ![op[a].attempt] = x]
          /\ x.repo = attempts[op[a].attempt].repo
    BY <1>4 DEF Closes
  <2>2. mounts[attempts[op[a].attempt].repo] # op[a].attempt
    BY <1>t, <2>1 DEF TakenOK
  <2>3. mounts[r] # op[a].attempt
    BY <1>o, <2>1, <2>2
  <2> QED
    BY <1>t, <1>o, <2>1, <2>3, AttemptMoves
<1>5. CASE Mounts
  <2>1. PICK q \in Repo, pending \in BOOLEAN : MountsNew(q, pending)
    BY <1>5 DEF Mounts
  <2>2. mounts' = [mounts EXCEPT ![q] = Len(attempts) + 1]
    BY <2>1 DEF MountsNew
  <2>3. CASE r = q
    <3>1. mounts'[r] = Len(attempts) + 1
      BY <1>t, <2>2, <2>3
    <3>2. attempts'[Len(attempts) + 1] = NewAttempt(r, pending)
      BY <1>t, <2>1, <2>3, MountsNewType
    <3> QED
      BY <3>1, <3>2, NewAttemptType
  <2>4. CASE r # q
    BY <1>t, <1>o, <2>1, <2>2, <2>4, MountsNewType
  <2> QED
    BY <2>3, <2>4
<1>6. CASE Unmounts
  BY <1>6 DEF Unmounts
<1> QED
  BY <1>t, <1>1, <1>2, <1>3, <1>4, <1>5, <1>6, MountStep

LEMMA OneServiceStep == Inv /\ [Next]_vars => OneServicePerClone'
<1> SUFFICES ASSUME Inv, [Next]_vars
             PROVE  OneServicePerClone'
  OBVIOUS
<1>t. /\ TypeOK /\ WaitsForOne /\ OneServicePerClone /\ attempts \in Seq(Attempt)
  BY DEF Inv, TypeOK, ProcessTypeOK, WaitsForOne, TakenOK
<1>o. ASSUME \A m \in DOMAIN attempts' : attempts'[m].svc = "open" =>
               /\ m \in DOMAIN attempts /\ attempts[m].svc = "open"
               /\ attempts'[m].repo = attempts[m].repo
      PROVE  OneServicePerClone'
  BY <1>t, <1>o DEF OneServicePerClone, IsOpen
<1>1. CASE Stays
  BY <1>1, <1>o DEF Stays
<1>2. CASE Proceeds
  <2>1. PICK n \in DOMAIN attempts, x \in Attempt :
          /\ attempts' = [attempts EXCEPT ![n] = x]
          /\ x.repo = attempts[n].repo
          /\ \/ x.svc = attempts[n].svc
             \/ x.svc = "none"
             \/ x.svc = "open" /\ ~Locked(attempts[n].repo)
    BY <1>2 DEF Proceeds
  <2>2. /\ DOMAIN attempts' = DOMAIN attempts /\ attempts'[n] = x
        /\ \A m \in DOMAIN attempts : m # n => attempts'[m] = attempts[m]
    BY <1>t, <2>1, AttemptMoves
  <2>3. CASE x.svc = attempts[n].svc \/ x.svc = "none"
    BY <1>o, <2>1, <2>2, <2>3
  <2>4. CASE ~Locked(attempts[n].repo)
    BY <1>t, <2>1, <2>2, <2>4 DEF Locked, IsOpen, OneServicePerClone
  <2> QED
    BY <2>1, <2>3, <2>4
<1>3. CASE Takes
  BY <1>t, <1>o, <1>3, AttemptMoves DEF Takes
<1>4. CASE Closes
  <2>1. PICK n \in DOMAIN attempts, x \in Attempt :
          /\ attempts' = [attempts EXCEPT ![n] = x]
          /\ x.repo = attempts[n].repo /\ x.svc \in {attempts[n].svc, "closed"}
    BY <1>4 DEF Closes
  <2>2. /\ DOMAIN attempts' = DOMAIN attempts /\ attempts'[n] = x
        /\ \A m \in DOMAIN attempts : m # n => attempts'[m] = attempts[m]
    BY <1>t, <2>1, AttemptMoves
  <2> QED
    BY <1>o, <2>1, <2>2
<1>5. CASE Mounts
  <2>1. PICK q \in Repo, pending \in BOOLEAN : MountsNew(q, pending)
    BY <1>5 DEF Mounts
  <2>2. attempts'[Len(attempts) + 1].svc = "none"
    <3>1. attempts'[Len(attempts) + 1] = NewAttempt(q, pending)
      BY <1>t, <2>1, MountsNewType
    <3> QED
      BY <3>1, NewAttemptType
  <2> QED
    BY <1>t, <1>o, <2>1, <2>2, MountsNewType
<1>6. CASE Unmounts
  <2>1. CASE Boots
    <3>1. attempts' = <<>>
      BY <2>1 DEF Boots
    <3> QED
      BY <1>o, <3>1
  <2>2. CASE ~Boots
    BY <1>o, <1>6, <2>2 DEF Unmounts
  <2> QED
    BY <2>1, <2>2
<1> QED
  BY <1>t, <1>1, <1>2, <1>3, <1>4, <1>5, <1>6, MountStep

LEMMA InvStep == Inv /\ [Next]_vars => Inv'
<1> SUFFICES ASSUME Inv, [Next]_vars
             PROVE  Inv'
  OBVIOUS
<1>1. TypeOK /\ WaitsForOne
  BY DEF Inv, TakenOK, WaitsForOne
<1>2. TypeOK'
  BY <1>1, TypeStep
<1> QED
  BY <1>2, MountsStep, TakenStep, OneServiceStep DEF Inv

-----------------------------------------------------------------------------
(* The results.                                                             *)

THEOREM InvHolds == Spec => []Inv
<1> QED
  BY InvInit, InvStep, PTL DEF Spec

(* Every variable keeps its type whatever the interleaving of requests,    *)
(* attempts, Close and restarts; mounts, requests and clients refer to     *)
(* attempts that exist.                                                    *)
THEOREM MountTypeCorrect == Spec => []TypeOK
<1>1. Inv => TypeOK
  BY DEF Inv
<1> QED
  BY <1>1, InvHolds, PTL

(* A client is only ever routed to an open service of the repository it    *)
(* asked for: stop empties the mount before it closes the service, and an  *)
(* attempt that has lost its mount never publishes into it.                *)
THEOREM MountsServeOpen == Spec => []ServingIsOpen
<1>1. Inv => ServingIsOpen
  <2> SUFFICES ASSUME Inv, NEW r \in Repo, Mounted(r)
               PROVE  /\ attempts[mounts[r]].repo = r
                      /\ Published(mounts[r]) => IsOpen(mounts[r])
    BY DEF ServingIsOpen
  <2>1. /\ attempts[mounts[r]].repo = r /\ attempts[mounts[r]].svc # "closed"
        /\ mounts[r] \in DOMAIN attempts /\ attempts \in Seq(Attempt)
    BY DEF Inv, MountsOK, Mounted, TypeOK, ProcessTypeOK
  <2>2. attempts[mounts[r]].svc \in {"none", "open", "closed"}
    <3>1. attempts[mounts[r]] \in Attempt
      BY <2>1
    <3>2. \A x \in Attempt : x.svc \in {"none", "open", "closed"}
      BY DEF Attempt
    <3> QED
      BY <3>1, <3>2
  <2> QED
    BY <2>1, <2>2 DEF Published, IsOpen
<1> QED
  BY <1>1, InvHolds, PTL

(* Two open services never share a clone and its index, however many       *)
(* requests race: OpenWith takes the file lock before a service exists.    *)
THEOREM CloneServedOnce == Spec => []OneServicePerClone
<1>1. Inv => OneServicePerClone
  BY DEF Inv
<1> QED
  BY <1>1, InvHolds, PTL

-----------------------------------------------------------------------------
(* What requests that do not overlap leave behind.  The server does not     *)
(* prevent two requests on one repository from overlapping, and then these  *)
(* properties fail; they hold as long as no two do, whatever the attempts,  *)
(* the requests on other repositories, a shutdown or a crash do meanwhile.  *)

Apart ==
  \A a, b \in Admin :
    op[a].pc # "idle" /\ op[b].pc # "idle" /\ op[a].repo = op[b].repo => a = b

\* An attempt that is mounted, or that a request has taken and waits for.
Owned(n) ==
  \/ mounts[attempts[n].repo] = n
  \/ \E a \in Admin : op[a].pc = "wait" /\ op[a].attempt = n

OwnedOK ==
  \A n \in DOMAIN attempts :
    IsOpen(n) \/ (attempts[n].step # "done" /\ phase # "down") => Owned(n)

\* The attempt a request waits for is one of its repository.
WaitsOK == \A a \in Admin : op[a].pc = "wait" => attempts[op[a].attempt].repo = op[a].repo

\* From taking the mount to its return or the next start, nothing is mounted.
FreedOK ==
  \A a \in Admin :
    op[a].pc \in {"wait", "keys", "look", "start", "delete", "erase"} => ~Mounted(op[a].repo)

StartOK == \A a \in Admin : op[a].pc = "start" => op[a].repo \in registry

KnownOK == \A r \in Repo : Mounted(r) => r \in registry

KeysOK ==
  \A r \in keyFiles : \/ Mounted(r)
                      \/ \E a \in Admin : op[a].repo = r /\ op[a].pc \in {"wait", "keys"}

DownOK == phase = "down" => \A r \in Repo : Mounted(r) => ~IsOpen(mounts[r])

BootOK == phase = "booting" => \A a \in Admin : op[a].pc = "idle"

ApartInv == OwnedOK /\ WaitsOK /\ FreedOK /\ StartOK /\ KnownOK /\ KeysOK /\ DownOK /\ BootOK

\* How a request goes on.
Successors ==
  {<<"update", "take">>, <<"push", "take">>, <<"push", "check">>, <<"check", "take">>,
   <<"take", "delete">>, <<"take", "look">>, <<"take", "wait">>, <<"wait", "keys">>,
   <<"keys", "delete">>, <<"keys", "look">>, <<"look", "start">>, <<"delete", "erase">>}

LEMMA RequestGoesOn ==
  ASSUME TypeOK, NEW a \in Admin, OpStep(a)
  PROVE  /\ \A b \in Admin : b # a => op'[b] = op[b]
         /\ op[a].pc # "idle"
         /\ \/ op'[a].pc = "idle"
            \/ op'[a].repo = op[a].repo /\ <<op[a].pc, op'[a].pc>> \in Successors
<1>t. op \in [Admin -> Op] /\ op[a] \in Op
  BY DEF TypeOK, ProcessTypeOK
<1>1. ASSUME NEW pc, Then(a, pc), <<op[a].pc, pc>> \in Successors
      PROVE  /\ \A b \in Admin : b # a => op'[b] = op[b]
             /\ op'[a].repo = op[a].repo /\ op'[a].pc = pc
  BY <1>t, <1>1 DEF Then, Op
<1>2. ASSUME Return(a)
      PROVE  (\A b \in Admin : b # a => op'[b] = op[b]) /\ op'[a].pc = "idle"
  BY <1>t, <1>2, NoOpType DEF Return
<1>3. ASSUME NEW pc, NEW n, op' = [op EXCEPT ![a].pc = pc, ![a].attempt = n]
      PROVE  /\ \A b \in Admin : b # a => op'[b] = op[b]
             /\ op'[a].repo = op[a].repo /\ op'[a].pc = pc
  BY <1>t, <1>3 DEF Op
<1>4. CASE Updates(a)
  BY <1>1, <1>2, <1>4 DEF Updates, Successors
<1>5. CASE PushesNow(a)
  BY <1>1, <1>3, <1>5 DEF PushesNow, Successors
<1>6. CASE ChecksUnpushed(a)
  BY <1>2, <1>3, <1>6 DEF ChecksUnpushed, Successors
<1>7. CASE TakesMount(a)
  BY <1>1, <1>3, <1>7 DEF TakesMount, Successors
<1>8. CASE ClosesService(a)
  BY <1>3, <1>8 DEF ClosesService, Successors
<1>9. CASE RemovesKey(a)
  BY <1>1, <1>9 DEF RemovesKey, Successors
<1>10. CASE Looks(a)
  <2>1. ASSUME op' = [op EXCEPT ![a].pc = "start", ![a].flag = op[a].repo \in keyPending]
        PROVE  /\ \A b \in Admin : b # a => op'[b] = op[b]
               /\ op'[a].repo = op[a].repo /\ op'[a].pc = "start"
    BY <1>t, <2>1 DEF Op
  <2> QED
    BY <1>2, <1>10, <2>1 DEF Looks, Successors
<1>11. CASE StartsMount(a)
  BY <1>2, <1>11 DEF StartsMount
<1>12. CASE Deletes(a)
  BY <1>1, <1>2, <1>12 DEF Deletes, Successors
<1>13. CASE Erases(a)
  BY <1>2, <1>13 DEF Erases
<1> QED
  BY <1>4, <1>5, <1>6, <1>7, <1>8, <1>9, <1>10, <1>11, <1>12, <1>13 DEF OpStep

LEMMA RequestBegins ==
  ASSUME TypeOK, NEW a \in Admin, OpBegins(a)
  PROVE  /\ \A b \in Admin : b # a => op'[b] = op[b]
         /\ op[a].pc = "idle" /\ phase = "running" /\ UNCHANGED <<mounts, attempts, phase, keyFiles>>
         /\ registry \subseteq registry'
         /\ \/ op'[a].pc \in {"update", "take", "push"}
            \/ op'[a].pc = "start" /\ op'[a].repo \notin ids /\ op'[a].repo \in registry'
<1>t. op \in [Admin -> Op]
  BY DEF TypeOK, ProcessTypeOK
<1>1. ASSUME NEW kind, NEW pc, NEW r, NEW flag, Begins(a, kind, pc, r, flag)
      PROVE  /\ \A b \in Admin : b # a => op'[b] = op[b]
             /\ op[a].pc = "idle" /\ phase = "running" /\ op'[a].pc = pc /\ op'[a].repo = r
  BY <1>t, <1>1 DEF Begins
<1>2. CASE Adds(a)
  <2>1. PICK r \in Repo \ ids, pending \in BOOLEAN :
          Begins(a, "add", "start", r, pending) /\ registry' = registry \cup {r}
    BY <1>2 DEF Adds
  <2> QED
    BY <1>1, <1>2, <2>1 DEF Adds
<1>3. CASE Replaces(a)
  BY <1>1, <1>3 DEF Replaces, diskVars
<1>4. CASE Connects(a)
  <2>1. PICK r \in registry, pc \in {"update", "take"} : Begins(a, "connect", pc, r, FALSE)
    BY <1>4 DEF Connects
  <2> QED
    BY <1>1, <1>4, <2>1 DEF Connects, diskVars
<1>5. CASE Removes(a)
  BY <1>1, <1>5 DEF Removes, diskVars
<1> QED
  BY <1>2, <1>3, <1>4, <1>5 DEF OpBegins

\* What an attempt does in a step: it opens a service or writes a key only while
\* it is unfinished and the process is not down.
LEMMA AttemptGoesOn ==
  ASSUME TypeOK, NEW n \in DOMAIN attempts, AttemptStep(n)
  PROVE  /\ UNCHANGED <<registry, ids, phase, mounts, op>>
         /\ DOMAIN attempts' = DOMAIN attempts
         /\ \A m \in DOMAIN attempts : m # n => attempts'[m] = attempts[m]
         /\ attempts'[n].repo = attempts[n].repo
         /\ attempts'[n].step # "done" => attempts[n].step # "done"
         /\ attempts'[n].svc = "open" =>
              attempts[n].svc = "open" \/ (attempts[n].step # "done" /\ phase # "down")
         /\ \/ keyFiles' = keyFiles
            \/ /\ keyFiles' = keyFiles \cup {attempts[n].repo}
               /\ attempts[n].step # "done" /\ phase # "down"
<1>t. attempts \in Seq(Attempt) /\ attempts[n] \in Attempt
  BY DEF TypeOK, ProcessTypeOK
<1>1. ASSUME NEW x, attempts' = [attempts EXCEPT ![n] = x]
      PROVE  /\ DOMAIN attempts' = DOMAIN attempts /\ attempts'[n] = x
             /\ \A m \in DOMAIN attempts : m # n => attempts'[m] = attempts[m]
  BY <1>t, <1>1
<1>2. ASSUME NEW step, Advance(n, step), attempts[n].step # "done"
      PROVE  /\ DOMAIN attempts' = DOMAIN attempts
             /\ \A m \in DOMAIN attempts : m # n => attempts'[m] = attempts[m]
             /\ attempts'[n].repo = attempts[n].repo /\ attempts'[n].svc = attempts[n].svc
  BY <1>t, <1>2 DEF Advance, Attempt
<1>3. CASE ReadsCredential(n)
  BY <1>2, <1>3 DEF ReadsCredential, Fail
<1>4. CASE FindsClone(n) \/ MakesClone(n)
  BY <1>2, <1>4 DEF FindsClone, MakesClone, Fail, diskVars
<1>5. CASE Clones(n)
  BY <1>2, <1>5 DEF Clones, Fail
<1>6. CASE Opens(n)
  <2>1. UNCHANGED <<registry, ids, phase, mounts, op, keyFiles>> /\ attempts[n].step = "open"
    BY <1>6 DEF Opens, diskVars
  <2>2. CASE Fail(n)
    BY <1>2, <2>1, <2>2 DEF Fail
  <2>3. CASE /\ ~CutShort(n)
             /\ attempts' = [attempts EXCEPT ![n].step = "publish", ![n].svc = "open"]
    <3>1. /\ DOMAIN attempts' = DOMAIN attempts /\ attempts'[n].repo = attempts[n].repo
          /\ \A m \in DOMAIN attempts : m # n => attempts'[m] = attempts[m]
      BY <1>t, <2>3 DEF Attempt
    <3>2. phase # "down"
      BY <2>3 DEF CutShort, Stopping
    <3> QED
      BY <2>1, <3>1, <3>2
  <2> QED
    BY <1>6, <2>2, <2>3 DEF Opens
<1>7. CASE Publishes(n)
  <2>1. UNCHANGED <<registry, ids, phase, mounts, op, keyFiles>> /\ attempts[n].step = "publish"
    BY <1>7 DEF Publishes, diskVars
  <2>2. /\ DOMAIN attempts' = DOMAIN attempts /\ attempts'[n].repo = attempts[n].repo
        /\ \A m \in DOMAIN attempts : m # n => attempts'[m] = attempts[m]
        /\ attempts'[n].svc \in {attempts[n].svc, "none"}
    BY <1>t, <1>7 DEF Publishes, Attempt
  <2> QED
    BY <2>1, <2>2
<1>8. CASE Starts(n)
  <2>1. UNCHANGED <<registry, ids, phase, mounts, op, keyFiles>> /\ attempts[n].step = "start"
    BY <1>8 DEF Starts, diskVars
  <2>2. /\ DOMAIN attempts' = DOMAIN attempts /\ attempts'[n].repo = attempts[n].repo
        /\ \A m \in DOMAIN attempts : m # n => attempts'[m] = attempts[m]
        /\ attempts'[n].svc = attempts[n].svc
    BY <1>t, <1>8 DEF Starts, Attempt
  <2> QED
    BY <2>1, <2>2
<1>9. CASE PullsFirst(n)
  <2>1. UNCHANGED <<registry, ids, phase, mounts, op, keyFiles>>
    BY <1>9 DEF PullsFirst, diskVars
  <2>2. /\ DOMAIN attempts' = DOMAIN attempts /\ attempts'[n].repo = attempts[n].repo
        /\ \A m \in DOMAIN attempts : m # n => attempts'[m] = attempts[m]
        /\ attempts'[n].svc = attempts[n].svc /\ attempts'[n].step = attempts[n].step
    BY <1>t, <1>9 DEF PullsFirst, Attempt
  <2> QED
    BY <2>1, <2>2
<1> QED
  BY <1>3, <1>4, <1>5, <1>6, <1>7, <1>8, <1>9 DEF AttemptStep

\* The steps of requests that matter to the mounts and the attempts.
LEMMA RequestMounts ==
  ASSUME Inv, NEW a \in Admin, OpStep(a)
  PROVE  /\ UNCHANGED <<ids, phase>>
         /\ \/ UNCHANGED <<mounts, attempts>> /\ keyFiles' \subseteq keyFiles /\ op[a].pc \notin {"take", "wait", "start"}
            \/ TakesMount(a) \/ ClosesService(a) \/ StartsMount(a)
BY DEF OpStep, Updates, PushesNow, ChecksUnpushed, RemovesKey, Looks, Deletes, Erases,
       TakesMount, ClosesService, StartsMount, diskVars

\* TakesMount, as what it does to the attempts.
LEMMA TakeEffect ==
  ASSUME Inv, NEW a \in Admin, TakesMount(a)
  PROVE  /\ op[a].pc = "take" /\ UNCHANGED <<keyFiles, registry, ids, phase>> /\ op[a].repo \in Repo
         /\ mounts' = [mounts EXCEPT ![op[a].repo] = NoAttempt]
         /\ DOMAIN attempts' = DOMAIN attempts
         /\ \A m \in DOMAIN attempts : /\ attempts'[m].repo = attempts[m].repo
                                      /\ attempts'[m].svc = attempts[m].svc
                                      /\ attempts'[m].step = attempts[m].step
         /\ \/ mounts[op[a].repo] = NoAttempt /\ op'[a].pc # "wait"
            \/ /\ mounts[op[a].repo] \in DOMAIN attempts
               /\ op'[a].pc = "wait" /\ op'[a].repo = op[a].repo /\ op'[a].attempt = mounts[op[a].repo]
<1>t. /\ op \in [Admin -> Op] /\ op[a] \in Op /\ op[a].repo \in Repo
      /\ attempts \in Seq(Attempt) /\ \A m \in DOMAIN attempts : attempts[m] \in Attempt
      /\ mounts \in [Repo -> {NoAttempt} \cup DOMAIN attempts]
  BY DEF Inv, TypeOK, ProcessTypeOK, Op
<1>1. /\ op[a].pc = "take" /\ UNCHANGED <<keyFiles, registry, ids, phase>>
      /\ mounts' = [mounts EXCEPT ![op[a].repo] = NoAttempt]
  BY DEF TakesMount, diskVars
<1>2. CASE mounts[op[a].repo] = NoAttempt
  <2>1. attempts' = attempts /\ \E pc \in {"delete", "look"} : Then(a, pc)
    BY <1>2 DEF TakesMount
  <2>2. op'[a].pc # "wait"
    BY <1>t, <2>1 DEF Then, Op
  <2> QED
    BY <1>t, <1>1, <1>2, <2>1, <2>2
<1>3. CASE mounts[op[a].repo] # NoAttempt
  <2> DEFINE n == mounts[op[a].repo]
  <2>1. n \in DOMAIN attempts
    BY <1>t, <1>3
  <2>2. /\ op' = [op EXCEPT ![a].pc = "wait", ![a].attempt = n]
        /\ attempts' = [attempts EXCEPT ![n].cancelled = TRUE]
    BY <1>3 DEF TakesMount
  <2> HIDE DEF n
  <2>3. op'[a].pc = "wait" /\ op'[a].repo = op[a].repo /\ op'[a].attempt = n
    BY <1>t, <2>2 DEF Op
  <2>4. /\ DOMAIN attempts' = DOMAIN attempts
        /\ \A m \in DOMAIN attempts : /\ attempts'[m].repo = attempts[m].repo
                                     /\ attempts'[m].svc = attempts[m].svc
                                     /\ attempts'[m].step = attempts[m].step
    BY <1>t, <2>1, <2>2 DEF Attempt
  <2> QED
    BY <1>t, <1>1, <2>1, <2>3, <2>4 DEF n
<1> QED
  BY <1>2, <1>3

LEMMA CloseEffect ==
  ASSUME Inv, NEW a \in Admin, ClosesService(a)
  PROVE  /\ op[a].pc = "wait" /\ UNCHANGED <<mounts, keyFiles, registry, ids, phase>>
         /\ op[a].attempt \in DOMAIN attempts
         /\ DOMAIN attempts' = DOMAIN attempts
         /\ \A m \in DOMAIN attempts : attempts'[m].repo = attempts[m].repo
         /\ \A m \in DOMAIN attempts : m # op[a].attempt => attempts'[m] = attempts[m]
         /\ attempts'[op[a].attempt].step = "done" /\ attempts'[op[a].attempt].svc # "open"
         /\ op'[a].pc = "keys" /\ op'[a].repo = op[a].repo
<1>t. /\ op \in [Admin -> Op] /\ op[a] \in Op
      /\ attempts \in Seq(Attempt) /\ \A m \in DOMAIN attempts : attempts[m] \in Attempt
  BY DEF Inv, TypeOK, ProcessTypeOK
<1> DEFINE n == op[a].attempt
<1>1. /\ op[a].pc = "wait" /\ attempts[n].step = "done" /\ UNCHANGED <<mounts, keyFiles, registry, ids, phase>>
      /\ attempts' = [attempts EXCEPT ![n].svc = IF @ = "open" THEN "closed" ELSE @]
      /\ op' = [op EXCEPT ![a].pc = "keys", ![a].attempt = NoAttempt]
  BY DEF ClosesService, diskVars
<1>2. n \in DOMAIN attempts
  BY <1>1 DEF Inv, TakenOK
<1> HIDE DEF n
<1>3. op'[a].pc = "keys" /\ op'[a].repo = op[a].repo
  BY <1>t, <1>1 DEF Op
<1>4. /\ DOMAIN attempts' = DOMAIN attempts
      /\ \A m \in DOMAIN attempts : attempts'[m].repo = attempts[m].repo
      /\ \A m \in DOMAIN attempts : m # n => attempts'[m] = attempts[m]
      /\ attempts'[n].step = "done" /\ attempts'[n].svc # "open"
  BY <1>t, <1>1, <1>2 DEF Attempt
<1> QED
  BY <1>1, <1>2, <1>3, <1>4 DEF n

LEMMA NextCases ==
  ASSUME [Next]_vars
  PROVE  \/ \E n \in DOMAIN attempts : AttemptStep(n)
         \/ \E a \in Admin : OpBegins(a)
         \/ \E a \in Admin : OpStep(a)
         \/ CloseEnds \/ Boots \/ BootStarts
         \/ /\ UNCHANGED <<mounts, attempts, op, keyFiles, registry, ids>>
            /\ phase' = phase \/ (phase' \in {"running", "closing"} /\ phase # "down")
<1>1. Next \/ UNCHANGED vars
  OBVIOUS
<1>2. ASSUME \/ \E n \in DOMAIN attempts : Pushes(n)
             \/ Routes \/ Writes \/ UNCHANGED vars
      PROVE  UNCHANGED <<mounts, attempts, op, keyFiles, registry, ids, phase>>
  BY <1>2 DEF Pushes, Routes, Writes, vars, processVars, diskVars
<1>3. ASSUME CloseBegins \/ BootEnds
      PROVE  /\ UNCHANGED <<mounts, attempts, op, keyFiles, registry, ids>>
             /\ phase' \in {"running", "closing"} /\ phase # "down"
  BY <1>3 DEF CloseBegins, BootEnds, diskVars
<1>4. \/ \E n \in DOMAIN attempts : AttemptStep(n)
      \/ \E n \in DOMAIN attempts : Pushes(n)
      \/ \E a \in Admin : OpBegins(a)
      \/ \E a \in Admin : OpStep(a)
      \/ Routes \/ Writes \/ CloseBegins \/ CloseEnds \/ Boots \/ BootStarts \/ BootEnds
      \/ UNCHANGED vars
  BY <1>1 DEF Next
<1>5. CASE (\E n \in DOMAIN attempts : Pushes(n)) \/ Routes \/ Writes \/ UNCHANGED vars
  BY <1>2, <1>5
<1>6. CASE CloseBegins \/ BootEnds
  BY <1>3, <1>6
<1> QED
  BY <1>4, <1>5, <1>6

\* A new attempt is mounted, and serves nothing yet.
LEMMA MountEffect ==
  ASSUME Inv, NEW r \in Repo, NEW pending \in BOOLEAN, MountsNew(r, pending)
  PROVE  \E n \in DOMAIN attempts' :
           /\ n \notin DOMAIN attempts /\ n # NoAttempt
           /\ DOMAIN attempts' = DOMAIN attempts \cup {n}
           /\ \A m \in DOMAIN attempts : attempts'[m] = attempts[m]
           /\ attempts'[n].repo = r /\ attempts'[n].svc = "none"
           /\ mounts'[r] = n
           /\ \A q \in Repo : q # r => mounts'[q] = mounts[q]
<1>t. attempts \in Seq(Attempt) /\ mounts \in [Repo -> {NoAttempt} \cup DOMAIN attempts]
  BY DEF Inv, TypeOK, ProcessTypeOK
<1> DEFINE n == Len(attempts) + 1
<1>1. mounts' = [mounts EXCEPT ![r] = n]
  BY DEF MountsNew
<1>2. /\ n \notin DOMAIN attempts /\ n # NoAttempt
      /\ DOMAIN attempts' = DOMAIN attempts \cup {n}
      /\ \A m \in DOMAIN attempts : attempts'[m] = attempts[m]
      /\ attempts'[n] = NewAttempt(r, pending)
  BY <1>t, MountsNewType
<1> HIDE DEF n
<1>3. attempts'[n].repo = r /\ attempts'[n].svc = "none"
  BY <1>2, NewAttemptType
<1>4. mounts'[r] = n /\ \A q \in Repo : q # r => mounts'[q] = mounts[q]
  BY <1>t, <1>1
<1> QED
  BY <1>2, <1>3, <1>4

\* Only a starting request and the boot mount anything, and both know it.
LEMMA MountingMoves ==
  ASSUME Inv, BootStarts \/ \E a \in Admin : StartsMount(a)
  PROVE  \E r \in Repo, pending \in BOOLEAN :
           /\ MountsNew(r, pending)
           /\ \/ BootStarts /\ r \in registry /\ ~Mounted(r)
              \/ \E a \in Admin : StartsMount(a) /\ r = op[a].repo /\ op[a].pc = "start"
<1>t. registry \subseteq Repo /\ op \in [Admin -> Op]
  BY DEF Inv, TypeOK, DiskTypeOK, ProcessTypeOK
<1>1. CASE BootStarts
  <2>1. PICK r \in registry : ~Mounted(r) /\ MountsNew(r, r \in keyPending)
    BY <1>1 DEF BootStarts
  <2>2. r \in Repo /\ (r \in keyPending) \in BOOLEAN
    BY <1>t
  <2> QED
    BY <1>1, <2>1, <2>2
<1>2. ASSUME NEW a \in Admin, StartsMount(a)
      PROVE  \E r \in Repo, pending \in BOOLEAN :
               MountsNew(r, pending) /\ r = op[a].repo /\ op[a].pc = "start"
  <2>1. op[a].repo \in Repo /\ op[a].flag \in BOOLEAN
    BY <1>t DEF Op
  <2> QED
    BY <1>2, <2>1 DEF StartsMount
<1> QED
  BY <1>1, <1>2

LEMMA OwnedStep ==
  ASSUME Inv, ApartInv, [Next]_vars
  PROVE  OwnedOK'
<1> SUFFICES ASSUME NEW m \in DOMAIN attempts',
                    attempts'[m].svc = "open" \/ (attempts'[m].step # "done" /\ phase' # "down")
             PROVE  \/ mounts'[attempts'[m].repo] = m
                    \/ \E b \in Admin : op'[b].pc = "wait" /\ op'[b].attempt = m
  BY DEF OwnedOK, Owned, IsOpen
<1>t. /\ TypeOK /\ NoAttempt \notin DOMAIN attempts
      /\ \A n \in DOMAIN attempts : attempts[n].repo \in Repo
      /\ mounts \in [Repo -> {NoAttempt} \cup DOMAIN attempts]
  <2>1. attempts \in Seq(Attempt) /\ \A n \in DOMAIN attempts : attempts[n] \in Attempt
    BY DEF Inv, TypeOK, ProcessTypeOK
  <2> QED
    BY <2>1 DEF Inv, TypeOK, ProcessTypeOK, Attempt, NoAttempt
<1>p. op \in [Admin -> Op]
  BY DEF Inv, TypeOK, ProcessTypeOK
<1>o. ASSUME m \in DOMAIN attempts, attempts[m].svc = "open" \/ (attempts[m].step # "done" /\ phase # "down")
      PROVE  \/ mounts[attempts[m].repo] = m
             \/ \E b \in Admin : op[b].pc = "wait" /\ op[b].attempt = m
  BY <1>o DEF ApartInv, OwnedOK, Owned, IsOpen
<1>1. CASE \E n \in DOMAIN attempts : AttemptStep(n)
  <2>1. PICK n \in DOMAIN attempts : AttemptStep(n)
    BY <1>1
  <2>2. /\ UNCHANGED <<phase, mounts, op>> /\ m \in DOMAIN attempts
        /\ attempts'[m].repo = attempts[m].repo
        /\ attempts[m].svc = "open" \/ (attempts[m].step # "done" /\ phase # "down")
    BY <1>t, <2>1, AttemptGoesOn
  <2> QED
    BY <1>o, <2>2
<1>2. CASE \E a \in Admin : OpBegins(a)
  <2>1. PICK a \in Admin : OpBegins(a)
    BY <1>2
  <2> QED
    BY <1>o, <1>t, <2>1, RequestBegins
<1>3. ASSUME NEW a \in Admin, OpStep(a), UNCHANGED <<mounts, attempts, phase>>, op[a].pc # "wait"
      PROVE  \/ mounts'[attempts'[m].repo] = m
             \/ \E b \in Admin : op'[b].pc = "wait" /\ op'[b].attempt = m
  BY <1>o, <1>t, <1>3, RequestGoesOn
<1>4. ASSUME NEW a \in Admin, OpStep(a), TakesMount(a)
      PROVE  \/ mounts'[attempts'[m].repo] = m
             \/ \E b \in Admin : op'[b].pc = "wait" /\ op'[b].attempt = m
  <2>1. /\ op[a].pc = "take" /\ phase' = phase /\ m \in DOMAIN attempts
        /\ attempts'[m].repo = attempts[m].repo /\ attempts'[m].svc = attempts[m].svc
        /\ attempts'[m].step = attempts[m].step
        /\ mounts' = [mounts EXCEPT ![op[a].repo] = NoAttempt]
        /\ mounts[op[a].repo] = m => op'[a].pc = "wait" /\ op'[a].attempt = m
    BY <1>4, <1>t, TakeEffect
  <2>2. CASE mounts[attempts[m].repo] = m
    BY <1>t, <2>1, <2>2
  <2>3. CASE \E b \in Admin : op[b].pc = "wait" /\ op[b].attempt = m
    BY <1>4, <1>t, <2>1, <2>3, RequestGoesOn
  <2> QED
    BY <1>o, <2>1, <2>2, <2>3
<1>5. ASSUME NEW a \in Admin, OpStep(a), ClosesService(a)
      PROVE  \/ mounts'[attempts'[m].repo] = m
             \/ \E b \in Admin : op'[b].pc = "wait" /\ op'[b].attempt = m
  <2>1. /\ mounts' = mounts /\ phase' = phase /\ m \in DOMAIN attempts
        /\ m # op[a].attempt /\ attempts'[m] = attempts[m]
    BY <1>5, CloseEffect
  <2> QED
    BY <1>o, <1>t, <1>5, <2>1, RequestGoesOn
<1>6. ASSUME NEW r \in Repo, NEW pending \in BOOLEAN, MountsNew(r, pending), ~Mounted(r), phase' = phase,
             \A b \in Admin : op[b].pc = "wait" => op'[b] = op[b]
      PROVE  \/ mounts'[attempts'[m].repo] = m
             \/ \E b \in Admin : op'[b].pc = "wait" /\ op'[b].attempt = m
  <2>1. PICK n \in DOMAIN attempts' :
           /\ n \notin DOMAIN attempts
           /\ DOMAIN attempts' = DOMAIN attempts \cup {n}
           /\ \A k \in DOMAIN attempts : attempts'[k] = attempts[k]
           /\ attempts'[n].repo = r
           /\ mounts'[r] = n
           /\ \A q \in Repo : q # r => mounts'[q] = mounts[q]
    BY <1>6, MountEffect
  <2>2. CASE m = n
    BY <2>1, <2>2
  <2>3. CASE m \in DOMAIN attempts /\ mounts[attempts[m].repo] = m
    <3>1. attempts[m].repo # r
      BY <1>6, <1>t, <2>3 DEF Mounted
    <3> QED
      BY <1>t, <2>1, <2>3, <3>1
  <2>4. CASE m \in DOMAIN attempts /\ \E b \in Admin : op[b].pc = "wait" /\ op[b].attempt = m
    BY <1>6, <2>1, <2>4
  <2> QED
    BY <1>6, <1>o, <2>1, <2>2, <2>3, <2>4
<1>7. ASSUME NEW a \in Admin, OpStep(a), StartsMount(a)
      PROVE  \/ mounts'[attempts'[m].repo] = m
             \/ \E b \in Admin : op'[b].pc = "wait" /\ op'[b].attempt = m
  <2>1. op[a].pc = "start" /\ phase' = phase /\ MountsNew(op[a].repo, op[a].flag)
    BY <1>7 DEF StartsMount
  <2>2. op[a].repo \in Repo /\ op[a].flag \in BOOLEAN
    BY <1>p DEF Op
  <2>3. ~Mounted(op[a].repo)
    BY <2>1 DEF ApartInv, FreedOK
  <2>4. \A b \in Admin : op[b].pc = "wait" => op'[b] = op[b]
    BY <1>7, <1>t, <2>1, RequestGoesOn
  <2> QED
    BY <1>6, <2>1, <2>2, <2>3, <2>4
<1>8. CASE BootStarts
  <2>1. PICK r \in registry : ~Mounted(r) /\ MountsNew(r, r \in keyPending)
    BY <1>8 DEF BootStarts
  <2>2. r \in Repo /\ (r \in keyPending) \in BOOLEAN /\ op' = op /\ phase' = phase
    BY <1>8, <1>t DEF TypeOK, DiskTypeOK, BootStarts
  <2> QED
    BY <1>6, <2>1, <2>2
<1>9. CASE CloseEnds
  <2>1. /\ phase' = "down" /\ op' = op /\ m \in DOMAIN attempts /\ attempts[m].step = "done"
        /\ attempts'[m] = IF mounts[attempts[m].repo] = m /\ Published(m)
                          THEN [attempts[m] EXCEPT !.svc = "closed"] ELSE attempts[m]
    BY <1>9 DEF CloseEnds, AllEnded
  <2>2. attempts[m] \in Attempt
    BY <1>t, <2>1 DEF TypeOK, ProcessTypeOK
  <2>3. attempts[m].svc = "open" /\ ~(mounts[attempts[m].repo] = m /\ Published(m))
    BY <2>1, <2>2 DEF Attempt
  <2>4. mounts[attempts[m].repo] # m
    BY <2>1, <2>3 DEF Published
  <2> QED
    BY <1>o, <2>1, <2>3, <2>4
<1>10. CASE Boots
  BY <1>10 DEF Boots
<1>11. CASE /\ UNCHANGED <<mounts, attempts, op>>
            /\ phase' = phase \/ (phase' \in {"running", "closing"} /\ phase # "down")
  BY <1>o, <1>11
<1>12. CASE \E a \in Admin : OpStep(a)
  <2>1. PICK a \in Admin : OpStep(a)
    BY <1>12
  <2> QED
    BY <1>3, <1>4, <1>5, <1>7, <2>1, RequestMounts
<1> QED
  BY <1>1, <1>2, <1>8, <1>9, <1>10, <1>11, <1>12, NextCases

\* Nobody has a request in progress while the process boots.
LEMMA BootStep == Inv /\ BootOK /\ [Next]_vars => BootOK'
<1> SUFFICES ASSUME Inv, BootOK, [Next]_vars, phase' = "booting", NEW a \in Admin
             PROVE  op'[a].pc = "idle"
  BY DEF BootOK
<1>t. TypeOK
  BY DEF Inv
<1>1. CASE Boots
  BY <1>1, NoOpType DEF Boots
<1>2. CASE ~Boots
  <2>1. ~CloseEnds
    BY DEF CloseEnds
  <2>2. ASSUME NEW b \in Admin PROVE ~OpBegins(b)
    BY <1>t, RequestBegins
  <2>3. phase = "booting"
    <3>1. ASSUME NEW b \in Admin, OpStep(b) PROVE phase' = phase
      BY <3>1, RequestMounts DEF TakesMount, ClosesService, StartsMount
    <3>2. ASSUME NEW n \in DOMAIN attempts, AttemptStep(n) PROVE phase' = phase
      BY <1>t, <3>2, AttemptGoesOn
    <3> QED
      BY <1>2, <2>1, <2>2, <3>1, <3>2, NextCases DEF BootStarts
  <2>4. ASSUME NEW b \in Admin PROVE ~OpStep(b)
    BY <1>t, <2>3, RequestGoesOn DEF BootOK
  <2>5. op' = op
    <3>1. ASSUME NEW n \in DOMAIN attempts, AttemptStep(n) PROVE op' = op
      BY <1>t, <3>1, AttemptGoesOn
    <3> QED
      BY <1>2, <2>1, <2>2, <2>4, <3>1, NextCases DEF BootStarts
  <2> QED
    BY <2>3, <2>5 DEF BootOK
<1> QED
  BY <1>1, <1>2

\* The repositories of attempts never change, and no attempt is forgotten before
\* the next process.
LEMMA AttemptsStay ==
  ASSUME Inv, [Next]_vars, ~Boots, NEW n \in DOMAIN attempts
  PROVE  n \in DOMAIN attempts' /\ attempts'[n].repo = attempts[n].repo
<1>t. attempts \in Seq(Attempt) /\ \A m \in DOMAIN attempts : attempts[m] \in Attempt
  BY DEF Inv, TypeOK, ProcessTypeOK
<1>1. ASSUME NEW m \in DOMAIN attempts, AttemptStep(m)
      PROVE  n \in DOMAIN attempts' /\ attempts'[n].repo = attempts[n].repo
  BY <1>1, AttemptGoesOn DEF Inv
<1>2. ASSUME NEW a \in Admin, OpBegins(a)
      PROVE  n \in DOMAIN attempts' /\ attempts'[n].repo = attempts[n].repo
  BY <1>2, RequestBegins DEF Inv
<1>3. ASSUME BootStarts \/ \E a \in Admin : StartsMount(a)
      PROVE  n \in DOMAIN attempts' /\ attempts'[n].repo = attempts[n].repo
  BY <1>3, MountingMoves, MountEffect
<1>4. ASSUME NEW a \in Admin, OpStep(a)
      PROVE  n \in DOMAIN attempts' /\ attempts'[n].repo = attempts[n].repo
  <2>1. CASE TakesMount(a)
    BY <2>1, TakeEffect
  <2>2. CASE ClosesService(a)
    BY <2>2, CloseEffect
  <2> QED
    BY <1>3, <1>4, <2>1, <2>2, RequestMounts
<1>5. ASSUME CloseEnds
      PROVE  n \in DOMAIN attempts' /\ attempts'[n].repo = attempts[n].repo
  <2>1. /\ DOMAIN attempts' = DOMAIN attempts
        /\ attempts'[n] \in {attempts[n], [attempts[n] EXCEPT !.svc = "closed"]}
    BY <1>5 DEF CloseEnds
  <2> QED
    BY <1>t, <2>1 DEF Attempt
<1> QED
  BY <1>1, <1>2, <1>3, <1>4, <1>5, NextCases

LEMMA WaitsStep == Inv /\ WaitsOK /\ [Next]_vars => WaitsOK'
<1> SUFFICES ASSUME Inv, WaitsOK, [Next]_vars, NEW b \in Admin, op'[b].pc = "wait"
             PROVE  attempts'[op'[b].attempt].repo = op'[b].repo
  BY DEF WaitsOK
<1>t. TypeOK
  BY DEF Inv
<1>1. ~Boots
  BY NoOpType DEF Boots
<1>2. CASE op'[b] = op[b]
  <2>1. op[b].attempt \in DOMAIN attempts /\ attempts[op[b].attempt].repo = op[b].repo
    BY <1>2 DEF Inv, TakenOK, WaitsOK
  <2> QED
    BY <1>1, <1>2, <2>1, AttemptsStay
<1>3. ASSUME OpStep(b), op'[b].pc = "wait"
      PROVE  attempts'[op'[b].attempt].repo = op'[b].repo
  <2>1. op[b].pc = "take"
    BY <1>t, <1>3, RequestGoesOn DEF Successors
  <2>2. TakesMount(b)
    BY <1>3, <2>1, RequestMounts DEF ClosesService, StartsMount
  <2>3. /\ op[b].repo \in Repo /\ mounts[op[b].repo] \in DOMAIN attempts
        /\ op'[b].repo = op[b].repo /\ op'[b].attempt = mounts[op[b].repo]
    BY <1>3, <2>2, TakeEffect
  <2>4. attempts[mounts[op[b].repo]].repo = op[b].repo
    <3>1. attempts \in Seq(Attempt)
      BY <1>t DEF TypeOK, ProcessTypeOK
    <3>2. mounts[op[b].repo] # NoAttempt
      BY <2>3, <3>1 DEF NoAttempt
    <3> QED
      BY <2>3, <3>2 DEF Inv, MountsOK, Mounted
  <2> QED
    BY <1>1, <2>3, <2>4, AttemptsStay
<1>4. CASE \E n \in DOMAIN attempts : AttemptStep(n)
  BY <1>t, <1>2, <1>4, AttemptGoesOn
<1>5. CASE \E a \in Admin : OpBegins(a)
  BY <1>t, <1>2, <1>5, RequestBegins
<1>6. CASE \E a \in Admin : OpStep(a)
  BY <1>t, <1>2, <1>3, <1>6, RequestGoesOn
<1>7. CASE CloseEnds \/ BootStarts \/ UNCHANGED op
  BY <1>2, <1>7 DEF CloseEnds, BootStarts
<1> QED
  BY <1>1, <1>4, <1>5, <1>6, <1>7, NextCases

\* The registry loses a repository only to the request that removes it, and the
\* key directory gains one only from an attempt.
LEMMA RegistryMoves ==
  ASSUME Inv, [Next]_vars, NEW r \in registry, r \notin registry'
  PROVE  \E a \in Admin : OpStep(a) /\ Deletes(a) /\ r = op[a].repo /\ op[a].pc = "delete"
<1>1. ASSUME NEW n \in DOMAIN attempts, AttemptStep(n) PROVE FALSE
  BY <1>1, AttemptGoesOn DEF Inv
<1>2. ASSUME NEW a \in Admin, OpBegins(a) PROVE FALSE
  BY <1>2, RequestBegins DEF Inv
<1>3. ASSUME NEW a \in Admin, OpStep(a)
      PROVE  Deletes(a) /\ r = op[a].repo /\ op[a].pc = "delete"
  <2>1. Deletes(a)
    BY <1>3 DEF OpStep, Updates, PushesNow, ChecksUnpushed, TakesMount, ClosesService, RemovesKey,
             Looks, StartsMount, Erases, diskVars
  <2> QED
    BY <1>3, <2>1 DEF Deletes
<1>4. ~(CloseEnds \/ Boots \/ BootStarts)
  BY DEF CloseEnds, Boots, BootStarts, diskVars
<1> QED
  BY <1>1, <1>2, <1>3, <1>4, NextCases

\* The mounts that are taken away, and those that come.
LEMMA MountsCome ==
  ASSUME Inv, [Next]_vars, NEW r \in Repo, ~Mounted(r), Mounted(r)'
  PROVE  \/ BootStarts /\ r \in registry
         \/ \E a \in Admin : OpStep(a) /\ StartsMount(a) /\ r = op[a].repo /\ op[a].pc = "start"
<1>t. mounts \in [Repo -> {NoAttempt} \cup DOMAIN attempts]
  BY DEF Inv, TypeOK, ProcessTypeOK
<1>1. mounts'[r] # mounts[r] /\ mounts'[r] # NoAttempt
  BY DEF Mounted
<1>2. ASSUME NEW n \in DOMAIN attempts, AttemptStep(n) PROVE FALSE
  BY <1>1, <1>2, AttemptGoesOn DEF Inv
<1>3. ASSUME NEW a \in Admin, OpBegins(a) PROVE FALSE
  BY <1>1, <1>3, RequestBegins DEF Inv
<1>4. ASSUME NEW a \in Admin, OpStep(a) PROVE StartsMount(a)
  <2>1. ~TakesMount(a)
    BY <1>t, <1>1, TakeEffect
  <2>2. ~ClosesService(a)
    BY <1>1, CloseEffect
  <2> QED
    BY <1>1, <1>4, <2>1, <2>2, RequestMounts
<1>5. ~(CloseEnds \/ Boots)
  BY <1>1 DEF CloseEnds, Boots
<1>7. ASSUME NEW a \in Admin, OpStep(a)
      PROVE  StartsMount(a) /\ r = op[a].repo /\ op[a].pc = "start"
  <2>1. StartsMount(a) /\ MountsNew(op[a].repo, op[a].flag) /\ op[a].pc = "start"
    BY <1>4, <1>7 DEF StartsMount
  <2>2. op[a].repo \in Repo /\ op[a].flag \in BOOLEAN
    <3>1. op \in [Admin -> Op]
      BY DEF Inv, TypeOK, ProcessTypeOK
    <3> QED
      BY <3>1 DEF Op
  <2> QED
    BY <1>1, <2>1, <2>2, MountEffect
<1>8. CASE BootStarts
  <2>1. PICK q \in registry : ~Mounted(q) /\ MountsNew(q, q \in keyPending)
    BY <1>8 DEF BootStarts
  <2>2. q \in Repo /\ (q \in keyPending) \in BOOLEAN
    BY DEF Inv, TypeOK, DiskTypeOK
  <2> QED
    BY <1>1, <1>8, <2>1, <2>2, MountEffect
<1> QED
  BY <1>1, <1>2, <1>3, <1>5, <1>7, <1>8, NextCases

\* What an attempt or another request leaves of a request in progress.
LEMMA RequestsMove ==
  ASSUME Inv, [Next]_vars, NEW a \in Admin, op'[a] # op[a]
  PROVE  \/ OpBegins(a)
         \/ OpStep(a)
         \/ Boots /\ op'[a].pc = "idle"
<1>t. TypeOK
  BY DEF Inv
<1>1. ASSUME NEW n \in DOMAIN attempts, AttemptStep(n) PROVE FALSE
  BY <1>t, <1>1, AttemptGoesOn
<1>2. ASSUME NEW b \in Admin, OpBegins(b) PROVE b = a
  BY <1>t, <1>2, RequestBegins
<1>3. ASSUME NEW b \in Admin, OpStep(b) PROVE b = a
  BY <1>t, <1>3, RequestGoesOn
<1>4. ~(CloseEnds \/ BootStarts)
  BY DEF CloseEnds, BootStarts
<1>5. Boots => op'[a].pc = "idle"
  BY NoOpType DEF Boots
<1> QED
  BY <1>1, <1>2, <1>3, <1>4, <1>5, NextCases

LEMMA FreedStep == Inv /\ ApartInv /\ Apart /\ [Next]_vars => FreedOK'
<1> DEFINE Free == {"wait", "keys", "look", "start", "delete", "erase"}
<1> SUFFICES ASSUME Inv, ApartInv, Apart, [Next]_vars, NEW b \in Admin, op'[b].pc \in Free
             PROVE  mounts'[op'[b].repo] = NoAttempt
  BY DEF FreedOK, Mounted
<1>t. /\ TypeOK /\ op \in [Admin -> Op] /\ op[b].repo \in Repo
      /\ mounts \in [Repo -> {NoAttempt} \cup DOMAIN attempts] /\ registry \subseteq ids
  <2>1. op \in [Admin -> Op]
    BY DEF Inv, TypeOK, ProcessTypeOK
  <2> QED
    BY <2>1 DEF Inv, TypeOK, ProcessTypeOK, DiskTypeOK, Op
<1>s. ASSUME NEW a \in Admin, OpStep(a), StartsMount(a)
      PROVE  op'[a].pc = "idle"
  BY <1>t, <1>s, NoOpType DEF StartsMount, Return
<1>1. CASE op'[b] = op[b]
  <2>1. PICK r \in Repo : r = op[b].repo
    BY <1>t
  <2>2. ~Mounted(r)
    BY <1>1, <2>1 DEF ApartInv, FreedOK
  <2>3. SUFFICES ASSUME Mounted(r)' PROVE FALSE
    BY <1>1, <2>1 DEF Mounted
  <2>4. ~BootStarts
    BY <1>1 DEF BootStarts, ApartInv, BootOK
  <2>5. PICK a \in Admin : OpStep(a) /\ StartsMount(a) /\ r = op[a].repo /\ op[a].pc = "start"
    BY <2>2, <2>3, <2>4, MountsCome
  <2>6. a = b
    BY <1>1, <2>1, <2>5 DEF Apart
  <2> QED
    BY <1>1, <1>s, <2>5, <2>6
<1>2. CASE OpBegins(b)
  <2>1. op'[b].repo \notin ids /\ op'[b].repo \in registry' /\ mounts' = mounts
    BY <1>t, <1>2, RequestBegins
  <2>2. op'[b].repo \in Repo
    <3>1. registry' \subseteq Repo
      BY DiskType DEF Inv, DiskTypeOK
    <3> QED
      BY <2>1, <3>1
  <2> QED
    BY <1>t, <2>1, <2>2 DEF ApartInv, KnownOK, Mounted
<1>3. CASE OpStep(b)
  <2>1. op'[b].repo = op[b].repo /\ op[b].pc \in {"take"} \cup Free
    BY <1>t, <1>3, RequestGoesOn DEF Successors
  <2>2. CASE op[b].pc = "take"
    <3>1. TakesMount(b)
      BY <1>3, <2>2, RequestMounts DEF ClosesService, StartsMount
    <3> QED
      BY <1>t, <2>1, <3>1, TakeEffect
  <2>3. CASE op[b].pc \in Free
    <3>1. mounts' = mounts
      BY <1>s, <1>3, <2>3, RequestMounts DEF ClosesService, TakesMount
    <3> QED
      BY <1>t, <2>1, <2>3, <3>1 DEF ApartInv, FreedOK, Mounted
  <2> QED
    BY <2>1, <2>2, <2>3
<1> QED
  BY <1>1, <1>2, <1>3, RequestsMove

LEMMA KnownStep == Inv /\ ApartInv /\ [Next]_vars => KnownOK'
<1> SUFFICES ASSUME Inv, ApartInv, [Next]_vars, NEW r \in Repo, Mounted(r)', r \notin registry'
             PROVE  FALSE
  BY DEF KnownOK
<1>1. CASE Mounted(r)
  <2>1. r \in registry
    BY <1>1 DEF ApartInv, KnownOK
  <2>2. PICK a \in Admin : r = op[a].repo /\ op[a].pc = "delete"
    BY <2>1, RegistryMoves
  <2> QED
    BY <1>1, <2>2 DEF ApartInv, FreedOK
<1>2. CASE ~Mounted(r)
  <2>1. ASSUME BootStarts, r \in registry PROVE FALSE
    BY <2>1 DEF BootStarts, diskVars
  <2>2. ASSUME NEW a \in Admin, StartsMount(a), r = op[a].repo, op[a].pc = "start" PROVE FALSE
    BY <2>2 DEF StartsMount, diskVars, ApartInv, StartOK
  <2> QED
    BY <1>2, <2>1, <2>2, MountsCome
<1> QED
  BY <1>1, <1>2

LEMMA StartStep == Inv /\ ApartInv /\ Apart /\ [Next]_vars => StartOK'
<1> SUFFICES ASSUME Inv, ApartInv, Apart, [Next]_vars, NEW b \in Admin, op'[b].pc = "start"
             PROVE  op'[b].repo \in registry'
  BY DEF StartOK
<1>t. TypeOK
  BY DEF Inv
<1>1. CASE op'[b] = op[b]
  <2>1. op[b].repo \in registry
    BY <1>1 DEF ApartInv, StartOK
  <2>2. SUFFICES ASSUME op[b].repo \notin registry' PROVE FALSE
    BY <1>1
  <2>3. PICK a \in Admin : op[b].repo = op[a].repo /\ op[a].pc = "delete"
    BY <2>1, <2>2, RegistryMoves
  <2> QED
    BY <1>1, <2>3 DEF Apart
<1>2. CASE OpBegins(b)
  BY <1>t, <1>2, RequestBegins
<1>3. CASE OpStep(b)
  <2>1. op[b].pc = "look" /\ op'[b].repo = op[b].repo
    BY <1>t, <1>3, RequestGoesOn DEF Successors
  <2>2. Looks(b)
    BY <1>3, <2>1 DEF OpStep, Updates, PushesNow, ChecksUnpushed, TakesMount, ClosesService, RemovesKey,
             StartsMount, Deletes, Erases
  <2>3. op[b].repo \in registry /\ registry' = registry
    BY <1>t, <2>2, NoOpType DEF Looks, Return, diskVars, TypeOK, ProcessTypeOK
  <2> QED
    BY <2>1, <2>3
<1> QED
  BY <1>1, <1>2, <1>3, RequestsMove

LEMMA KeysStep == Inv /\ ApartInv /\ [Next]_vars => KeysOK'
<1> SUFFICES ASSUME Inv, ApartInv, [Next]_vars, NEW r \in keyFiles'
             PROVE  \/ mounts'[r] # NoAttempt
                    \/ \E a \in Admin : op'[a].repo = r /\ op'[a].pc \in {"wait", "keys"}
  BY DEF KeysOK, Mounted
<1>t. /\ TypeOK /\ NoAttempt \notin DOMAIN attempts
      /\ mounts \in [Repo -> {NoAttempt} \cup DOMAIN attempts]
  <2>1. attempts \in Seq(Attempt)
    BY DEF Inv, TypeOK, ProcessTypeOK
  <2> QED
    BY <2>1 DEF Inv, TypeOK, ProcessTypeOK, NoAttempt
<1>k. ASSUME r \in keyFiles
      PROVE  \/ mounts[r] # NoAttempt
             \/ \E a \in Admin : op[a].repo = r /\ op[a].pc \in {"wait", "keys"}
  BY <1>k DEF ApartInv, KeysOK, Mounted
<1>r. r \in Repo
  BY DiskType DEF Inv, DiskTypeOK
<1>1. CASE \E n \in DOMAIN attempts : AttemptStep(n)
  <2>1. PICK n \in DOMAIN attempts : AttemptStep(n)
    BY <1>1
  <2>2. mounts' = mounts /\ op' = op
    BY <1>t, <2>1, AttemptGoesOn
  <2>3. CASE r \in keyFiles
    BY <1>k, <2>2, <2>3
  <2>4. CASE r = attempts[n].repo /\ attempts[n].step # "done" /\ phase # "down"
    <3>1. Owned(n)
      BY <2>4 DEF ApartInv, OwnedOK
    <3> QED
      BY <1>t, <2>2, <2>4, <3>1 DEF Owned, ApartInv, WaitsOK
  <2> QED
    BY <1>t, <2>1, <2>3, <2>4, AttemptGoesOn
<1>2. CASE \E a \in Admin : OpBegins(a)
  BY <1>t, <1>k, <1>2, RequestBegins
<1>3. ASSUME NEW a \in Admin, OpStep(a)
      PROVE  \/ mounts'[r] # NoAttempt
             \/ \E b \in Admin : op'[b].repo = r /\ op'[b].pc \in {"wait", "keys"}
  <2>1. r \in keyFiles
    BY <1>3, RequestMounts DEF TakesMount, ClosesService, StartsMount, diskVars
  <2>2. CASE mounts[r] # NoAttempt
    <3>1. CASE TakesMount(a)
      BY <1>r, <1>t, <2>2, <3>1, TakeEffect
    <3>2. CASE StartsMount(a)
      <4>1. PICK q \in Repo, pending \in BOOLEAN : MountsNew(q, pending)
        BY <3>2, MountingMoves
      <4> QED
        BY <1>r, <2>2, <4>1, MountEffect
    <3>3. CASE mounts' = mounts
      BY <2>2, <3>3
    <3> QED
      BY <1>3, <3>1, <3>2, <3>3, RequestMounts, CloseEffect
  <2>3. ASSUME NEW b \in Admin, op[b].repo = r, op[b].pc \in {"wait", "keys"}
        PROVE  op'[b].repo = r /\ op'[b].pc \in {"wait", "keys"}
    <3>1. CASE b # a
      BY <1>3, <1>t, <2>3, <3>1, RequestGoesOn
    <3>2. CASE b = a /\ op[a].pc = "wait"
      <4>1. ClosesService(a)
        BY <1>3, <3>2, RequestMounts DEF TakesMount, StartsMount
      <4> QED
        BY <2>3, <3>2, <4>1, CloseEffect
    <3>3. ASSUME b = a, op[a].pc = "keys" PROVE FALSE
      <4>1. RemovesKey(a)
        BY <1>3, <3>3 DEF OpStep, Updates, PushesNow, ChecksUnpushed, TakesMount, ClosesService, Looks,
                 StartsMount, Deletes, Erases
      <4> QED
        BY <2>3, <3>3, <4>1 DEF RemovesKey
    <3> QED
      BY <2>3, <3>1, <3>2, <3>3
  <2> QED
    BY <1>k, <2>1, <2>2, <2>3
<1>4. CASE CloseEnds \/ Boots
  BY <1>4 DEF CloseEnds, Boots
<1>5. CASE BootStarts
  <2>1. keyFiles' = keyFiles /\ op' = op
    BY <1>5 DEF BootStarts, diskVars
  <2>2. PICK q \in Repo, pending \in BOOLEAN : MountsNew(q, pending)
    BY <1>5, MountingMoves
  <2>3. mounts[r] # NoAttempt => mounts'[r] # NoAttempt
    BY <1>r, <2>2, MountEffect
  <2> QED
    BY <1>k, <2>1, <2>3
<1>6. CASE UNCHANGED <<mounts, op, keyFiles>>
  BY <1>k, <1>6
<1> QED
  BY <1>1, <1>2, <1>3, <1>4, <1>5, <1>6, NextCases

LEMMA DownStep == Inv /\ ApartInv /\ [Next]_vars => DownOK'
<1> SUFFICES ASSUME Inv, ApartInv, [Next]_vars, phase' = "down", NEW r \in Repo, mounts'[r] # NoAttempt
             PROVE  attempts'[mounts'[r]].svc # "open"
  BY DEF DownOK, Mounted, IsOpen
<1>t. /\ TypeOK /\ mounts \in [Repo -> {NoAttempt} \cup DOMAIN attempts]
  BY DEF Inv, TypeOK, ProcessTypeOK
<1>1. ~CloseEnds /\ ~Boots
  BY DEF CloseEnds, Boots
<1>d. ASSUME phase = "down", mounts[r] # NoAttempt
      PROVE  mounts[r] \in DOMAIN attempts /\ attempts[mounts[r]].svc # "open"
  BY <1>d, <1>t DEF ApartInv, DownOK, Mounted, IsOpen
<1>2. CASE \E n \in DOMAIN attempts : AttemptStep(n)
  BY <1>2, <1>d, <1>t, AttemptGoesOn
<1>3. CASE \E a \in Admin : OpBegins(a)
  BY <1>3, <1>t, RequestBegins
<1>4. ASSUME NEW q \in Repo, NEW pending \in BOOLEAN, MountsNew(q, pending), phase = "down"
      PROVE  attempts'[mounts'[r]].svc # "open"
  <2>1. CASE r = q
    BY <1>4, <2>1, MountEffect
  <2>2. CASE r # q
    BY <1>d, <1>4, <2>2, MountEffect
  <2> QED
    BY <2>1, <2>2
<1>5. ASSUME NEW a \in Admin, OpStep(a)
      PROVE  attempts'[mounts'[r]].svc # "open"
  <2>1. phase = "down"
    BY <1>5, RequestMounts
  <2>2. CASE TakesMount(a)
    BY <1>d, <1>t, <2>1, <2>2, TakeEffect
  <2>3. CASE ClosesService(a)
    BY <1>d, <1>t, <2>1, <2>3, CloseEffect
  <2>4. CASE StartsMount(a)
    BY <1>4, <2>1, <2>4, MountingMoves
  <2>5. CASE UNCHANGED <<mounts, attempts>>
    BY <1>d, <2>1, <2>5
  <2> QED
    BY <1>5, <2>2, <2>3, <2>4, <2>5, RequestMounts
<1>6. ~BootStarts
  BY DEF BootStarts
<1>7. CASE UNCHANGED <<mounts, attempts, op, keyFiles, registry, ids>>
           /\ (phase' = phase \/ (phase' \in {"running", "closing"} /\ phase # "down"))
  BY <1>7, <1>d
<1> QED
  BY <1>1, <1>2, <1>3, <1>5, <1>6, <1>7, NextCases

LEMMA ApartInit == Init => ApartInv
<1> SUFFICES ASSUME Init PROVE ApartInv
  OBVIOUS
<1>1. attempts = <<>> /\ phase = "running" /\ keyFiles = {}
      /\ (\A r \in Repo : mounts[r] = NoAttempt) /\ \A a \in Admin : op[a].pc = "idle"
  BY NoOpType DEF Init
<1> QED
  BY <1>1 DEF ApartInv, OwnedOK, WaitsOK, FreedOK, StartOK, KnownOK, KeysOK, DownOK, BootOK, Mounted

LEMMA ApartStep == Inv /\ ApartInv /\ Apart /\ [Next]_vars => ApartInv'
<1> SUFFICES ASSUME Inv, ApartInv, Apart, [Next]_vars PROVE ApartInv'
  OBVIOUS
<1>1. OwnedOK'
  BY OwnedStep
<1>2. WaitsOK' /\ BootOK'
  BY WaitsStep, BootStep DEF ApartInv
<1>3. FreedOK' /\ StartOK' /\ KnownOK' /\ KeysOK' /\ DownOK'
  BY FreedStep, StartStep, KnownStep, KeysStep, DownStep
<1> QED
  BY <1>1, <1>2, <1>3 DEF ApartInv

\* As long as no two requests on one repository overlap, all of this holds: what
\* an attempt opens or writes is always in the hands of a mount or of a request.
THEOREM ApartInvHolds == Spec /\ []Apart => []ApartInv
<1> QED
  BY ApartInit, ApartStep, InvHolds, PTL DEF Spec

\* While requests on one repository do not overlap, every open service can be
\* reached through its mount once all is quiet, and so can every decrypted key.
THEOREM ApartLeaksNothing == Spec /\ []Apart => []NothingLeaked
<1>1. ApartInv => NothingLeaked
  <2> SUFFICES ASSUME ApartInv, AtRest PROVE NothingLeaked
    BY DEF NothingLeaked
  <2>1. \A a \in Admin : op[a].pc = "idle"
    BY DEF AtRest
  <2>2. \A n \in DOMAIN attempts : IsOpen(n) => mounts[attempts[n].repo] = n
    BY <2>1 DEF ApartInv, OwnedOK, Owned
  <2>3. \A r \in keyFiles : Mounted(r)
    BY <2>1 DEF ApartInv, KeysOK
  <2> QED
    BY <2>2, <2>3 DEF NothingLeaked
<1> QED
  BY <1>1, ApartInvHolds, PTL

\* ... a removed repository is not served ...
THEOREM ApartServesRegistered == Spec /\ []Apart => []RemovedIsNotServed
<1>1. ApartInv => RemovedIsNotServed
  BY DEF ApartInv, KnownOK, RemovedIsNotServed
<1> QED
  BY <1>1, ApartInvHolds, PTL

\* ... and a closed workspace has no open service but those a request is closing.
THEOREM ApartDownHoldsNothing == Spec /\ []Apart => []DownHoldsNothing
<1>1. Inv /\ ApartInv => DownHoldsNothing
  <2> SUFFICES ASSUME Inv, ApartInv, phase = "down", NEW n \in DOMAIN attempts, IsOpen(n)
               PROVE  \E a \in Admin : op[a].attempt = n
    BY DEF DownHoldsNothing
  <2>1. n # NoAttempt /\ attempts[n].repo \in Repo
    <3>1. attempts \in Seq(Attempt)
      BY DEF Inv, TypeOK, ProcessTypeOK
    <3>2. attempts[n] \in Attempt /\ n # 0
      BY <3>1
    <3> QED
      BY <3>2 DEF Attempt, NoAttempt
  <2>2. mounts[attempts[n].repo] # n
    BY <2>1 DEF ApartInv, DownOK, Mounted
  <2> QED
    BY <2>2 DEF ApartInv, OwnedOK, Owned
<1> QED
  BY <1>1, ApartInvHolds, InvHolds, PTL

\* With one administrator's request at a time no two requests overlap.
THEOREM OneAtATime ==
  ASSUME \A a, b \in Admin : a = b
  PROVE  Spec => [](NothingLeaked /\ RemovedIsNotServed /\ DownHoldsNothing)
<1>1. Apart
  BY DEF Apart
<1>2. Spec => []Apart
  BY <1>1, PTL
<1> QED
  BY <1>2, ApartLeaksNothing, ApartServesRegistered, ApartDownHoldsNothing, PTL
=============================================================================
