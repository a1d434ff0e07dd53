-------------------------- MODULE AdminPanel_proofs --------------------------
(***************************************************************************)
(* Proofs about AdminPanel and the sign-in it is composed with, for any    *)
(* number of accounts, addresses, requests and handlers, for every limit   *)
(* and every bound.                                                        *)
(***************************************************************************)
EXTENDS AdminPanel, AccountModel_proofs, FiniteSetTheorems

-----------------------------------------------------------------------------
(* Maps, sequences, numbers.                                                *)

(* A map with one more entry has that entry and those it had.              *)
LEMMA WithRange ==
  ASSUME NEW f, NEW k, NEW v
  PROVE  /\ DOMAIN With(f, k, v) = DOMAIN f \cup {k}
         /\ Range(With(f, k, v)) \subseteq Range(f) \cup {v}
         /\ With(f, k, v)[k] = v
         /\ \A x \in DOMAIN f : x # k => With(f, k, v)[x] = f[x]
BY DEF With, Range

(* A map restricted to some of its keys has only entries it had.           *)
LEMMA RestrictRange ==
  ASSUME NEW f, NEW K \in SUBSET DOMAIN f
  PROVE  /\ DOMAIN Restrict(f, K) = K
         /\ Range(Restrict(f, K)) \subseteq Range(f)
         /\ \A x \in K : Restrict(f, K)[x] = f[x]
BY DEF Range, Restrict

LEMMA WithoutRange ==
  ASSUME NEW f, NEW k
  PROVE  /\ DOMAIN Without(f, k) = DOMAIN f \ {k}
         /\ Range(Without(f, k)) \subseteq Range(f)
         /\ \A x \in DOMAIN f \ {k} : Without(f, k)[x] = f[x]
BY DEF Without, Range, Restrict

LEMMA EmptyMap == DOMAIN Empty = {} /\ Range(Empty) = {}
BY DEF Empty, Range

LEMMA InRange ==
  ASSUME NEW f, NEW S, Range(f) \subseteq S, NEW k \in DOMAIN f
  PROVE  f[k] \in S
BY DEF Range

(* Append adds one entry, at a place that was not there.                   *)
LEMMA AppendEntry ==
  ASSUME NEW S, NEW q \in Seq(S), NEW x \in S
  PROVE  /\ Append(q, x) \in Seq(S)
         /\ DOMAIN q = 1..Len(q) /\ Len(q) \in Nat
         /\ Len(Append(q, x)) = Len(q) + 1
         /\ DOMAIN Append(q, x) = DOMAIN q \cup {Len(q) + 1}
         /\ Append(q, x)[Len(q) + 1] = x
         /\ \A i \in DOMAIN q : Append(q, x)[i] = q[i]
OBVIOUS

(* The limits, lifetimes and bounds are numbers.                           *)
LEMMA Numbers ==
  /\ AddrInterval \in Nat /\ AddrPerHour \in Nat /\ ClientPerHour \in Nat /\ TotalPerHour \in Nat
  /\ Hour \in Nat /\ CodeTTL \in Nat /\ MaxAttempts \in Nat /\ MaxCodes \in Nat /\ MaxTime \in Nat
  /\ SessionTTL \in Nat /\ MaxSessions \in Nat /\ MaxEvents \in Nat
  /\ 1 <= AddrInterval /\ AddrInterval <= Hour
BY SignInAssumption, SignInBoundAssumption, PanelAssumption

(* What a request in progress carries.                                     *)
LEMMA TaskFields ==
  ASSUME NEW t \in SignInTask
  PROVE  /\ t.pc = "issue" => /\ t.request \in Request /\ t.address \in Email \cup Address
                              /\ t.client \in Network /\ t.account \in AccountId \cup {NoAccount}
                              /\ t.at \in Nat
         /\ t.pc = "send" => t.request \in Request /\ t.address \in Email /\ t.number \in Nat
         /\ t.pc = "grant" => t.request \in Request /\ t.kind \in Kinds
                              /\ t.account \in AccountId \cup {NoAccount} /\ t.admin \in BOOLEAN
         /\ t # NoTask => t.pc \in {"issue", "send", "grant"}
BY DEF SignInTask, NoTask

LEMMA NoTaskIsTask == NoTask \in SignInTask /\ NoTask.pc = "idle"
BY DEF SignInTask, NoTask

LEMMA WrongerCode ==
  ASSUME NEW m \in Made, NEW c, c = [m EXCEPT !.wrong = m.wrong + 1]
  PROVE  /\ c \in Made /\ c.wrong = m.wrong + 1
         /\ c.request = m.request /\ c.account = m.account /\ c.address = m.address
         /\ c.client = m.client /\ c.at = m.at
<1>1. c = [request |-> m.request, address |-> m.address, client |-> m.client,
           account |-> m.account, at |-> m.at, wrong |-> m.wrong + 1]
  BY DEF Made
<1>2. m.wrong + 1 \in Nat
  BY DEF Made
<1> HIDE DEF Made
<1> QED
  BY <1>1, <1>2 DEF Made

(* A wrong code is counted for one code and changes nothing else of it.    *)
LEMMA OneMoreWrong ==
  ASSUME NEW q \in Seq(Made), NEW n \in DOMAIN q, NEW r, r = [q EXCEPT ![n].wrong = @ + 1]
  PROVE  /\ r \in Seq(Made) /\ Len(r) = Len(q) /\ DOMAIN r = DOMAIN q
         /\ \A m \in DOMAIN q : m # n => r[m] = q[m]
         /\ \A m \in DOMAIN q : r[m].request = q[m].request /\ r[m].account = q[m].account
         /\ \A m \in DOMAIN q : r[m].address = q[m].address /\ r[m].client = q[m].client
         /\ \A m \in DOMAIN q : r[m].at = q[m].at
         /\ r[n].wrong = q[n].wrong + 1
<1>1. q[n] \in Made
  OBVIOUS
<1>2. r = [q EXCEPT ![n] = [q[n] EXCEPT !.wrong = q[n].wrong + 1]]
  BY Zenon
<1> DEFINE c == [q[n] EXCEPT !.wrong = q[n].wrong + 1]
<1>3. /\ c \in Made /\ c.wrong = q[n].wrong + 1
      /\ c.request = q[n].request /\ c.account = q[n].account /\ c.address = q[n].address
      /\ c.client = q[n].client /\ c.at = q[n].at
  BY <1>1, WrongerCode, Zenon
<1> HIDE DEF c
<1>4. r = [q EXCEPT ![n] = c]
  BY <1>2 DEF c
<1>5. r \in Seq(Made) /\ Len(r) = Len(q) /\ DOMAIN r = DOMAIN q
  BY <1>3, <1>4
<1>6. r[n] = c /\ \A m \in DOMAIN q : m # n => r[m] = q[m]
  BY <1>4
<1> QED
  BY <1>3, <1>5, <1>6

-----------------------------------------------------------------------------
(* The inductive invariant, in parts.                                       *)

(* What a request found in the store before its code was made.             *)
IssueOK ==
  \A h \in Handler :
    /\ task[h] # NoTask => task[h].request \in opened
    /\ Is(h, "issue") => (task[h].account # NoAccount => task[h].address \in Email) /\ task[h].at <= now

(* The entry of a page is its last code, with the wrong ones so far.       *)
EntriesOK ==
  \A q \in DOMAIN entries :
    /\ entries[q].number \in DOMAIN made
    /\ made[entries[q].number].request = q
    /\ made[entries[q].number].account = entries[q].account
    /\ made[entries[q].number].wrong = entries[q].attempts
    /\ \A n \in DOMAIN made : made[n].request = q => n <= entries[q].number

(* Codes are compared a bounded number of times; mails are of codes made   *)
(* for their page.                                                         *)
CodesOK ==
  /\ \A n \in DOMAIN made : made[n].wrong <= MaxAttempts /\ made[n].at <= now
  /\ \A m \in mails : m.number \in DOMAIN made /\ made[m.number].request = m.key.request
  /\ \A h \in Handler : Is(h, "send") =>
       task[h].number \in DOMAIN made /\ made[task[h].number].request = task[h].request

(* A code that was accepted is gone, and SignInNeedsMail of its sign-in.   *)
SignInsOK ==
  \A s \in signIns :
    /\ s.number \in DOMAIN made /\ s.after <= Len(made)
    /\ \A q \in DOMAIN entries : entries[q].number # s.number
    /\ \E m \in mails : m.number = s.number /\ m.key.request = s.request
    /\ made[s.number].account = s.account /\ made[s.number].request = s.request
    /\ made[s.number].wrong < MaxAttempts
    /\ \A n \in s.number + 1 .. s.after : made[n].request # s.request
    /\ \A o \in signIns : o.number = s.number => o = s

(* Everybody who may change the store or holds a session has been told     *)
(* apart from the administrator, or is the administrator.                  *)
DocOK ==
  /\ Consistent(doc) /\ HasAdmin(doc)
  /\ \A t \in Tab :
       act[t].pc \in {"disable", "delete"} /\ act[t].account \in DOMAIN doc.accounts =>
         ~doc.accounts[act[t].account].admin
  /\ \A h \in Handler : Is(h, "grant") /\ task[h].admin => task[h].account \in Admins
  /\ SessionsAreAdmins

-----------------------------------------------------------------------------
(* The document under the panel's updates.                                  *)

AdminsOf(s) == {a \in DOMAIN s.accounts : s.accounts[a].admin /\ ~s.accounts[a].disabled}

(* Nobody but a new account is added, and the administrator is left alone. *)
LEMMA AddUserSpares ==
  ASSUME NEW s \in State, NEW address, NEW id \in NewAccountIds(s), NEW t \in AddUser(s, address, id)
  PROVE  /\ DOMAIN t.accounts = DOMAIN s.accounts \cup {id}
         /\ \A a \in DOMAIN s.accounts : t.accounts[a] = s.accounts[a]
         /\ ~t.accounts[id].admin
         /\ AdminsOf(s) \subseteq AdminsOf(t)
<1> DEFINE new == [email |-> Canonical[address], admin |-> FALSE, disabled |-> FALSE]
<1>1. t = [s EXCEPT !.accounts = With(s.accounts, id, new)]
  BY DEF AddUser, AddAccount, Provided
<1>2. t.accounts = With(s.accounts, id, new)
  BY <1>1, SetAccounts
<1>3. id \notin DOMAIN s.accounts /\ ~new.admin
  BY DEF NewAccountIds
<1> HIDE DEF new
<1>4. /\ DOMAIN t.accounts = DOMAIN s.accounts \cup {id} /\ t.accounts[id] = new
      /\ \A a \in DOMAIN s.accounts : t.accounts[a] = s.accounts[a]
  <2>1. /\ DOMAIN With(s.accounts, id, new) = DOMAIN s.accounts \cup {id}
        /\ With(s.accounts, id, new)[id] = new
        /\ \A x \in DOMAIN s.accounts : x # id => With(s.accounts, id, new)[x] = s.accounts[x]
    BY DEF With
  <2> QED
    BY <1>2, <1>3, <2>1, Zenon
<1> QED
  BY <1>3, <1>4 DEF AdminsOf

(* A new account has an address nobody had.                                *)
LEMMA AddUserIsNew ==
  ASSUME NEW s \in State, NEW address, NEW id \in NewAccountIds(s), NEW t \in AddUser(s, address, id)
  PROVE  t.accounts[id].email = Canonical[address]
<1> DEFINE new == [email |-> Canonical[address], admin |-> FALSE, disabled |-> FALSE]
<1>1. t = [s EXCEPT !.accounts = With(s.accounts, id, new)]
  BY DEF AddUser, AddAccount, Provided
<1>2. t.accounts = With(s.accounts, id, new)
  BY <1>1, SetAccounts
<1>3. new.email = Canonical[address]
  OBVIOUS
<1> HIDE DEF new
<1>4. With(s.accounts, id, new)[id] = new
  BY DEF With
<1> QED
  BY <1>2, <1>3, <1>4

(* Disabling and enabling change one account and nothing else of it.       *)
LEMMA SetDisabledIs ==
  ASSUME NEW s \in State, NEW id, NEW d, NEW t \in SetDisabled(s, id, d)
  PROVE  /\ id \in DOMAIN s.accounts /\ DOMAIN t.accounts = DOMAIN s.accounts
         /\ \A a \in DOMAIN s.accounts : a # id => t.accounts[a] = s.accounts[a]
         /\ \A a \in DOMAIN s.accounts :
              t.accounts[a].email = s.accounts[a].email /\ t.accounts[a].admin = s.accounts[a].admin
<1>1. id \in DOMAIN s.accounts /\ t = [s EXCEPT !.accounts[id].disabled = d]
  BY DEF SetDisabled, Provided
<1> DEFINE A == [s.accounts EXCEPT ![id].disabled = d]
<1>2. t = [s EXCEPT !.accounts = A]
  BY <1>1, Zenon
<1>3. A = [s.accounts EXCEPT ![id] = [s.accounts[id] EXCEPT !.disabled = d]]
  BY Zenon
<1>4. s.accounts \in [DOMAIN s.accounts -> Account] /\ s.accounts[id] \in Account
  BY <1>1, StateFields
<1> DEFINE b == [s.accounts[id] EXCEPT !.disabled = d]
<1>5. b.admin = s.accounts[id].admin /\ b.email = s.accounts[id].email /\ b.disabled = d
  BY <1>4 DEF Account
<1> HIDE DEF b, A
<1>6. A = [s.accounts EXCEPT ![id] = b]
  BY <1>3 DEF b
<1>7. /\ DOMAIN A = DOMAIN s.accounts /\ A[id] = b
      /\ \A a \in DOMAIN s.accounts : a # id => A[a] = s.accounts[a]
  BY <1>1, <1>4, <1>6
<1>8. t.accounts = A
  BY <1>2, SetAccounts
<1> QED
  BY <1>1, <1>2, <1>5, <1>7, <1>8 DEF A

(* Enabling an administrator, who is active, changes nothing.              *)
LEMMA EnableAdmin ==
  ASSUME NEW s \in State, NEW id, NEW t \in SetDisabled(s, id, FALSE), id \in AdminsOf(s)
  PROVE  t = s
<1> DEFINE A == [s.accounts EXCEPT ![id].disabled = FALSE]
<1>1. id \in DOMAIN s.accounts /\ t = [s EXCEPT !.accounts = A]
  <2>1. id \in DOMAIN s.accounts /\ t = [s EXCEPT !.accounts[id].disabled = FALSE]
    BY DEF SetDisabled, Provided
  <2> QED
    BY <2>1, Zenon
<1>2. s.accounts \in [DOMAIN s.accounts -> Account] /\ s.accounts[id] \in Account
  BY <1>1, StateFields
<1>3. s.accounts[id].disabled = FALSE
  BY <1>2 DEF AdminsOf, Account
<1>4. A = s.accounts
  <2> DEFINE b == [s.accounts[id] EXCEPT !.disabled = FALSE]
  <2>1. A = [s.accounts EXCEPT ![id] = b]
    BY Zenon
  <2>2. b = s.accounts[id]
    BY <1>2, <1>3 DEF Account
  <2> HIDE DEF b, A
  <2> QED
    BY <1>2, <2>1, <2>2
<1> HIDE DEF A
<1> QED
  BY <1>1, <1>4, SetAccounts, StateFields, Zenon

(* Deleting takes one account away.                                        *)
LEMMA DeleteAccountSpares ==
  ASSUME NEW s \in State, NEW id, NEW t \in DeleteAccount(s, id)
  PROVE  /\ id \in DOMAIN s.accounts /\ DOMAIN t.accounts = DOMAIN s.accounts \ {id}
         /\ \A a \in DOMAIN t.accounts : t.accounts[a] = s.accounts[a]
<1> DEFINE rest == [s EXCEPT !.rules = {r \in s.rules : r.account # id}]
<1>1. id \in DOMAIN s.accounts /\ t = [rest EXCEPT !.accounts = Without(rest.accounts, id)]
  BY DEF DeleteAccount, Provided
<1>2. rest \in State /\ rest.accounts = s.accounts
  BY FewerRules
<1> HIDE DEF rest
<1>3. t.accounts = Without(s.accounts, id)
  BY <1>1, <1>2, SetAccounts
<1>4. /\ DOMAIN Without(s.accounts, id) = DOMAIN s.accounts \ {id}
      /\ \A x \in DOMAIN s.accounts \ {id} : Without(s.accounts, id)[x] = s.accounts[x]
  BY WithoutRange, Zenon
<1> QED
  BY <1>1, <1>3, <1>4, Zenon

(* The administrator the settings name, whoever it was before.             *)
LEMMA SettingsName ==
  ASSUME NEW s \in State, Consistent(s), NEW e \in AdminAddress, NEW i,
         AccountByEmail(s, e) = {} => i \in NewAccountIds(s), NEW t \in EnsureAdmin(s, e, i)
  PROVE  t \in State /\ Consistent(t) /\ HasAdmin(t)
<1>1. CASE i \in NewAccountIds(s)
  BY <1>1, EnsureAdminKeeps
<1>2. CASE AccountByEmail(s, e) # {}
  <2>1. AddAccount(s, e, TRUE, i) = {}
    BY <1>2 DEF AddAccount, Provided
  <2>2. PICK a \in AccountByEmail(s, e) : t = OnlyAdmin(s, a)
    BY <2>1 DEF EnsureAdmin
  <2>3. a \in DOMAIN s.accounts /\ AlmostConsistent(s)
    BY DEF AccountByEmail, Consistent, AlmostConsistent
  <2> QED
    BY <2>2, <2>3, OnlyAdminKeeps DEF HasAdmin
<1> QED
  BY <1>1, <1>2

(* A consistent document with an administrator has one, and it is active.  *)
LEMMA OneAdmin ==
  ASSUME NEW s \in State, Consistent(s), HasAdmin(s)
  PROVE  \E a \in DOMAIN s.accounts : AdminsOf(s) = {a} /\ \A b \in DOMAIN s.accounts : s.accounts[b].admin => b = a
<1>1. PICK a \in DOMAIN s.accounts : s.accounts[a].admin /\ ~s.accounts[a].disabled
  BY DEF HasAdmin
<1> QED
  BY <1>1 DEF Consistent, AdminIsActive, AdminsOf

-----------------------------------------------------------------------------
(* The administrator and the sessions.                                      *)

LEMMA DocInit == Init => DocOK /\ doc \in State
<1> SUFFICES ASSUME Init PROVE DocOK /\ doc \in State
  OBVIOUS
<1>1. PICK e \in AdminAddress, a \in AccountId : \E s \in EnsureAdmin(emptyState, e, a) :
        doc \in {s} \cup UNION {AddUser(s, u, i) : u \in Address, i \in NewAccountIds(s)}
  BY DEF Init
<1>2. PICK s \in EnsureAdmin(emptyState, e, a) :
        doc \in {s} \cup UNION {AddUser(s, u, i) : u \in Address, i \in NewAccountIds(s)}
  BY <1>1
<1>3. s \in State /\ Consistent(s) /\ HasAdmin(s)
  <2>1. a \in NewAccountIds(emptyState)
    BY DEF NewAccountIds, emptyState
  <2> QED
    BY <2>1, EmptyIsWell, EnsureAdminKeeps
<1>4. doc \in State /\ Consistent(doc) /\ HasAdmin(doc)
  <2>1. CASE doc = s
    BY <1>3, <2>1
  <2>2. CASE doc \in UNION {AddUser(s, u, i) : u \in Address, i \in NewAccountIds(s)}
    BY <1>3, <2>2, AddUserKeeps
  <2> QED
    BY <1>2, <2>1, <2>2
<1>5. SessionsAreAdmins /\ (\A t \in Tab : act[t].pc = "idle") /\ \A h \in Handler : ~Is(h, "grant")
  BY EmptyMap DEF Init, SignInInit, SessionsAreAdmins, NoAct, NoTask, Is
<1> QED
  BY <1>4, <1>5 DEF DocOK

(* What the sign-in does is none of the panel's business, except that it   *)
(* tells the administrator apart.                                          *)
LEMMA DocSignIn ==
  ASSUME PanelTypeOK, DocOK, SignInNext, UNCHANGED panelVars
  PROVE  DocOK'
<1>1. doc' = doc /\ sessions' = sessions /\ act' = act
  BY DEF SignInNext, SignInStep, Tick, OpensPage, PostsWrongCode, PostsAddress, Issues, Sends,
         PostsRightCode, GrantsCode, panelVars
<1>2. Admins' = Admins /\ SessionsAreAdmins'
  BY <1>1 DEF Admins, SessionsAreAdmins, DocOK
<1>3. ASSUME NEW h \in Handler, Is(h, "grant")', task'[h].admin
      PROVE  task'[h].account \in Admins
  <2>1. CASE task'[h] = task[h]
    BY <1>3, <2>1 DEF DocOK, Is
  <2>2. ASSUME NEW g \in Handler, NEW q \in Request, PostsRightCode(g, q), task'[h] # task[h]
        PROVE  task'[h].account \in Admins
    <3> DEFINE a == entries[q].account
               t == [pc |-> "grant", request |-> q, kind |-> pages[q].kind,
                     account |-> a, admin |-> doc.accounts[a].admin]
    <3>1. Active(a) /\ task' = [task EXCEPT ![g] = t]
      BY <2>2 DEF PostsRightCode
    <3>2. task'[h] = t
      BY <2>2, <3>1
    <3> QED
      BY <1>3, <3>1, <3>2 DEF Admins, Active
  <2>3. ASSUME NEW g \in Handler, Issues(g) \/ Sends(g) \/ GrantsCode(g)
        PROVE  task'[h] = task[h]
    <3>1. \E t : task' = [task EXCEPT ![g] = t] /\ t.pc # "grant"
      <4>1. CASE Issues(g)
        <5> DEFINE t == IF task[g].account = NoAccount THEN NoTask
                        ELSE [pc |-> "send", request |-> task[g].request, address |-> task[g].address,
                              number |-> Len(made) + 1]
        <5>1. task' = [task EXCEPT ![g] = t]
          BY <4>1 DEF Issues
        <5>2. t.pc # "grant"
          BY DEF NoTask
        <5> QED
          BY <5>1, <5>2
      <4>2. CASE Sends(g) \/ GrantsCode(g)
        <5>1. task' = [task EXCEPT ![g] = NoTask]
          BY <4>2 DEF Sends, GrantsCode, Return
        <5> QED
          BY <5>1, NoTaskIsTask
      <4> QED
        BY <2>3, <4>1, <4>2
    <3> QED
      BY <1>3, <3>1 DEF Is, PanelTypeOK
  <2>4. ASSUME NEW g \in Handler, NEW q \in Request, NEW e \in Address, NEW c \in Network,
               PostsAddress(g, q, e, c)
        PROVE  task'[h] = task[h]
    BY <1>3, <2>4 DEF PostsAddress, Is
  <2>5. \/ Tick \/ (\E q \in Request, kind \in Kinds : OpensPage(q, kind))
        \/ (\E q \in Request, n \in Codes : PostsWrongCode(q, n))
        => task' = task
    BY DEF Tick, OpensPage, PostsWrongCode
  <2> QED
    BY <2>1, <2>2, <2>3, <2>4, <2>5 DEF SignInNext, SignInStep
<1> QED
  BY <1>1, <1>2, <1>3 DEF DocOK

(* Sessions that go take no administrator with them.                       *)
LEMMA FewerSessions ==
  ASSUME SessionsAreAdmins, NEW k
  PROVE  /\ \A x \in DOMAIN Purged : x \in DOMAIN sessions /\ Purged[x] = sessions[x]
         /\ \A x \in DOMAIN Without(Purged, k) : x \in DOMAIN sessions /\ Without(Purged, k)[x] = sessions[x]
<1>1. /\ DOMAIN Purged \subseteq DOMAIN sessions
      /\ \A x \in DOMAIN Purged : Purged[x] = sessions[x]
  BY RestrictRange DEF Purged
<1>2. /\ DOMAIN Without(Purged, k) = DOMAIN Purged \ {k}
      /\ \A x \in DOMAIN Purged \ {k} : Without(Purged, k)[x] = Purged[x]
  BY WithoutRange
<1> QED
  BY <1>1, <1>2

LEMMA NewSessionIs ==
  ASSUME NEW a, NewSession(a)
  PROVE  \E k \in 1..MaxSessions \ DOMAIN sessions :
           sessions' = With(sessions, k, [account |-> a, expires |-> now + SessionTTL])
BY DEF NewSession

LEMMA NewSessionIsAdmins ==
  ASSUME SessionsAreAdmins, NEW a \in Admins, NewSession(a), doc' = doc
  PROVE  SessionsAreAdmins'
<1>1. PICK k : sessions' = With(sessions, k, [account |-> a, expires |-> now + SessionTTL])
  BY NewSessionIs
<1> DEFINE new == [account |-> a, expires |-> now + SessionTTL]
<1>2. new.account = a
  OBVIOUS
<1> HIDE DEF new
<1>3. /\ DOMAIN sessions' = DOMAIN sessions \cup {k} /\ sessions'[k] = new
      /\ \A x \in DOMAIN sessions : x # k => sessions'[x] = sessions[x]
  BY <1>1 DEF With, new
<1> QED
  BY <1>2, <1>3 DEF SessionsAreAdmins, Admins

(* Sessions begin for the administrator and end; requests of the panel     *)
(* that would touch the administrator are refused.                         *)
LEMMA DocSessions ==
  ASSUME PanelTypeOK, DocOK,
         \/ \E h \in Handler : StartsSession(h)
         \/ \E q \in Request : RecoversSession(q)
         \/ \E k \in 1..MaxSessions : SignsOut(k) \/ TurnedAway(k)
         \/ \E t \in Tab : PanelAsks(t)
  PROVE  DocOK'
<1>0. doc' = doc
  BY DEF StartsSession, RecoversSession, SignsOut, TurnedAway, PanelAsks, AsksCreate, AsksAction, Begins, signInVars
<1>1. ASSUME NEW h \in Handler, StartsSession(h)
      PROVE  DocOK'
  <2>1. SessionsAreAdmins'
    <3>1. CASE task[h].admin
      BY <1>0, <1>1, <3>1, NewSessionIsAdmins DEF StartsSession, DocOK
    <3>2. CASE ~task[h].admin
      BY <1>0, <1>1, <3>2 DEF StartsSession, DocOK, SessionsAreAdmins, Admins
    <3> QED
      BY <3>1, <3>2
  <2>2. act' = act /\ task' = [task EXCEPT ![h] = NoTask]
    BY <1>1 DEF StartsSession, Return
  <2> QED
    BY <1>0, <2>1, <2>2, NoTaskIsTask DEF DocOK, Is, Admins, PanelTypeOK
<1>2. ASSUME NEW q \in Request, RecoversSession(q)
      PROVE  DocOK'
  <2>1. SessionsAreAdmins' /\ act' = act /\ task' = task
    BY <1>0, <1>2, NewSessionIsAdmins DEF RecoversSession, DocOK
  <2> QED
    BY <1>0, <2>1 DEF DocOK, Is, Admins
<1>3. ASSUME NEW k \in 1..MaxSessions, SignsOut(k) \/ TurnedAway(k)
      PROVE  DocOK'
  <2>1. sessions' = Without(Purged, k) /\ act' = act /\ task' = task
    BY <1>3 DEF SignsOut, TurnedAway, signInVars
  <2>2. SessionsAreAdmins'
    BY <1>0, <2>1, FewerSessions DEF DocOK, SessionsAreAdmins, Admins
  <2> QED
    BY <1>0, <2>1, <2>2 DEF DocOK, Is, Admins
<1>4. ASSUME NEW t \in Tab, NEW what, Begins(t, what),
             what.pc \in {"disable", "delete"} /\ what.account \in DOMAIN doc.accounts =>
               ~doc.accounts[what.account].admin
      PROVE  DocOK'
  <2>1. sessions' = Purged /\ act' = [act EXCEPT ![t] = what] /\ task' = task
    BY <1>4 DEF Begins, signInVars
  <2>2. SessionsAreAdmins'
    BY <1>0, <2>1, FewerSessions DEF DocOK, SessionsAreAdmins, Admins
  <2> QED
    BY <1>0, <1>4, <2>1, <2>2 DEF DocOK, Is, Admins, PanelTypeOK
<1>5. ASSUME NEW t \in Tab, NEW e \in Address, AsksCreate(t, e)
      PROVE  DocOK'
  <2>1. [pc |-> "create", address |-> e].pc \notin {"disable", "delete"}
    OBVIOUS
  <2> QED
    BY <1>4, <1>5, <2>1 DEF AsksCreate
<1>6. ASSUME NEW t \in Tab, NEW a \in AccountId, NEW what \in {"disable", "enable", "delete"},
             AsksAction(t, a, what)
      PROVE  DocOK'
  <2> DEFINE w == [pc |-> what, account |-> a]
  <2>1. Begins(t, w) /\ (what # "enable" => ~doc.accounts[a].admin) /\ w.pc = what /\ w.account = a
    BY <1>6 DEF AsksAction
  <2> HIDE DEF w
  <2> QED
    BY <1>4, <2>1
<1> QED
  BY <1>1, <1>2, <1>3, <1>5, <1>6 DEF PanelAsks

(* An update that comes late still spares the administrator.               *)
LEMMA UpdateSpares ==
  ASSUME PanelTypeOK, DocOK, NEW u \in Tab, NEW t \in Updated(act[u])
  PROVE  /\ t \in State /\ Consistent(t) /\ HasAdmin(t)
         /\ AdminsOf(doc) \subseteq AdminsOf(t)
<1>0. doc \in State /\ Consistent(doc) /\ HasAdmin(doc) /\ AdminIsActive(doc) /\ act[u] \in Act
  BY DEF PanelTypeOK, SignInTypeOK, DocOK, Consistent
<1>1. CASE act[u].pc = "create"
  <2>1. t \in UNION {AddUser(doc, act[u].address, i) : i \in FreshIds}
    BY <1>1 DEF Updated
  <2>2. PICK i \in FreshIds : t \in AddUser(doc, act[u].address, i)
    BY <2>1
  <2>3. i \in NewAccountIds(doc) /\ act[u].address \in Address
    BY <1>0, <1>1 DEF FreshIds, Act, NoAct
  <2> QED
    BY <1>0, <2>2, <2>3, AddUserKeeps, AddUserSpares
<1>2. ASSUME NEW d \in BOOLEAN, act[u].pc = (IF d THEN "disable" ELSE "enable")
      PROVE  /\ t \in State /\ Consistent(t) /\ HasAdmin(t)
             /\ AdminsOf(doc) \subseteq AdminsOf(t)
  <2>1. t \in SetDisabled(doc, act[u].account, d)
    BY <1>2 DEF Updated
  <2>2. act[u].account \in DOMAIN doc.accounts
    BY <1>0, <2>1, SetDisabledIs
  <2>3. CASE act[u].account \in Others(doc)
    <3>1. t \in State /\ Consistent(t) /\ HasAdmin(t)
      BY <1>0, <2>1, <2>3, SetDisabledKeeps
    <3>2. AdminsOf(doc) \subseteq AdminsOf(t)
      <4>1. /\ DOMAIN t.accounts = DOMAIN doc.accounts
            /\ \A a \in DOMAIN doc.accounts : a # act[u].account => t.accounts[a] = doc.accounts[a]
        BY <1>0, <2>1, SetDisabledIs
      <4>2. \A a \in AdminsOf(doc) : a \in DOMAIN doc.accounts /\ a # act[u].account
        BY <2>3 DEF AdminsOf, Others
      <4> QED
        BY <4>1, <4>2 DEF AdminsOf
    <3> QED
      BY <3>1, <3>2
  <2>4. CASE act[u].account \notin Others(doc)
    <3>1. doc.accounts[act[u].account].admin
      BY <2>2, <2>4 DEF Others
    <3>2. ~d
      BY <1>2, <2>2, <3>1 DEF DocOK
    <3>3. act[u].account \in AdminsOf(doc)
      BY <1>0, <2>2, <3>1 DEF AdminsOf, AdminIsActive
    <3>4. t = doc
      BY <1>0, <2>1, <3>2, <3>3, EnableAdmin
    <3> QED
      BY <1>0, <3>4
  <2> QED
    BY <2>3, <2>4
<1>3. CASE act[u].pc = "delete"
  <2>1. t \in DeleteAccount(doc, act[u].account)
    BY <1>3 DEF Updated
  <2>2. act[u].account \in DOMAIN doc.accounts
    BY <1>0, <2>1, DeleteAccountSpares
  <2>3. act[u].account \in Others(doc)
    BY <1>3, <2>2 DEF DocOK, Others
  <2>4. AdminsOf(doc) \subseteq AdminsOf(t)
    BY <1>0, <2>1, <2>3, DeleteAccountSpares DEF AdminsOf, Others
  <2> QED
    BY <1>0, <2>1, <2>3, <2>4, DeleteAccountKeeps
<1>4. act[u].pc \in {"create", "disable", "enable", "delete"}
  BY DEF Updated
<1> QED
  BY <1>1, <1>2, <1>3, <1>4

(* Nor does it make an administrator of anybody else.                      *)
LEMMA UpdateMakesNoAdmin ==
  ASSUME PanelTypeOK, NEW u \in Tab, doc' = doc \/ doc' \in Updated(act[u]),
         NEW a \in DOMAIN doc'.accounts, doc'.accounts[a].admin
  PROVE  a \in DOMAIN doc.accounts /\ doc.accounts[a].admin
<1>0. doc \in State /\ act[u] \in Act
  BY DEF PanelTypeOK, SignInTypeOK
<1>1. CASE doc' = doc
  BY <1>1
<1>2. CASE doc' \in Updated(act[u]) /\ act[u].pc = "create"
  <2>1. PICK i \in FreshIds : doc' \in AddUser(doc, act[u].address, i)
    BY <1>2 DEF Updated
  <2>2. i \in NewAccountIds(doc) /\ i \notin DOMAIN doc.accounts
    BY DEF FreshIds, NewAccountIds
  <2> QED
    BY <1>0, <2>1, <2>2, AddUserSpares
<1>3. CASE doc' \in Updated(act[u]) /\ act[u].pc \in {"disable", "enable"}
  <2>1. PICK d \in BOOLEAN : doc' \in SetDisabled(doc, act[u].account, d)
    BY <1>3 DEF Updated
  <2> QED
    BY <1>0, <2>1, SetDisabledIs
<1>4. CASE doc' \in Updated(act[u]) /\ act[u].pc = "delete"
  <2>1. doc' \in DeleteAccount(doc, act[u].account)
    BY <1>4 DEF Updated
  <2> QED
    BY <1>0, <2>1, DeleteAccountSpares
<1> QED
  BY <1>1, <1>2, <1>3, <1>4 DEF Updated

LEMMA DocUpdates ==
  ASSUME PanelTypeOK, DocOK, NEW u \in Tab, UpdatesAccounts(u)
  PROVE  DocOK' /\ doc' \in State
<1>1. doc' = doc \/ doc' \in Updated(act[u])
  BY DEF UpdatesAccounts
<1>2. doc' \in State /\ Consistent(doc') /\ HasAdmin(doc') /\ AdminsOf(doc) \subseteq AdminsOf(doc')
  BY <1>1, UpdateSpares DEF PanelTypeOK, SignInTypeOK, DocOK
<1>3. act' = [act EXCEPT ![u] = NoAct] /\ task' = task /\ sessions' = sessions
  BY DEF UpdatesAccounts
<1>4. Admins = AdminsOf(doc) /\ Admins' = AdminsOf(doc')
  BY DEF Admins, AdminsOf
<1>5. ASSUME NEW t \in Tab, act'[t].pc \in {"disable", "delete"},
             act'[t].account \in DOMAIN doc'.accounts
      PROVE  ~doc'.accounts[act'[t].account].admin
  <2>1. act'[t] = act[t]
    BY <1>3, <1>5 DEF NoAct, PanelTypeOK
  <2>2. doc'.accounts[act[t].account].admin =>
          act[t].account \in DOMAIN doc.accounts /\ doc.accounts[act[t].account].admin
    BY <1>1, <1>5, <2>1, UpdateMakesNoAdmin
  <2> QED
    BY <1>5, <2>1, <2>2 DEF DocOK
<1> QED
  BY <1>2, <1>3, <1>4, <1>5 DEF DocOK, Is, SessionsAreAdmins

LEMMA DocBoots ==
  ASSUME PanelTypeOK, DocOK, Boots
  PROVE  DocOK' /\ doc' \in State
<1>1. doc' \in State /\ Consistent(doc') /\ HasAdmin(doc')
  BY SettingsName DEF Boots, PanelTypeOK, SignInTypeOK, DocOK
<1>2. SessionsAreAdmins' /\ \A t \in Tab : act'[t].pc = "idle"
  BY EmptyMap DEF Boots, SessionsAreAdmins, NoAct
<1>3. \A h \in Handler : ~Is(h, "grant")'
  BY DEF Boots, NoTask, Is
<1> QED
  BY <1>1, <1>2, <1>3 DEF DocOK

-----------------------------------------------------------------------------
(* Types.                                                                   *)

LEMMA TypeInit == Init => PanelTypeOK /\ IssueOK
<1> SUFFICES ASSUME Init PROVE PanelTypeOK /\ IssueOK
  OBVIOUS
<1>1. now \in 0..MaxTime /\ doc \in State /\ events \in 0..MaxEvents
  BY DocInit, Numbers DEF Init, SignInInit
<1>2. /\ DOMAIN pages = {} /\ DOMAIN entries = {} /\ DOMAIN sent = {} /\ DOMAIN sessions = {}
      /\ Range(pages) = {} /\ Range(entries) = {} /\ Range(sent) = {} /\ Range(sessions) = {}
  BY EmptyMap DEF Init, SignInInit
<1>3. made \in Seq(Made) /\ act \in [Tab -> Act]
  BY DEF Init, SignInInit, Act
<1>4. task \in [Handler -> SignInTask] /\ IssueOK
  BY NoTaskIsTask DEF Init, SignInInit, IssueOK, Is
<1> QED
  BY <1>1, <1>2, <1>3, <1>4 DEF PanelTypeOK, SignInTypeOK, Init, SignInInit

(* Pages, requests for codes and codes.                                    *)
LEMMA TypePages ==
  ASSUME PanelTypeOK, IssueOK, UNCHANGED panelVars,
         \/ Tick
         \/ \E q \in Request, kind \in Kinds : OpensPage(q, kind)
         \/ \E h \in Handler : GrantsCode(h)
  PROVE  PanelTypeOK' /\ IssueOK'
<1>0. /\ sessions' = sessions /\ act' = act /\ events' = events
      /\ now \in Nat /\ MaxTime \in Nat
  BY Numbers DEF panelVars, PanelTypeOK, SignInTypeOK
<1>1. CASE Tick
  <2>1. now' \in 0..MaxTime /\ now <= now'
    BY <1>0, <1>1 DEF Tick
  <2>2. /\ UNCHANGED <<doc, pages, log, total, entries, sent, task, made, mails, signIns, opened>>
    BY <1>1 DEF Tick, flowVars, pastVars
  <2>3. IssueOK'
    BY <1>0, <2>1, <2>2, TaskFields DEF IssueOK, Is, PanelTypeOK
  <2> QED
    BY <1>0, <2>1, <2>2, <2>3 DEF PanelTypeOK, SignInTypeOK
<1>2. ASSUME NEW q \in Request, NEW kind \in Kinds, OpensPage(q, kind)
      PROVE  PanelTypeOK' /\ IssueOK'
  <2> DEFINE p == [kind |-> kind, expires |-> now + PageTTL[kind]]
  <2>1. p \in Page
    BY <1>0, SignInAssumption DEF Page
  <2>2. pages' = With(pages, q, p) /\ opened' = opened \cup {q}
    BY <1>2 DEF OpensPage
  <2> HIDE DEF p
  <2>3. DOMAIN pages' \subseteq opened' /\ Range(pages') \subseteq Page
    <3>1. DOMAIN With(pages, q, p) = DOMAIN pages \cup {q} /\ Range(With(pages, q, p)) \subseteq Range(pages) \cup {p}
      BY WithRange
    <3> QED
      BY <2>1, <2>2, <3>1 DEF PanelTypeOK, SignInTypeOK
  <2>4. UNCHANGED <<now, doc, log, total, entries, sent, task, made, mails, signIns>>
    BY <1>2 DEF OpensPage, flowVars
  <2>5. IssueOK'
    BY <2>2, <2>4 DEF IssueOK, Is
  <2> QED
    BY <1>0, <2>2, <2>3, <2>4, <2>5 DEF PanelTypeOK, SignInTypeOK
<1>3. ASSUME NEW h \in Handler, GrantsCode(h)
      PROVE  PanelTypeOK' /\ IssueOK'
  <2>1. pages' = Without(pages, task[h].request) /\ task' = [task EXCEPT ![h] = NoTask]
    BY <1>3 DEF GrantsCode, Return
  <2>2. DOMAIN pages' \subseteq opened /\ Range(pages') \subseteq Page
    <3> DEFINE q == task[h].request
    <3>1. DOMAIN Without(pages, q) = DOMAIN pages \ {q} /\ Range(Without(pages, q)) \subseteq Range(pages)
      BY WithoutRange
    <3> QED
      BY <2>1, <3>1 DEF PanelTypeOK, SignInTypeOK
  <2>3. UNCHANGED <<now, doc, log, total, entries, sent, made, mails, signIns, opened>>
    BY <1>3 DEF GrantsCode, flowVars, pastVars
  <2>4. task' \in [Handler -> SignInTask] /\ IssueOK'
    BY <2>1, <2>3, NoTaskIsTask DEF PanelTypeOK, IssueOK, Is
  <2> QED
    BY <1>0, <2>2, <2>3, <2>4 DEF PanelTypeOK, SignInTypeOK
<1> QED
  BY <1>1, <1>2, <1>3

(* Flow.Request: the limits, the code, the mail.                           *)
LEMMA AddressTaken ==
  ASSUME PanelTypeOK, NEW h \in Handler, NEW q \in Request, NEW address \in Address,
         NEW client \in Network, PostsAddress(h, q, address, client)
  PROVE  \E a \in AccountId \cup {NoAccount} :
           /\ task[h] = NoTask
           /\ task' = [task EXCEPT ![h] = [pc |-> "issue", request |-> q, address |-> Normal(address),
                                           client |-> client, at |-> now, account |-> a]]
           /\ a # NoAccount =>
                /\ a \in DOMAIN doc.accounts
                /\ doc.accounts[a].email = Normal(address) /\ Normal(address) \in Email
<1> DEFINE found == {a \in AccountByEmail(doc, address) : ~doc.accounts[a].disabled}
      a == IF found = {} THEN NoAccount ELSE CHOOSE b \in found : TRUE
<1>1. /\ task[h] = NoTask
      /\ task' = [task EXCEPT ![h] = [pc |-> "issue", request |-> q, address |-> Normal(address),
                                      client |-> client, at |-> now, account |-> a]]
  BY DEF PostsAddress
<1>2. /\ DOMAIN doc.accounts \subseteq AccountId
      /\ \A b \in DOMAIN doc.accounts : doc.accounts[b].email \in Email
  BY StateFields DEF PanelTypeOK, SignInTypeOK, Account
<1>3. \A b \in found : b \in DOMAIN doc.accounts /\ doc.accounts[b].email = Canonical[address]
  BY DEF AccountByEmail
<1>4. found # {} => (CHOOSE b \in found : TRUE) \in found
  BY Zenon
<1> HIDE DEF found
<1>5. a # NoAccount => a \in found
  BY <1>4
<1>6. \A b \in found : Canonical[address] # NoEmail /\ Normal(address) = Canonical[address]
  BY <1>2, <1>3, AddressAssumption DEF Normal
<1>7. a \in AccountId \cup {NoAccount}
  BY <1>2, <1>3, <1>5
<1> HIDE DEF a
<1> QED
  BY <1>1, <1>2, <1>3, <1>5, <1>6, <1>7

LEMMA NormalType ==
  ASSUME NEW address \in Address
  PROVE  Normal(address) \in Email \cup Address
BY AddressAssumption DEF Normal

LEMMA TypeRequest ==
  ASSUME PanelTypeOK, IssueOK, NEW h \in Handler, UNCHANGED panelVars,
         \/ \E q \in Request, e \in Address, c \in Network : PostsAddress(h, q, e, c)
         \/ Issues(h) \/ Sends(h)
  PROVE  PanelTypeOK' /\ IssueOK'
<1>0. sessions' = sessions /\ act' = act /\ events' = events /\ now \in Nat
  BY DEF panelVars, PanelTypeOK, SignInTypeOK
<1>1. ASSUME NEW q \in Request, NEW e \in Address, NEW c \in Network, PostsAddress(h, q, e, c)
      PROVE  PanelTypeOK' /\ IssueOK'
  <2>1. PICK a \in AccountId \cup {NoAccount} :
          /\ task' = [task EXCEPT ![h] = [pc |-> "issue", request |-> q, address |-> Normal(e),
                                          client |-> c, at |-> now, account |-> a]]
          /\ a # NoAccount => Normal(e) \in Email
    BY <1>1, AddressTaken
  <2> DEFINE t == [pc |-> "issue", request |-> q, address |-> Normal(e),
                   client |-> c, at |-> now, account |-> a]
             x == [address |-> Normal(e), client |-> c, at |-> now]
  <2>2. t \in SignInTask /\ t.account = a /\ t.address = Normal(e) /\ t.at = now
    BY <1>0, NormalType DEF SignInTask
  <2>3. log' = RecentLog \cup {x} /\ x \in Asked
    BY <1>0, <1>1, NormalType DEF PostsAddress, Asked
  <2> HIDE DEF t, x
  <2>4. task' = [task EXCEPT ![h] = t]
    BY <2>1 DEF t
  <2>5. log' \subseteq Asked
    BY <2>3 DEF RecentLog, PanelTypeOK, SignInTypeOK
  <2>6. UNCHANGED <<now, doc, pages, total, entries, sent, made, mails, signIns, opened>>
    BY <1>1 DEF PostsAddress, pastVars
  <2>7. task' \in [Handler -> SignInTask]
    BY <2>2, <2>4 DEF PanelTypeOK
  <2>8. IssueOK'
    <3>1. t.request = q /\ q \in opened
      BY <1>1 DEF t, PostsAddress, Open, PanelTypeOK, SignInTypeOK
    <3> QED
      BY <1>0, <2>1, <2>2, <2>4, <2>6, <3>1 DEF IssueOK, Is, PanelTypeOK
  <2> QED
    BY <1>0, <2>5, <2>6, <2>7, <2>8 DEF PanelTypeOK, SignInTypeOK
<1>2. CASE Issues(h)
  <2> DEFINE q == task[h].request
             n == Len(made) + 1
             kept == {k \in DOMAIN entries : now <= entries[k].expires}
             e == [number |-> n, account |-> task[h].account, expires |-> now + CodeTTL, attempts |-> 0]
             m == [request |-> q, address |-> task[h].address, client |-> task[h].client,
                   account |-> task[h].account, at |-> task[h].at, wrong |-> 0]
             t == IF task[h].account = NoAccount THEN NoTask
                  ELSE [pc |-> "send", request |-> q, address |-> task[h].address, number |-> n]
  <2>1. /\ task[h] \in SignInTask /\ task[h].pc = "issue" /\ n \in Nat
    BY <1>2 DEF Issues, Is, PanelTypeOK, SignInTypeOK
  <2>2. /\ q \in Request /\ task[h].address \in Email \cup Address /\ task[h].client \in Network
        /\ task[h].account \in AccountId \cup {NoAccount} /\ task[h].at \in Nat
        /\ task[h].account # NoAccount => task[h].address \in Email
    BY <1>2, <2>1, TaskFields DEF IssueOK, Issues
  <2>3. e \in Entry
    BY <1>0, <2>1, <2>2, Numbers DEF Entry
  <2>4. m \in Made
    BY <2>2 DEF Made
  <2>5. t \in SignInTask /\ t.pc # "issue" /\ (t # NoTask => t.request = q)
    BY <2>1, <2>2 DEF SignInTask, NoTask
  <2>6. /\ entries' = With(Restrict(entries, kept), q, e) /\ made' = Append(made, m)
        /\ task' = [task EXCEPT ![h] = t]
    BY <1>2 DEF Issues
  <2>7. UNCHANGED <<now, doc, pages, log, total, sent, mails, signIns, opened>>
    BY <1>2 DEF Issues
  <2> HIDE DEF e, m, t, q, n
  <2>8. made' \in Seq(Made)
    BY <2>4, <2>6, AppendEntry DEF PanelTypeOK, SignInTypeOK
  <2>11. q \in opened
    BY <1>2, <2>1, NoTaskIsTask DEF IssueOK, q
  <2>9. task' \in [Handler -> SignInTask] /\ IssueOK'
    BY <2>5, <2>6, <2>7, <2>11 DEF PanelTypeOK, IssueOK, Is
  <2>10. Range(entries') \subseteq Entry /\ DOMAIN entries' \subseteq DOMAIN entries \cup {q}
    <3>1. /\ DOMAIN Restrict(entries, kept) = kept /\ Range(Restrict(entries, kept)) \subseteq Range(entries)
          /\ kept \subseteq DOMAIN entries
      BY RestrictRange
    <3> HIDE DEF kept
    <3>2. /\ DOMAIN entries' = DOMAIN Restrict(entries, kept) \cup {q}
          /\ Range(entries') \subseteq Range(Restrict(entries, kept)) \cup {e}
      BY <2>6, WithRange
    <3> QED
      BY <2>3, <3>1, <3>2 DEF PanelTypeOK, SignInTypeOK
  <2> QED
    BY <1>0, <2>7, <2>8, <2>9, <2>10, <2>11 DEF PanelTypeOK, SignInTypeOK
<1>3. CASE Sends(h)
  <2> DEFINE q == task[h].request
             m == [address |-> task[h].address, number |-> task[h].number,
                   key |-> [request |-> q, count |-> SentFor(q) + 1]]
             x == [number |-> task[h].number, at |-> now]
  <2>1. /\ task[h] \in SignInTask /\ task[h].pc = "send" /\ task[h].request \in opened
    BY <1>3, NoTaskIsTask DEF Sends, Is, PanelTypeOK, IssueOK
  <2>2. q \in Request /\ task[h].address \in Email /\ task[h].number \in Nat
    BY <2>1, TaskFields
  <2>3. SentFor(q) \in Nat
    BY InRange DEF SentFor, PanelTypeOK, SignInTypeOK
  <2>4. m \in Mail /\ x \in Delivery
    BY <1>0, <2>2, <2>3 DEF Mail, Delivery
  <2>5. task' = [task EXCEPT ![h] = NoTask]
    BY <1>3 DEF Sends, Return
  <2>6. UNCHANGED <<now, doc, pages, log, entries, made, signIns, opened>>
    BY <1>3 DEF Sends
  <2>7. task' \in [Handler -> SignInTask] /\ IssueOK'
    BY <2>5, <2>6, NoTaskIsTask DEF PanelTypeOK, IssueOK, Is
  <2>8. \/ total' = total /\ sent' = sent /\ mails' = mails
        \/ total' = RecentTotal \cup {x} /\ sent' = With(sent, q, SentFor(q) + 1) /\ mails' = mails \cup {m}
    BY <1>3 DEF Sends
  <2>9. DOMAIN sent' \subseteq opened /\ Range(sent') \subseteq Nat
    <3> DEFINE v == SentFor(q) + 1
    <3>0. v \in Nat
      BY <2>3
    <3> HIDE DEF v, q
    <3>1. /\ DOMAIN With(sent, q, v) = DOMAIN sent \cup {q}
          /\ Range(With(sent, q, v)) \subseteq Range(sent) \cup {v}
      BY WithRange
    <3> USE DEF v, q
    <3> QED
      BY <2>1, <2>8, <3>0, <3>1 DEF PanelTypeOK, SignInTypeOK
  <2> HIDE DEF m, x, q
  <2>10. total' \subseteq Delivery /\ mails' \subseteq Mail
    BY <2>4, <2>8 DEF RecentTotal, PanelTypeOK, SignInTypeOK
  <2> QED
    BY <1>0, <2>6, <2>7, <2>9, <2>10 DEF PanelTypeOK, SignInTypeOK
<1> QED
  BY <1>1, <1>2, <1>3

(* Flow.Verify.                                                            *)
LEMMA TypeVerify ==
  ASSUME PanelTypeOK, IssueOK, EntriesOK, UNCHANGED panelVars,
         \/ \E q \in Request, n \in Codes : PostsWrongCode(q, n)
         \/ \E h \in Handler, q \in Request : PostsRightCode(h, q)
  PROVE  PanelTypeOK' /\ IssueOK'
<1>0. sessions' = sessions /\ act' = act /\ events' = events /\ now \in Nat
  BY DEF panelVars, PanelTypeOK, SignInTypeOK
<1>1. ASSUME NEW q \in Request, NEW n \in Codes, PostsWrongCode(q, n)
      PROVE  PanelTypeOK' /\ IssueOK'
  <2>1. UNCHANGED <<now, doc, pages, log, total, sent, task, mails, signIns, opened>> /\ Refused(q)
    BY <1>1 DEF PostsWrongCode
  <2>2. /\ DOMAIN entries' \subseteq DOMAIN entries /\ Range(entries') \subseteq Entry
        /\ made' \in Seq(Made)
    <3>1. CASE Compared(q)
      <4> DEFINE e == [entries[q] EXCEPT !.attempts = entries[q].attempts + 1]
      <4>1. q \in DOMAIN entries /\ entries[q].attempts < MaxAttempts /\ entries[q] \in Entry
        BY <3>1, InRange DEF Compared, PanelTypeOK, SignInTypeOK
      <4>2. e \in Entry
        BY <4>1, Numbers DEF Entry
      <4>3. entries' = [entries EXCEPT ![q] = e] /\ made' = [made EXCEPT ![entries[q].number].wrong = @ + 1]
        BY <2>1, <3>1 DEF Refused
      <4>4. entries[q].number \in DOMAIN made /\ made \in Seq(Made)
        BY <4>1 DEF EntriesOK, PanelTypeOK, SignInTypeOK
      <4>5. made' \in Seq(Made)
        BY <4>3, <4>4, OneMoreWrong
      <4> HIDE DEF e
      <4>6. DOMAIN entries' = DOMAIN entries /\ \A x \in DOMAIN entries : entries'[x] = entries[x] \/ entries'[x] = e
        BY <4>3
      <4>7. Range(entries') \subseteq Entry
        BY <4>2, <4>6 DEF Range, PanelTypeOK, SignInTypeOK
      <4> QED
        BY <4>5, <4>6, <4>7
    <3>2. CASE ~Compared(q)
      <4>1. made' = made /\ (entries' = entries \/ entries' = Without(entries, q))
        BY <2>1, <3>2 DEF Refused
      <4>2. DOMAIN Without(entries, q) = DOMAIN entries \ {q} /\ Range(Without(entries, q)) \subseteq Range(entries)
        BY WithoutRange
      <4> QED
        BY <4>1, <4>2 DEF PanelTypeOK, SignInTypeOK
    <3> QED
      BY <3>1, <3>2
  <2> QED
    BY <1>0, <2>1, <2>2 DEF PanelTypeOK, SignInTypeOK, IssueOK, Is
<1>2. ASSUME NEW h \in Handler, NEW q \in Request, PostsRightCode(h, q)
      PROVE  PanelTypeOK' /\ IssueOK'
  <2> DEFINE e == entries[q]
             t == [pc |-> "grant", request |-> q, kind |-> pages[q].kind,
                   account |-> e.account, admin |-> doc.accounts[e.account].admin]
             s == [number |-> e.number, request |-> q, account |-> e.account,
                   at |-> now, after |-> Len(made)]
  <2>1. q \in DOMAIN entries /\ q \in DOMAIN pages /\ e \in Entry /\ pages[q] \in Page /\ q \in opened
    BY <1>2, InRange DEF PostsRightCode, Compared, Open, PanelTypeOK, SignInTypeOK
  <2>2. Active(e.account) => t \in SignInTask /\ s \in Accepted
    <3> SUFFICES ASSUME Active(e.account) PROVE t \in SignInTask /\ s \in Accepted
      OBVIOUS
    <3>1. e.account \in AccountId /\ doc.accounts[e.account] \in Account
      BY StateFields DEF Active, PanelTypeOK, SignInTypeOK
    <3>2. pages[q].kind \in Kinds /\ doc.accounts[e.account].admin \in BOOLEAN /\ e.number \in Nat
      BY <2>1, <3>1 DEF Page, Account, Entry
    <3>3. Len(made) \in Nat
      BY DEF PanelTypeOK, SignInTypeOK
    <3> QED
      BY <1>0, <3>1, <3>2, <3>3 DEF SignInTask, Accepted
  <2>3. /\ entries' = Without(entries, q)
        /\ UNCHANGED <<now, doc, pages, log, total, made, mails, opened>>
    BY <1>2 DEF PostsRightCode
  <2>4. \/ Active(e.account) /\ task' = [task EXCEPT ![h] = t] /\ sent' = Without(sent, q) /\ signIns' = signIns \cup {s}
        \/ task' = task /\ sent' = sent /\ signIns' = signIns
    BY <1>2 DEF PostsRightCode
  <2>5. t.pc = "grant" /\ t.request = q
    OBVIOUS
  <2> HIDE DEF t, s, e
  <2>6. task' \in [Handler -> SignInTask] /\ signIns' \subseteq Accepted /\ IssueOK'
    BY <2>1, <2>2, <2>3, <2>4, <2>5 DEF PanelTypeOK, SignInTypeOK, IssueOK, Is
  <2>7. /\ DOMAIN Without(entries, q) = DOMAIN entries \ {q} /\ Range(Without(entries, q)) \subseteq Range(entries)
        /\ DOMAIN Without(sent, q) = DOMAIN sent \ {q} /\ Range(Without(sent, q)) \subseteq Range(sent)
    BY WithoutRange
  <2>8. /\ DOMAIN entries' \subseteq opened /\ Range(entries') \subseteq Entry
        /\ DOMAIN sent' \subseteq opened /\ Range(sent') \subseteq Nat
    BY <2>3, <2>4, <2>7 DEF PanelTypeOK, SignInTypeOK
  <2> QED
    BY <1>0, <2>3, <2>6, <2>8 DEF PanelTypeOK, SignInTypeOK
<1> QED
  BY <1>1, <1>2

(* Sessions are made for accounts, and kept or dropped.                    *)
LEMMA TypeNewSession ==
  ASSUME PanelTypeOK, NEW a \in AccountId, NewSession(a)
  PROVE  Range(sessions') \subseteq Session /\ DOMAIN sessions' \subseteq 1..MaxSessions
<1> DEFINE new == [account |-> a, expires |-> now + SessionTTL]
<1>1. PICK k \in 1..MaxSessions : sessions' = With(sessions, k, new)
  BY NewSessionIs
<1>2. new \in Session
  BY Numbers DEF Session, PanelTypeOK, SignInTypeOK
<1> HIDE DEF new
<1>3. DOMAIN With(sessions, k, new) = DOMAIN sessions \cup {k}
      /\ Range(With(sessions, k, new)) \subseteq Range(sessions) \cup {new}
  BY WithRange
<1> QED
  BY <1>1, <1>2, <1>3 DEF PanelTypeOK

LEMMA TypeFewerSessions ==
  ASSUME PanelTypeOK, NEW k
  PROVE  /\ Range(Purged) \subseteq Session /\ DOMAIN Purged \subseteq 1..MaxSessions
         /\ Range(Without(Purged, k)) \subseteq Session /\ DOMAIN Without(Purged, k) \subseteq 1..MaxSessions
<1>1. DOMAIN Purged \subseteq DOMAIN sessions /\ Range(Purged) \subseteq Range(sessions)
  BY RestrictRange DEF Purged
<1>2. /\ DOMAIN Without(Purged, k) = DOMAIN Purged \ {k}
      /\ Range(Without(Purged, k)) \subseteq Range(Purged)
  BY WithoutRange
<1> QED
  BY <1>1, <1>2 DEF PanelTypeOK

LEMMA AdminIsAccount ==
  ASSUME PanelTypeOK
  PROVE  Admins \subseteq AccountId
BY StateFields DEF Admins, PanelTypeOK, SignInTypeOK

LEMMA TypeSessions ==
  ASSUME PanelTypeOK, IssueOK, DocOK,
         \/ \E h \in Handler : StartsSession(h)
         \/ \E q \in Request : RecoversSession(q)
         \/ \E k \in 1..MaxSessions : SignsOut(k) \/ TurnedAway(k)
  PROVE  PanelTypeOK' /\ IssueOK'
<1>1. ASSUME NEW h \in Handler, StartsSession(h)
      PROVE  PanelTypeOK' /\ IssueOK'
  <2> DEFINE q == task[h].request
  <2>1. /\ task' = [task EXCEPT ![h] = NoTask]
        /\ UNCHANGED <<now, doc, log, total, entries, sent, made, mails, signIns, opened, act, events>>
    BY <1>1 DEF StartsSession, Return, flowVars, pastVars
  <2>2. task' \in [Handler -> SignInTask] /\ IssueOK'
    BY <2>1, NoTaskIsTask DEF PanelTypeOK, IssueOK, Is
  <2>3. \/ sessions' = sessions /\ pages' = pages
        \/ task[h].admin /\ NewSession(task[h].account) /\ pages' = Without(pages, q)
    BY <1>1 DEF StartsSession
  <2>4. Range(sessions') \subseteq Session /\ DOMAIN sessions' \subseteq 1..MaxSessions
    <3>1. task[h].admin => task[h].account \in AccountId
      BY <1>1, AdminIsAccount DEF DocOK, StartsSession
    <3> QED
      BY <2>3, <3>1, TypeNewSession DEF PanelTypeOK
  <2>5. DOMAIN Without(pages, q) = DOMAIN pages \ {q} /\ Range(Without(pages, q)) \subseteq Range(pages)
    BY WithoutRange
  <2>6. DOMAIN pages' \subseteq opened /\ Range(pages') \subseteq Page
    BY <2>3, <2>5 DEF PanelTypeOK, SignInTypeOK
  <2> QED
    BY <2>1, <2>2, <2>4, <2>6 DEF PanelTypeOK, SignInTypeOK
<1>2. ASSUME NEW q \in Request, RecoversSession(q)
      PROVE  PanelTypeOK' /\ IssueOK'
  <2>1. UNCHANGED <<now, doc, log, total, entries, sent, task, made, mails, signIns, opened, act, events>>
    BY <1>2 DEF RecoversSession, flowVars, pastVars
  <2>2. Range(sessions') \subseteq Session /\ DOMAIN sessions' \subseteq 1..MaxSessions
    BY <1>2, AdminIsAccount, TypeNewSession DEF RecoversSession
  <2>3. DOMAIN Without(pages, q) = DOMAIN pages \ {q} /\ Range(Without(pages, q)) \subseteq Range(pages)
    BY WithoutRange
  <2>4. DOMAIN pages' \subseteq opened /\ Range(pages') \subseteq Page
    BY <1>2, <2>3 DEF RecoversSession, PanelTypeOK, SignInTypeOK
  <2> QED
    BY <2>1, <2>2, <2>4 DEF PanelTypeOK, SignInTypeOK, IssueOK, Is
<1>3. ASSUME NEW k \in 1..MaxSessions, SignsOut(k) \/ TurnedAway(k)
      PROVE  PanelTypeOK' /\ IssueOK'
  <2>1. sessions' = Without(Purged, k) /\ UNCHANGED <<signInVars, act, events>>
    BY <1>3 DEF SignsOut, TurnedAway
  <2>2. Range(sessions') \subseteq Session /\ DOMAIN sessions' \subseteq 1..MaxSessions
    BY <2>1, TypeFewerSessions
  <2> QED
    BY <2>1, <2>2 DEF PanelTypeOK, SignInTypeOK, IssueOK, Is, signInVars, flowVars, pastVars
<1> QED
  BY <1>1, <1>2, <1>3

LEMMA TypeActs ==
  ASSUME PanelTypeOK, IssueOK, DocOK,
         \/ \E t \in Tab : PanelAsks(t)
         \/ \E t \in Tab : UpdatesAccounts(t)
         \/ Boots
  PROVE  PanelTypeOK' /\ IssueOK'
<1>0. NoAct \in Act /\ events \in Nat /\ MaxEvents \in Nat
  BY Numbers DEF Act, PanelTypeOK
<1>1. ASSUME NEW t \in Tab, NEW what \in Act, Begins(t, what)
      PROVE  PanelTypeOK' /\ IssueOK'
  <2>1. /\ sessions' = Purged /\ act' = [act EXCEPT ![t] = what] /\ UNCHANGED signInVars
        /\ events' = events + 1 /\ events < MaxEvents
    BY <1>1 DEF Begins, MoreEvents
  <2>2. Range(sessions') \subseteq Session /\ DOMAIN sessions' \subseteq 1..MaxSessions
    BY <2>1, TypeFewerSessions
  <2>3. events' \in 0..MaxEvents
    BY <1>0, <2>1
  <2> QED
    BY <2>1, <2>2, <2>3 DEF PanelTypeOK, SignInTypeOK, IssueOK, Is, signInVars, flowVars, pastVars
<1>2. ASSUME NEW t \in Tab, NEW e \in Address, AsksCreate(t, e)
      PROVE  PanelTypeOK' /\ IssueOK'
  <2>1. [pc |-> "create", address |-> e] \in Act
    BY DEF Act
  <2> QED
    BY <1>1, <1>2, <2>1 DEF AsksCreate
<1>3. ASSUME NEW t \in Tab, NEW a \in AccountId, NEW what \in {"disable", "enable", "delete"},
             AsksAction(t, a, what)
      PROVE  PanelTypeOK' /\ IssueOK'
  <2>1. [pc |-> what, account |-> a] \in Act
    BY DEF Act
  <2> QED
    BY <1>1, <1>3, <2>1 DEF AsksAction
<1>4. ASSUME NEW t \in Tab, UpdatesAccounts(t)
      PROVE  PanelTypeOK' /\ IssueOK'
  <2>1. /\ act' = [act EXCEPT ![t] = NoAct]
        /\ UNCHANGED <<now, pages, log, total, entries, sent, task, made, mails, signIns, opened, sessions, events>>
    BY <1>4 DEF UpdatesAccounts, flowVars, pastVars
  <2>2. doc' \in State
    BY <1>4, DocUpdates
  <2> QED
    BY <1>0, <2>1, <2>2 DEF PanelTypeOK, SignInTypeOK, IssueOK, Is
<1>5. CASE Boots
  <2>1. doc' \in State
    BY <1>5, DocBoots
  <2>2. events' \in 0..MaxEvents
    BY <1>0, <1>5 DEF Boots, MoreEvents
  <2>3. /\ DOMAIN pages' = {} /\ DOMAIN entries' = {} /\ DOMAIN sent' = {} /\ DOMAIN sessions' = {}
        /\ Range(pages') = {} /\ Range(entries') = {} /\ Range(sent') = {} /\ Range(sessions') = {}
    BY <1>5, EmptyMap DEF Boots
  <2>4. made' \in Seq(Made) /\ act' \in [Tab -> Act] /\ task' \in [Handler -> SignInTask] /\ IssueOK'
    BY <1>0, <1>5, NoTaskIsTask DEF Boots, IssueOK, Is
  <2>5. log' = {} /\ total' = {} /\ mails' = {} /\ signIns' = {} /\ now' = now /\ opened' = opened
    BY <1>5 DEF Boots
  <2> QED
    BY <2>1, <2>2, <2>3, <2>4, <2>5 DEF PanelTypeOK, SignInTypeOK
<1> QED
  BY <1>2, <1>3, <1>4, <1>5 DEF PanelAsks

-----------------------------------------------------------------------------
(* Codes, mails and sign-ins.                                               *)

CodeInv == EntriesOK /\ CodesOK /\ SignInsOK

LEMMA MadeFields ==
  ASSUME PanelTypeOK
  PROVE  /\ made \in Seq(Made) /\ Len(made) \in Nat /\ DOMAIN made = 1..Len(made)
         /\ \A n \in DOMAIN made :
              /\ made[n] \in Made /\ made[n].at \in Nat /\ made[n].wrong \in Nat
              /\ made[n].address \in Email \cup Address /\ made[n].client \in Network
<1>1. made \in Seq(Made) /\ \A n \in DOMAIN made : made[n] \in Made
  BY DEF PanelTypeOK, SignInTypeOK
<1> QED
  BY <1>1 DEF Made

(* A step that leaves codes, mails and sign-ins alone.                     *)
CodesStay ==
  /\ UNCHANGED <<entries, made, mails, signIns>> /\ now <= now'
  /\ \A h \in Handler : Is(h, "send")' => task'[h] = task[h]

LEMMA CodesKept ==
  ASSUME PanelTypeOK, CodeInv, CodesStay, now' \in Nat
  PROVE  CodeInv'
<1>1. EntriesOK' /\ SignInsOK'
  BY DEF CodeInv, CodesStay, EntriesOK, SignInsOK
<1>2. \A n \in DOMAIN made : made[n].at <= now'
  <2>1. \A n \in DOMAIN made : made[n].at \in Nat /\ made[n].at <= now /\ now \in Nat
    BY MadeFields DEF PanelTypeOK, SignInTypeOK, CodeInv, CodesOK
  <2> QED
    BY <2>1 DEF CodesStay
<1>3. CodesOK'
  BY <1>2 DEF CodeInv, CodesStay, CodesOK, Is
<1> QED
  BY <1>1, <1>3 DEF CodeInv

(* The new code is the last of its page, and no code that was accepted.    *)
LEMMA CodesIssued ==
  ASSUME PanelTypeOK, IssueOK, CodeInv, NEW h \in Handler, Issues(h)
  PROVE  CodeInv'
<1> DEFINE q == task[h].request
           n == Len(made) + 1
           kept == {k \in DOMAIN entries : now <= entries[k].expires}
           e == [number |-> n, account |-> task[h].account, expires |-> now + CodeTTL, attempts |-> 0]
           m == [request |-> q, address |-> task[h].address, client |-> task[h].client,
                 account |-> task[h].account, at |-> task[h].at, wrong |-> 0]
           t == IF task[h].account = NoAccount THEN NoTask
                ELSE [pc |-> "send", request |-> q, address |-> task[h].address, number |-> n]
<1>1. /\ entries' = With(Restrict(entries, kept), q, e) /\ made' = Append(made, m)
      /\ task' = [task EXCEPT ![h] = t] /\ UNCHANGED <<now, mails, signIns>>
  BY DEF Issues
<1>2. m \in Made /\ m.at <= now
  <2>1. /\ task[h] \in SignInTask /\ task[h].pc = "issue" /\ task[h].at <= now
    BY DEF Issues, Is, PanelTypeOK, IssueOK
  <2> QED
    BY <2>1, TaskFields DEF Made
<1>3. e.number = n /\ e.account = m.account /\ e.attempts = m.wrong /\ m.request = q /\ m.wrong = 0
  OBVIOUS
<1>4. t.pc = "send" => t.number = n /\ t.request = q
  BY DEF NoTask
<1>5. task' \in [Handler -> {t} \cup SignInTask] /\ \A g \in Handler : task'[g] = t \/ task'[g] = task[g]
  BY <1>1 DEF PanelTypeOK
<1>6. MaxAttempts \in Nat
  BY Numbers
<1> HIDE DEF e, m, t, n, q
<1>7. /\ made' \in Seq(Made) /\ DOMAIN made = 1..Len(made) /\ Len(made) \in Nat /\ Len(made') = Len(made) + 1
      /\ DOMAIN made' = DOMAIN made \cup {n} /\ made'[n] = m /\ n = Len(made) + 1
      /\ \A i \in DOMAIN made : made'[i] = made[i]
  BY <1>1, <1>2, AppendEntry DEF n, PanelTypeOK, SignInTypeOK
<1>8. /\ DOMAIN entries' \subseteq DOMAIN entries \cup {q} /\ entries'[q] = e
      /\ \A x \in DOMAIN entries' : x # q => entries'[x] = entries[x]
  BY <1>1 DEF With, Restrict
<1>9. EntriesOK'
  BY <1>3, <1>7, <1>8 DEF CodeInv, EntriesOK
<1>10. CodesOK'
  BY <1>1, <1>2, <1>3, <1>4, <1>5, <1>6, <1>7 DEF CodeInv, CodesOK, Is
<1>11. SignInsOK'
  <2> SUFFICES ASSUME NEW s \in signIns
               PROVE  /\ s.number \in DOMAIN made' /\ s.after <= Len(made')
                      /\ \A x \in DOMAIN entries' : entries'[x].number # s.number
                      /\ \E y \in mails : y.number = s.number /\ y.key.request = s.request
                      /\ made'[s.number].account = s.account /\ made'[s.number].request = s.request
                      /\ made'[s.number].wrong < MaxAttempts
                      /\ \A i \in s.number + 1 .. s.after : made'[i].request # s.request
                      /\ \A o \in signIns : o.number = s.number => o = s
    BY <1>1 DEF SignInsOK
  <2>1. s.number \in DOMAIN made /\ s.after <= Len(made) /\ s.after \in Nat
    BY DEF CodeInv, SignInsOK, PanelTypeOK, SignInTypeOK, Accepted
  <2>2. \A i \in s.number + 1 .. s.after : i \in DOMAIN made
    BY <1>7, <2>1
  <2>3. \A x \in DOMAIN entries' : entries'[x].number # s.number
    BY <1>3, <1>7, <1>8, <2>1 DEF CodeInv, SignInsOK
  <2> QED
    <3>1. /\ made'[s.number] = made[s.number] /\ s.after <= Len(made') /\ s.number \in DOMAIN made'
          /\ \A i \in s.number + 1 .. s.after : made'[i] = made[i]
      BY <1>7, <2>1, <2>2
    <3>2. /\ \E y \in mails : y.number = s.number /\ y.key.request = s.request
          /\ made[s.number].account = s.account /\ made[s.number].request = s.request
          /\ made[s.number].wrong < MaxAttempts
          /\ \A i \in s.number + 1 .. s.after : made[i].request # s.request
          /\ \A o \in signIns : o.number = s.number => o = s
      BY DEF CodeInv, SignInsOK
    <3> QED
      BY <2>3, <3>1, <3>2
<1> QED
  BY <1>9, <1>10, <1>11 DEF CodeInv

LEMMA CodesMailed ==
  ASSUME PanelTypeOK, CodeInv, NEW h \in Handler, Sends(h)
  PROVE  CodeInv'
<1> DEFINE m == [address |-> task[h].address, number |-> task[h].number,
                 key |-> [request |-> task[h].request, count |-> SentFor(task[h].request) + 1]]
<1>1. /\ task' = [task EXCEPT ![h] = NoTask] /\ UNCHANGED <<now, entries, made, signIns>>
      /\ mails' = mails \/ mails' = mails \cup {m}
  BY DEF Sends, Return
<1>2. m.number = task[h].number /\ m.key.request = task[h].request
  OBVIOUS
<1>3. m.number \in DOMAIN made /\ made[m.number].request = m.key.request
  BY <1>2 DEF CodeInv, CodesOK, Sends
<1> HIDE DEF m
<1>4. CodesOK'
  BY <1>1, <1>3, NoTaskIsTask DEF CodeInv, CodesOK, Is, PanelTypeOK
<1>5. EntriesOK' /\ SignInsOK'
  BY <1>1 DEF CodeInv, EntriesOK, SignInsOK
<1> QED
  BY <1>4, <1>5 DEF CodeInv

(* A wrong code is counted for the page's last code, which nobody has      *)
(* signed in with.                                                         *)
LEMMA CodesRefused ==
  ASSUME PanelTypeOK, CodeInv, NEW q \in Request, NEW k, PostsWrongCode(q, k)
  PROVE  CodeInv'
<1>1. UNCHANGED <<now, task, mails, signIns>> /\ Refused(q)
  BY DEF PostsWrongCode
<1>2. CASE Compared(q)
  <2> DEFINE n == entries[q].number
             e == [entries[q] EXCEPT !.attempts = entries[q].attempts + 1]
  <2>1. q \in DOMAIN entries /\ entries[q].attempts < MaxAttempts /\ entries[q] \in Entry /\ n \in DOMAIN made
    BY <1>2, InRange DEF Compared, PanelTypeOK, SignInTypeOK, CodeInv, EntriesOK
  <2>2. /\ e.number = n /\ e.account = entries[q].account /\ e.attempts = entries[q].attempts + 1
        /\ e.attempts <= MaxAttempts
    BY <2>1, Numbers DEF Entry
  <2>3. entries' = [entries EXCEPT ![q] = e] /\ made' = [made EXCEPT ![n].wrong = @ + 1]
    BY <1>1, <1>2 DEF Refused
  <2> HIDE DEF e
  <2>4. /\ DOMAIN entries' = DOMAIN entries /\ entries'[q] = e
        /\ \A x \in DOMAIN entries : x # q => entries'[x] = entries[x]
    BY <2>1, <2>3
  <2>5. /\ Len(made') = Len(made) /\ DOMAIN made' = DOMAIN made
        /\ made'[n].wrong = made[n].wrong + 1
        /\ \A m \in DOMAIN made : m # n => made'[m] = made[m]
        /\ \A m \in DOMAIN made : made'[m].request = made[m].request /\ made'[m].account = made[m].account
        /\ \A m \in DOMAIN made : made'[m].at = made[m].at
    <3>1. made \in Seq(Made) /\ n \in DOMAIN made
      BY <2>1, MadeFields
    <3> HIDE DEF n
    <3> QED
      BY <2>3, <3>1, OneMoreWrong
  <2>6. /\ made[n].request = q /\ made[n].account = entries[q].account /\ made[n].wrong = entries[q].attempts
        /\ \A x \in DOMAIN entries : x # q => entries[x].number # n
        /\ \A s \in signIns : s.number # n
    BY <2>1 DEF CodeInv, EntriesOK, SignInsOK
  <2> HIDE DEF n
  <2>7. EntriesOK'
    <3> SUFFICES ASSUME NEW x \in DOMAIN entries
                 PROVE  /\ entries'[x].number \in DOMAIN made
                        /\ made'[entries'[x].number].request = x
                        /\ made'[entries'[x].number].account = entries'[x].account
                        /\ made'[entries'[x].number].wrong = entries'[x].attempts
                        /\ \A m \in DOMAIN made : made'[m].request = x => m <= entries'[x].number
      BY <2>4, <2>5 DEF EntriesOK
    <3>1. /\ entries[x].number \in DOMAIN made /\ made[entries[x].number].request = x
          /\ made[entries[x].number].account = entries[x].account
          /\ made[entries[x].number].wrong = entries[x].attempts
          /\ \A m \in DOMAIN made : made[m].request = x => m <= entries[x].number
      BY DEF CodeInv, EntriesOK
    <3>2. CASE x = q
      BY <2>2, <2>4, <2>5, <2>6, <3>1, <3>2 DEF n
    <3>3. CASE x # q
      BY <2>4, <2>5, <2>6, <3>1, <3>3
    <3> QED
      BY <3>2, <3>3
  <2>8. CodesOK'
    BY <1>1, <2>2, <2>5, <2>6 DEF CodeInv, CodesOK, Is
  <2>9. SignInsOK'
    <3>1. \A s \in signIns : s.number \in DOMAIN made /\ s.after <= Len(made) /\ s.after \in Nat
      BY DEF CodeInv, SignInsOK, PanelTypeOK, SignInTypeOK, Accepted
    <3>2. \A s \in signIns : \A i \in s.number + 1 .. s.after : i \in DOMAIN made
      BY <3>1, MadeFields
    <3>3. \A x \in DOMAIN entries : entries'[x].number = entries[x].number
      BY <2>1, <2>2, <2>4 DEF n
    <3> QED
      BY <1>1, <2>4, <2>5, <2>6, <3>1, <3>2, <3>3 DEF CodeInv, SignInsOK
  <2> QED
    BY <2>7, <2>8, <2>9 DEF CodeInv
<1>3. CASE ~Compared(q)
  <2>1. made' = made /\ (entries' = entries \/ entries' = Without(entries, q))
    BY <1>1, <1>3 DEF Refused
  <2>2. DOMAIN entries' \subseteq DOMAIN entries /\ \A x \in DOMAIN entries' : entries'[x] = entries[x]
    <3>1. DOMAIN Without(entries, q) = DOMAIN entries \ {q}
      BY WithoutRange
    <3>2. \A x \in DOMAIN entries \ {q} : Without(entries, q)[x] = entries[x]
      BY WithoutRange
    <3> QED
      BY <2>1, <3>1, <3>2
  <2> QED
    BY <1>1, <2>1, <2>2 DEF CodeInv, EntriesOK, CodesOK, SignInsOK, Is
<1> QED
  BY <1>2, <1>3

(* A code that is accepted was mailed for its page, and is the last.       *)
LEMMA CodesAccepted ==
  ASSUME PanelTypeOK, CodeInv, NEW h \in Handler, NEW q \in Request, PostsRightCode(h, q)
  PROVE  CodeInv'
<1> DEFINE e == entries[q]
           s == [number |-> e.number, request |-> q, account |-> e.account,
                 at |-> now, after |-> Len(made)]
           t == [pc |-> "grant", request |-> q, kind |-> pages[q].kind,
                 account |-> e.account, admin |-> doc.accounts[e.account].admin]
<1>1. /\ entries' = Without(entries, q) /\ UNCHANGED <<now, made, mails>>
      /\ task' = task \/ task' = [task EXCEPT ![h] = t]
      /\ signIns' = signIns \/ signIns' = signIns \cup {s}
  BY DEF PostsRightCode
<1>2. /\ q \in DOMAIN entries /\ e.attempts < MaxAttempts /\ e.number \in {m.number : m \in mails} \cup {WrongCode}
  BY DEF PostsRightCode, Compared, Codes, Match
<1>3. t.pc = "grant"
  OBVIOUS
<1>4. s.number = e.number /\ s.request = q /\ s.account = e.account /\ s.after = Len(made)
  OBVIOUS
<1> HIDE DEF t, s
<1>5. DOMAIN entries' = DOMAIN entries \ {q} /\ \A x \in DOMAIN entries' : entries'[x] = entries[x]
  <2>1. DOMAIN Without(entries, q) = DOMAIN entries \ {q}
    BY WithoutRange
  <2>2. \A x \in DOMAIN entries \ {q} : Without(entries, q)[x] = entries[x]
    BY WithoutRange
  <2> QED
    BY <1>1, <2>1, <2>2
<1>6. EntriesOK'
  BY <1>1, <1>5 DEF CodeInv, EntriesOK
<1>7. CodesOK'
  <2>1. \A g \in Handler : Is(g, "send")' => task'[g] = task[g]
    BY <1>1, <1>3 DEF Is, PanelTypeOK
  <2> QED
    BY <1>1, <2>1 DEF CodeInv, CodesOK, Is
<1>8. /\ e.number \in DOMAIN made /\ made[e.number].request = q /\ made[e.number].account = e.account
      /\ made[e.number].wrong < MaxAttempts
      /\ \A n \in DOMAIN made : made[n].request = q => n <= e.number
  BY <1>2 DEF CodeInv, EntriesOK
<1>9. \E m \in mails : m.number = e.number /\ m.key.request = q
  <2>1. e.number # WrongCode
    BY <1>8, MadeFields DEF WrongCode
  <2>2. PICK m \in mails : m.number = e.number
    BY <1>2, <2>1
  <2> QED
    BY <1>8, <2>2 DEF CodeInv, CodesOK
<1>10. \A n \in e.number + 1 .. Len(made) : made[n].request # q
  BY <1>8, MadeFields
<1>11. \A x \in DOMAIN entries' : entries'[x].number # e.number
  BY <1>5, <1>8 DEF CodeInv, EntriesOK
<1>12. \A o \in signIns : o.number # e.number
  BY <1>2 DEF CodeInv, SignInsOK
<1> HIDE DEF e
<1>13. SignInsOK'
  <2>1. ASSUME NEW o \in signIns'
        PROVE  /\ o.number \in DOMAIN made /\ o.after <= Len(made)
               /\ \A x \in DOMAIN entries' : entries'[x].number # o.number
               /\ \E m \in mails : m.number = o.number /\ m.key.request = o.request
               /\ made[o.number].account = o.account /\ made[o.number].request = o.request
               /\ made[o.number].wrong < MaxAttempts
               /\ \A n \in o.number + 1 .. o.after : made[n].request # o.request
               /\ \A p \in signIns' : p.number = o.number => p = o
    <3>1. CASE o = s
      BY <1>1, <1>4, <1>8, <1>9, <1>10, <1>11, <1>12, <3>1, MadeFields
    <3>2. CASE o \in signIns
      <4>1. /\ o.number \in DOMAIN made /\ o.after <= Len(made)
            /\ \A x \in DOMAIN entries : entries[x].number # o.number
            /\ \E m \in mails : m.number = o.number /\ m.key.request = o.request
            /\ made[o.number].account = o.account /\ made[o.number].request = o.request
            /\ made[o.number].wrong < MaxAttempts
            /\ \A n \in o.number + 1 .. o.after : made[n].request # o.request
            /\ \A p \in signIns : p.number = o.number => p = o
        BY <3>2 DEF CodeInv, SignInsOK
      <4>2. \A p \in signIns' : p.number = o.number => p = o
        BY <1>1, <1>4, <1>12, <3>2, <4>1
      <4> QED
        BY <1>5, <4>1, <4>2
    <3> QED
      BY <1>1, <2>1, <3>1, <3>2
  <2> QED
    BY <1>1, <2>1 DEF SignInsOK
<1> QED
  BY <1>6, <1>7, <1>13 DEF CodeInv

LEMMA CodesForgotten ==
  ASSUME PanelTypeOK, CodeInv, Boots
  PROVE  CodeInv'
<1>1. /\ DOMAIN entries' = {} /\ made' = <<>> /\ mails' = {} /\ signIns' = {}
      /\ task' = [h \in Handler |-> NoTask]
  BY EmptyMap DEF Boots
<1> QED
  BY <1>1, NoTaskIsTask DEF CodeInv, EntriesOK, CodesOK, SignInsOK, Is

(* Everything but the four steps above leaves codes, mails and sign-ins    *)
(* alone.                                                                  *)
LEMMA CodesStart == Init => CodeInv
<1> SUFFICES ASSUME Init PROVE CodeInv
  OBVIOUS
<1>1. DOMAIN entries = {} /\ made = <<>> /\ mails = {} /\ signIns = {} /\ task = [h \in Handler |-> NoTask]
  BY EmptyMap DEF Init, SignInInit
<1> QED
  BY <1>1, NoTaskIsTask DEF CodeInv, EntriesOK, CodesOK, SignInsOK, Is

(* The steps other than those of codes.                                    *)
Elsewhere ==
  \/ Tick /\ UNCHANGED panelVars
  \/ (\E q \in Request, kind \in Kinds : OpensPage(q, kind)) /\ UNCHANGED panelVars
  \/ \E h \in Handler : (\E q \in Request, e \in Address, c \in Network : PostsAddress(h, q, e, c)) /\ UNCHANGED panelVars
  \/ (\E h \in Handler : GrantsCode(h)) /\ UNCHANGED panelVars
  \/ \E h \in Handler : StartsSession(h)
  \/ \E q \in Request : RecoversSession(q)
  \/ \E k \in 1..MaxSessions : SignsOut(k) \/ TurnedAway(k)
  \/ \E t \in Tab : PanelAsks(t)
  \/ \E t \in Tab : UpdatesAccounts(t)

LEMMA CodesElsewhere ==
  ASSUME PanelTypeOK, Elsewhere
  PROVE  CodesStay
<1>0. now \in Nat
  BY DEF PanelTypeOK, SignInTypeOK
<1>1. ASSUME NEW h \in Handler, NEW q \in Request, NEW e \in Address, NEW c \in Network, PostsAddress(h, q, e, c)
      PROVE  CodesStay
  <2>1. PICK a \in AccountId \cup {NoAccount} :
          task' = [task EXCEPT ![h] = [pc |-> "issue", request |-> q, address |-> Normal(e),
                                       client |-> c, at |-> now, account |-> a]]
    BY <1>1, AddressTaken
  <2>2. \A g \in Handler : Is(g, "send")' => task'[g] = task[g]
    BY <2>1 DEF Is, PanelTypeOK
  <2> QED
    BY <1>0, <1>1, <2>2 DEF CodesStay, PostsAddress, pastVars
<1>2. ASSUME NEW h \in Handler, GrantsCode(h) \/ StartsSession(h)
      PROVE  CodesStay
  <2>1. task' = [task EXCEPT ![h] = NoTask] /\ UNCHANGED <<now, entries, made, mails, signIns>>
    BY <1>2 DEF GrantsCode, StartsSession, Return, flowVars, pastVars
  <2>2. \A g \in Handler : Is(g, "send")' => task'[g] = task[g]
    BY <2>1, NoTaskIsTask DEF Is, PanelTypeOK
  <2> QED
    BY <1>0, <2>1, <2>2 DEF CodesStay
<1>3. CASE Tick
  BY <1>0, <1>3 DEF Tick, CodesStay, flowVars, pastVars
<1>4. CASE \E q \in Request, kind \in Kinds : OpensPage(q, kind)
  BY <1>0, <1>4 DEF OpensPage, CodesStay, flowVars
<1>5. CASE \/ \E q \in Request : RecoversSession(q)
           \/ \E k \in 1..MaxSessions : SignsOut(k) \/ TurnedAway(k)
           \/ \E t \in Tab : UpdatesAccounts(t)
  BY <1>0, <1>5 DEF RecoversSession, SignsOut, TurnedAway, UpdatesAccounts, CodesStay, signInVars, flowVars, pastVars
<1>6. CASE \E t \in Tab : PanelAsks(t)
  BY <1>0, <1>6 DEF PanelAsks, AsksCreate, AsksAction, Begins, CodesStay, signInVars, flowVars, pastVars
<1> QED
  BY <1>1, <1>2, <1>3, <1>4, <1>5, <1>6 DEF Elsewhere

-----------------------------------------------------------------------------
(* The first theorems.                                                      *)

PanelInv == PanelTypeOK /\ IssueOK /\ DocOK /\ CodeInv

(* Every step is one of these.                                             *)
LEMMA Steps ==
  ASSUME Next
  PROVE  \/ Elsewhere
         \/ (\E h \in Handler : Issues(h) \/ Sends(h)) /\ UNCHANGED panelVars
         \/ (\E q \in Request, n \in Codes : PostsWrongCode(q, n)) /\ UNCHANGED panelVars
         \/ (\E h \in Handler, q \in Request : PostsRightCode(h, q)) /\ UNCHANGED panelVars
         \/ Boots
BY DEF Next, SignInNext, SignInStep, Elsewhere

LEMMA PanelInvStart == Init => PanelInv
BY TypeInit, DocInit, CodesStart DEF PanelInv

LEMMA PanelInvStep == PanelInv /\ [Next]_vars => PanelInv'
<1> SUFFICES ASSUME PanelInv, [Next]_vars PROVE PanelInv'
  OBVIOUS
<1>0. PanelTypeOK /\ IssueOK /\ DocOK /\ CodeInv /\ EntriesOK
  BY DEF PanelInv, CodeInv
<1>1. CASE UNCHANGED vars
  BY <1>0, <1>1 DEF PanelInv, PanelTypeOK, SignInTypeOK, IssueOK, DocOK, SessionsAreAdmins, Admins, CodeInv,
       EntriesOK, CodesOK, SignInsOK, Is, vars, signInVars, flowVars, pastVars, panelVars
<1>2. ASSUME Next
      PROVE  PanelTypeOK' /\ IssueOK' /\ DocOK'
  <2>1. CASE SignInNext /\ UNCHANGED panelVars
    <3>1. DocOK'
      BY <1>0, <2>1, DocSignIn
    <3>2. PanelTypeOK' /\ IssueOK'
      BY <1>0, <2>1, TypePages, TypeRequest, TypeVerify DEF SignInNext, SignInStep
    <3> QED
      BY <3>1, <3>2
  <2>2. CASE \/ \E h \in Handler : StartsSession(h)
             \/ \E q \in Request : RecoversSession(q)
             \/ \E k \in 1..MaxSessions : SignsOut(k) \/ TurnedAway(k)
    BY <1>0, <2>2, TypeSessions, DocSessions
  <2>3. CASE \E t \in Tab : PanelAsks(t)
    BY <1>0, <2>3, TypeActs, DocSessions
  <2>4. CASE (\E t \in Tab : UpdatesAccounts(t)) \/ Boots
    BY <1>0, <2>4, TypeActs, DocUpdates, DocBoots
  <2> QED
    BY <1>2, <2>1, <2>2, <2>3, <2>4 DEF Next
<1>3. ASSUME Next
      PROVE  CodeInv'
  <2>1. CASE Elsewhere
    <3>1. CodesStay
      BY <1>0, <2>1, CodesElsewhere
    <3>2. now' \in Nat
      BY <1>2, <1>3 DEF PanelTypeOK, SignInTypeOK
    <3> QED
      BY <1>0, <3>1, <3>2, CodesKept
  <2>2. CASE ~Elsewhere
    BY <1>0, <1>3, <2>2, Steps, CodesIssued, CodesMailed, CodesRefused, CodesAccepted, CodesForgotten
  <2> QED
    BY <2>1, <2>2
<1> QED
  BY <1>1, <1>2, <1>3 DEF PanelInv

LEMMA PanelInvHolds == Spec => []PanelInv
BY PanelInvStart, PanelInvStep, PTL DEF Spec

(* The state of the sign-in and of the panel has its type.                 *)
THEOREM PanelTyped == Spec => []PanelTypeOK
<1>1. PanelInv => PanelTypeOK
  BY DEF PanelInv
<1> QED
  BY PanelInvHolds, <1>1, PTL

(* Whatever the panel's requests saw before their updates and whoever the  *)
(* settings name, there is one administrator and it is active.             *)
THEOREM AlwaysOneActiveAdmin == Spec => []OneActiveAdmin
<1>1. PanelInv => OneActiveAdmin
  <2> SUFFICES ASSUME PanelInv PROVE OneActiveAdmin
    OBVIOUS
  <2>1. PICK a \in DOMAIN doc.accounts : AdminsOf(doc) = {a}
    BY OneAdmin DEF PanelInv, DocOK, PanelTypeOK, SignInTypeOK
  <2>2. Admins = {a}
    BY <2>1 DEF Admins, AdminsOf
  <2>3. Cardinality(Admins) = 1
    BY <2>2, FS_Singleton
  <2> QED
    BY <2>3 DEF OneActiveAdmin, PanelInv, DocOK
<1> QED
  BY PanelInvHolds, <1>1, PTL

(* A session that is live belongs to the administrator there is now.       *)
THEOREM SessionsStayAdmins == Spec => []SessionsAreAdmins
<1>1. PanelInv => SessionsAreAdmins
  BY DEF PanelInv, DocOK
<1> QED
  BY PanelInvHolds, <1>1, PTL

(* A sign-in goes back to a mail for its page, with the last code made for *)
(* it and while guesses are left, and no code does it twice.               *)
THEOREM SignInsNeedMail == Spec => []SignInNeedsMail
<1>1. PanelInv => SignInNeedsMail
  BY DEF PanelInv, CodeInv, SignInsOK, SignInNeedsMail
<1> QED
  BY PanelInvHolds, <1>1, PTL

-----------------------------------------------------------------------------
(* The limits.                                                              *)

Issuing == {h \in Handler : Is(h, "issue")}

(* What is asked for: the codes that were made and those about to be.  The *)
(* limiter is told before a code is made, so that this is what it knows.   *)
AskOf(x) == [address |-> x.address, client |-> x.client, at |-> x.at]
Asks == {AskOf(made[n]) : n \in DOMAIN made} \cup {AskOf(task[h]) : h \in Issuing}

OwnerOf(x) == [account |-> x.account, address |-> x.address]

HourOf(S, t) == {x \in S : t < x.at + Hour /\ x.at <= t}
OfAddress(S, a) == {x \in S : x.address = a}
OfClient(S, c) == {x \in S : x.client = c}

(* The limiter still has every request of the last hour; two of an address *)
(* are an interval apart.                                                  *)
LoggedOK ==
  /\ IsFiniteSet(Asks) /\ Asks \subseteq Asked
  /\ \A x \in Asks : x.at <= now /\ (now < x.at + Hour => x \in log)
  /\ \A x, y \in Asks : x # y /\ x.address = y.address =>
       x.at + AddrInterval <= y.at \/ y.at + AddrInterval <= x.at

(* No two codes stand for the same request.                                *)
AsksDiffer ==
  /\ \A n, m \in DOMAIN made : AskOf(made[n]) = AskOf(made[m]) => n = m
  /\ \A h, g \in Issuing : AskOf(task[h]) = AskOf(task[g]) => h = g
  /\ \A h \in Issuing, n \in DOMAIN made : AskOf(task[h]) # AskOf(made[n])

HoursOK ==
  \A t \in 0..now :
    /\ \A a : Cardinality(OfAddress(HourOf(Asks, t), a)) <= AddrPerHour
    /\ \A c : Cardinality(OfClient(HourOf(Asks, t), c)) <= ClientPerHour

LimitInv == IsFiniteSet(log) /\ LoggedOK /\ AsksDiffer /\ HoursOK

LEMMA AskOfFields ==
  ASSUME NEW x
  PROVE  AskOf(x).address = x.address /\ AskOf(x).client = x.client /\ AskOf(x).at = x.at
BY DEF AskOf

LEMMA AskOfIs ==
  ASSUME NEW x, NEW y, AskOf(x) = AskOf(y)
  PROVE  x.address = y.address /\ x.client = y.client /\ x.at = y.at
BY AskOfFields

LEMMA AskedFields ==
  ASSUME NEW x \in Asked
  PROVE  x.at \in Nat /\ x.client \in Network /\ x.address \in Email \cup Address
BY DEF Asked

(* A step that neither asks for a code nor takes time.                     *)
AsksStay ==
  /\ UNCHANGED <<log, now>> /\ DOMAIN made' = DOMAIN made
  /\ \A n \in DOMAIN made : AskOf(made'[n]) = AskOf(made[n]) /\ OwnerOf(made'[n]) = OwnerOf(made[n])
  /\ Issuing' = Issuing /\ \A h \in Issuing : task'[h] = task[h]

LEMMA LimitsKept ==
  ASSUME LimitInv, AsksStay
  PROVE  LimitInv'
<1>1. Asks' = Asks
  <2>1. {AskOf(made'[n]) : n \in DOMAIN made'} = {AskOf(made[n]) : n \in DOMAIN made}
    BY DEF AsksStay
  <2>2. {AskOf(task'[h]) : h \in Issuing'} = {AskOf(task[h]) : h \in Issuing}
    BY DEF AsksStay
  <2> QED
    BY <2>1, <2>2 DEF Asks
<1>2. LoggedOK'
  BY <1>1 DEF LimitInv, LoggedOK, AsksStay
<1>3. AsksDiffer'
  BY DEF LimitInv, AsksDiffer, AsksStay
<1>4. HoursOK'
  BY <1>1 DEF LimitInv, HoursOK, AsksStay, OfAddress, OfClient, HourOf
<1> QED
  BY <1>2, <1>3, <1>4 DEF LimitInv, AsksStay

LEMMA LimitsStart ==
  ASSUME made = <<>>, log = {}, task = [h \in Handler |-> NoTask]
  PROVE  LimitInv
<1>1. Issuing = {} /\ DOMAIN made = {}
  BY NoTaskIsTask DEF Issuing, Is
<1>2. Asks = {}
  BY <1>1 DEF Asks
<1>3. \A t, a : OfAddress(HourOf(Asks, t), a) = {} /\ OfClient(HourOf(Asks, t), a) = {}
  BY <1>2 DEF OfAddress, OfClient, HourOf
<1>4. IsFiniteSet({}) /\ Cardinality({}) = 0 /\ 0 <= AddrPerHour /\ 0 <= ClientPerHour
  BY FS_EmptySet, Numbers
<1>5. HoursOK
  BY <1>3, <1>4 DEF HoursOK
<1> QED
  BY <1>1, <1>2, <1>4, <1>5 DEF LimitInv, LoggedOK, AsksDiffer

(* An hour that ends later has fewer of the requests there are.            *)
LEMMA LimitsTick ==
  ASSUME PanelTypeOK, LimitInv, Tick
  PROVE  LimitInv'
<1>0. now \in Nat /\ now' = now + 1 /\ Hour \in Nat /\ UNCHANGED <<log, made, task>>
  BY Numbers DEF Tick, PanelTypeOK, SignInTypeOK, flowVars, pastVars
<1>1. Asks' = Asks /\ Issuing' = Issuing
  BY <1>0 DEF Asks, Issuing, Is
<1>2. \A x \in Asks : x.at \in Nat /\ x.at <= now
  BY AskedFields DEF LimitInv, LoggedOK
<1>3. LoggedOK'
  <2>1. \A x \in Asks : x.at <= now' /\ (now' < x.at + Hour => x \in log)
    BY <1>0, <1>2 DEF LimitInv, LoggedOK
  <2> QED
    BY <1>0, <1>1, <2>1 DEF LimitInv, LoggedOK
<1>4. AsksDiffer'
  BY <1>0, <1>1 DEF LimitInv, AsksDiffer
<1>5. HoursOK'
  <2>1. HourOf(Asks, now + 1) \subseteq HourOf(Asks, now)
    BY <1>0, <1>2 DEF HourOf
  <2>2. HourOf(Asks, now) \subseteq Asks
    BY DEF HourOf
  <2>3. ASSUME NEW a
        PROVE  /\ Cardinality(OfAddress(HourOf(Asks, now + 1), a)) <= AddrPerHour
               /\ Cardinality(OfClient(HourOf(Asks, now + 1), a)) <= ClientPerHour
    <3>1. /\ IsFiniteSet(OfAddress(HourOf(Asks, now), a)) /\ IsFiniteSet(OfClient(HourOf(Asks, now), a))
      <4>1. /\ OfAddress(HourOf(Asks, now), a) \subseteq Asks
            /\ OfClient(HourOf(Asks, now), a) \subseteq Asks
        BY <2>2 DEF OfAddress, OfClient
      <4> QED
        BY <4>1, FS_Subset DEF LimitInv, LoggedOK
    <3>2. /\ OfAddress(HourOf(Asks, now + 1), a) \subseteq OfAddress(HourOf(Asks, now), a)
          /\ OfClient(HourOf(Asks, now + 1), a) \subseteq OfClient(HourOf(Asks, now), a)
      BY <2>1 DEF OfAddress, OfClient
    <3>3. /\ Cardinality(OfAddress(HourOf(Asks, now + 1), a)) <= Cardinality(OfAddress(HourOf(Asks, now), a))
          /\ Cardinality(OfClient(HourOf(Asks, now + 1), a)) <= Cardinality(OfClient(HourOf(Asks, now), a))
      BY <3>1, <3>2, FS_Subset
    <3>4. /\ Cardinality(OfAddress(HourOf(Asks, now), a)) <= AddrPerHour
          /\ Cardinality(OfClient(HourOf(Asks, now), a)) <= ClientPerHour
      BY <1>0 DEF LimitInv, HoursOK
    <3>5. /\ Cardinality(OfAddress(HourOf(Asks, now + 1), a)) \in Nat /\ Cardinality(OfAddress(HourOf(Asks, now), a)) \in Nat
          /\ Cardinality(OfClient(HourOf(Asks, now + 1), a)) \in Nat /\ Cardinality(OfClient(HourOf(Asks, now), a)) \in Nat
      BY <3>1, <3>2, FS_Subset, FS_CardinalityType
    <3> QED
      BY <3>3, <3>4, <3>5, Numbers
  <2>4. ASSUME NEW t \in 0..now', NEW a
        PROVE  /\ Cardinality(OfAddress(HourOf(Asks, t), a)) <= AddrPerHour
               /\ Cardinality(OfClient(HourOf(Asks, t), a)) <= ClientPerHour
    <3>1. t \in 0..now \/ t = now + 1
      BY <1>0
    <3> QED
      BY <2>3, <3>1 DEF LimitInv, HoursOK
  <2> QED
    BY <1>1, <2>4 DEF HoursOK, OfAddress, OfClient, HourOf
<1> QED
  BY <1>0, <1>3, <1>4, <1>5 DEF LimitInv

(* A request becomes a code.                                               *)
LEMMA LimitsIssued ==
  ASSUME PanelTypeOK, LimitInv, NEW h \in Handler, Issues(h)
  PROVE  LimitInv'
<1> DEFINE n == Len(made) + 1
           m == [request |-> task[h].request, address |-> task[h].address, client |-> task[h].client,
                 account |-> task[h].account, at |-> task[h].at, wrong |-> 0]
           t == IF task[h].account = NoAccount THEN NoTask
                ELSE [pc |-> "send", request |-> task[h].request, address |-> task[h].address, number |-> n]
<1>1. /\ made' = Append(made, m) /\ task' = [task EXCEPT ![h] = t]
      /\ UNCHANGED <<now, log>> /\ h \in Issuing
  BY DEF Issues, Issuing
<1>2. AskOf(m) = AskOf(task[h])
  BY DEF AskOf
<1>3. t.pc # "issue"
  BY NoTaskIsTask
<1>4. m \in Made
  <2>1. /\ task[h].request \in Request /\ task[h].address \in Email \cup Address
        /\ task[h].client \in Network /\ task[h].account \in AccountId \cup {NoAccount} /\ task[h].at \in Nat
    <3>1. task[h] \in SignInTask /\ task[h].pc = "issue"
      BY <1>1 DEF PanelTypeOK, Issuing, Is
    <3> QED
      BY <3>1, TaskFields
  <2> QED
    BY <2>1 DEF Made
<1> HIDE DEF m, t
<1>5. Issuing' = Issuing \ {h} /\ \A g \in Issuing' : task'[g] = task[g]
  BY <1>1, <1>3 DEF Issuing, Is, PanelTypeOK
<1>6. /\ DOMAIN made' = DOMAIN made \cup {n} /\ made'[n] = m /\ n \notin DOMAIN made
      /\ \A i \in DOMAIN made : made'[i] = made[i]
  BY <1>1, <1>4, MadeFields, AppendEntry
<1>7. Asks' = Asks
  <2>1. {AskOf(made'[i]) : i \in DOMAIN made'} = {AskOf(made[i]) : i \in DOMAIN made} \cup {AskOf(task[h])}
    BY <1>2, <1>6
  <2>2. {AskOf(task'[g]) : g \in Issuing'} \cup {AskOf(task[h])} = {AskOf(task[g]) : g \in Issuing}
    BY <1>1, <1>5
  <2> QED
    BY <2>1, <2>2 DEF Asks
<1>8. LoggedOK'
  BY <1>1, <1>7 DEF LimitInv, LoggedOK
<1>9. AsksDiffer'
  <2>1. \A i, j \in DOMAIN made' : AskOf(made'[i]) = AskOf(made'[j]) => i = j
    BY <1>1, <1>2, <1>6 DEF LimitInv, AsksDiffer
  <2>2. \A g, k \in Issuing' : AskOf(task'[g]) = AskOf(task'[k]) => g = k
    BY <1>5 DEF LimitInv, AsksDiffer
  <2>3. \A g \in Issuing', i \in DOMAIN made' : AskOf(task'[g]) # AskOf(made'[i])
    BY <1>1, <1>2, <1>5, <1>6 DEF LimitInv, AsksDiffer
  <2> QED
    BY <2>1, <2>2, <2>3 DEF AsksDiffer
<1>10. HoursOK'
  BY <1>1, <1>7 DEF LimitInv, HoursOK, OfAddress, OfClient, HourOf
<1> QED
  BY <1>1, <1>8, <1>9, <1>10 DEF LimitInv

(* The limiter lets a request in that is an interval after the last of its *)
(* address and finds room in the hour that ends now.                       *)
LEMMA LimitsAsked ==
  ASSUME PanelTypeOK, LimitInv, NEW h \in Handler, NEW q \in Request, NEW address \in Address,
         NEW client \in Network, PostsAddress(h, q, address, client)
  PROVE  LimitInv'
<1> DEFINE norm == Normal(address)
           x == [address |-> norm, client |-> client, at |-> now]
<1>0. now \in Nat /\ Hour \in Nat /\ AddrInterval \in Nat /\ 1 <= AddrInterval /\ AddrInterval <= Hour
  BY Numbers DEF PanelTypeOK, SignInTypeOK
<1>1. /\ log' = RecentLog \cup {x} /\ AllowRequest(norm, client)
      /\ UNCHANGED <<now, made>>
  BY DEF PostsAddress, pastVars
<1>2. PICK a \in AccountId \cup {NoAccount} :
        /\ task[h] = NoTask
        /\ task' = [task EXCEPT ![h] = [pc |-> "issue", request |-> q, address |-> norm,
                                        client |-> client, at |-> now, account |-> a]]
  BY AddressTaken
<1> DEFINE t == [pc |-> "issue", request |-> q, address |-> norm, client |-> client, at |-> now, account |-> a]
<1>3. AskOf(t) = x /\ t.pc = "issue"
  BY DEF AskOf
<1>4. x \in Asked /\ x.at = now /\ x.address = norm /\ x.client = client
  BY <1>0, NormalType DEF Asked
<1>5. task' = [task EXCEPT ![h] = t]
  BY <1>2
<1> HIDE DEF x, t, norm
<1>6. h \notin Issuing /\ Issuing' = Issuing \cup {h} /\ task'[h] = t /\ \A g \in Issuing : task'[g] = task[g]
  BY <1>2, <1>3, <1>5, NoTaskIsTask DEF Issuing, Is, PanelTypeOK
<1>7. Asks' = Asks \cup {x}
  <2>1. {AskOf(task'[g]) : g \in Issuing'} = {AskOf(task[g]) : g \in Issuing} \cup {x}
    BY <1>3, <1>6
  <2> QED
    BY <1>1, <2>1 DEF Asks
<1>8. \A y \in Asks : y.at \in Nat /\ y.at <= now /\ (now < y.at + Hour => y \in RecentLog)
  BY <1>0, AskedFields DEF LimitInv, LoggedOK, RecentLog
<1>9. \A y \in Asks : y.address = norm => y.at + AddrInterval <= now
  <2>1. ASSUME NEW y \in Asks, y.address = norm
        PROVE  y.at + AddrInterval <= now
    <3>1. CASE now < y.at + Hour
      BY <1>1, <1>8, <2>1, <3>1 DEF AllowRequest
    <3>2. CASE ~(now < y.at + Hour)
      BY <1>0, <1>8, <3>2
    <3> QED
      BY <3>1, <3>2
  <2> QED
    BY <2>1
<1>10. x \notin Asks
  BY <1>0, <1>4, <1>9
<1>11. LoggedOK'
  <2>1. IsFiniteSet(Asks') /\ Asks' \subseteq Asked
    BY <1>4, <1>7, FS_AddElement DEF LimitInv, LoggedOK
  <2>2. \A y \in Asks' : y.at <= now' /\ (now' < y.at + Hour => y \in log')
    BY <1>0, <1>1, <1>4, <1>7, <1>8
  <2>3. \A y, z \in Asks' : y # z /\ y.address = z.address =>
          y.at + AddrInterval <= z.at \/ z.at + AddrInterval <= y.at
    BY <1>4, <1>7, <1>9 DEF LimitInv, LoggedOK
  <2> QED
    BY <2>1, <2>2, <2>3 DEF LoggedOK
<1>12. AsksDiffer'
  <2>1. \A n \in DOMAIN made : AskOf(made[n]) \in Asks
    BY DEF Asks
  <2>2. \A g \in Issuing : AskOf(task[g]) \in Asks
    BY DEF Asks
  <2> QED
    BY <1>1, <1>3, <1>6, <1>10, <2>1, <2>2 DEF LimitInv, AsksDiffer
<1>13. IsFiniteSet(log')
  <2>1. RecentLog \subseteq log
    BY DEF RecentLog
  <2> QED
    BY <1>1, <2>1, FS_Subset, FS_AddElement DEF LimitInv
<1>14. ASSUME NEW S, NEW R, NEW T, NEW limit \in Nat,
              R \subseteq RecentLog, Cardinality(R) < limit,
              T \subseteq R, S \subseteq T \cup {x}
       PROVE  Cardinality(S) <= limit
  <2>1. IsFiniteSet(R)
    <3>1. R \subseteq log
      BY <1>14 DEF RecentLog
    <3> QED
      BY <3>1, FS_Subset DEF LimitInv
  <2>2. IsFiniteSet(R \cup {x}) /\ Cardinality(R \cup {x}) <= Cardinality(R) + 1 /\ Cardinality(R) \in Nat
    <3>1. IsFiniteSet(R \cup {x}) /\ Cardinality(R \cup {x}) = IF x \in R THEN Cardinality(R) ELSE Cardinality(R) + 1
      BY <2>1, FS_AddElement
    <3>2. Cardinality(R) \in Nat
      BY <2>1, FS_CardinalityType
    <3> QED
      BY <3>1, <3>2
  <2>3. S \subseteq R \cup {x}
    BY <1>14
  <2>4. Cardinality(S) <= Cardinality(R \cup {x}) /\ Cardinality(S) \in Nat /\ Cardinality(R \cup {x}) \in Nat
    BY <2>2, <2>3, FS_Subset, FS_CardinalityType
  <2> QED
    BY <1>14, <2>2, <2>4
<1>15. HoursOK'
  <2>1. ASSUME NEW s \in 0..now, NEW b
        PROVE  /\ Cardinality(OfAddress(HourOf(Asks \cup {x}, s), b)) <= AddrPerHour
               /\ Cardinality(OfClient(HourOf(Asks \cup {x}, s), b)) <= ClientPerHour
    <3>1. CASE s # now
      <4>1. HourOf(Asks \cup {x}, s) = HourOf(Asks, s)
        BY <1>0, <1>4, <3>1 DEF HourOf
      <4> QED
        BY <4>1 DEF LimitInv, HoursOK
    <3>2. CASE s = now
      <4>1. /\ HourOf(Asks \cup {x}, s) \subseteq HourOf(Asks, now) \cup {x}
            /\ HourOf(Asks, now) \subseteq RecentLog
            /\ HourOf(Asks, now) \subseteq HourOf(Asks \cup {x}, s)
        BY <1>8, <3>2 DEF HourOf
      <4>2. Cardinality(OfAddress(HourOf(Asks \cup {x}, s), b)) <= AddrPerHour
        <5>1. CASE b = norm
          <6>1. /\ OfAddress(HourOf(Asks \cup {x}, s), b) \subseteq OfAddress(HourOf(Asks, now), b) \cup {x}
                /\ OfAddress(HourOf(Asks, now), b) \subseteq OfAddress(RecentLog, b)
                /\ OfAddress(RecentLog, b) \subseteq RecentLog
            BY <4>1 DEF OfAddress
          <6>2. Cardinality(OfAddress(RecentLog, b)) < AddrPerHour
            BY <1>1, <5>1 DEF AllowRequest, OfAddress
          <6> QED
            BY <1>14, <6>1, <6>2, Numbers
        <5>2. CASE b # norm
          <6>1. OfAddress(HourOf(Asks \cup {x}, s), b) = OfAddress(HourOf(Asks, now), b)
            BY <1>4, <4>1, <5>2 DEF OfAddress
          <6> QED
            BY <1>0, <6>1 DEF LimitInv, HoursOK
        <5> QED
          BY <5>1, <5>2
      <4>3. Cardinality(OfClient(HourOf(Asks \cup {x}, s), b)) <= ClientPerHour
        <5>1. CASE b = client
          <6>1. /\ OfClient(HourOf(Asks \cup {x}, s), b) \subseteq OfClient(HourOf(Asks, now), b) \cup {x}
                /\ OfClient(HourOf(Asks, now), b) \subseteq OfClient(RecentLog, b)
                /\ OfClient(RecentLog, b) \subseteq RecentLog
            BY <4>1 DEF OfClient
          <6>2. Cardinality(OfClient(RecentLog, b)) < ClientPerHour
            BY <1>1, <5>1 DEF AllowRequest, OfClient
          <6> QED
            BY <1>14, <6>1, <6>2, Numbers
        <5>2. CASE b # client
          <6>1. OfClient(HourOf(Asks \cup {x}, s), b) = OfClient(HourOf(Asks, now), b)
            BY <1>4, <4>1, <5>2 DEF OfClient
          <6> QED
            BY <1>0, <6>1 DEF LimitInv, HoursOK
        <5> QED
          BY <5>1, <5>2
      <4> QED
        BY <4>2, <4>3
    <3> QED
      BY <3>1, <3>2
  <2> QED
    BY <1>1, <1>7, <2>1 DEF HoursOK, OfAddress, OfClient, HourOf
<1> QED
  BY <1>11, <1>12, <1>13, <1>15 DEF LimitInv

(* The steps of Elsewhere that neither ask for a code nor take time, and   *)
(* the mails and the codes posted.                                         *)
LEMMA AsksElsewhere ==
  ASSUME PanelTypeOK, EntriesOK,
         \/ Elsewhere
         \/ \E h \in Handler : Sends(h)
         \/ \E q \in Request, n \in Codes : PostsWrongCode(q, n)
         \/ \E h \in Handler, q \in Request : PostsRightCode(h, q)
  PROVE  \/ AsksStay
         \/ Tick
         \/ \E h \in Handler, q \in Request, e \in Address, c \in Network : PostsAddress(h, q, e, c)
<1>1. ASSUME UNCHANGED <<log, now, made, task>>
      PROVE  AsksStay
  BY <1>1 DEF AsksStay, Issuing, Is
<1>2. ASSUME NEW h \in Handler, NEW t, UNCHANGED <<log, now, made>>, ~Is(h, "issue"), t.pc # "issue",
             task' = task \/ task' = [task EXCEPT ![h] = t]
      PROVE  AsksStay
  <2>1. Issuing' = Issuing /\ \A g \in Issuing : task'[g] = task[g]
    BY <1>2 DEF Issuing, Is, PanelTypeOK
  <2> QED
    BY <1>2, <2>1 DEF AsksStay
<1>3. ASSUME NEW h \in Handler, Sends(h) \/ GrantsCode(h) \/ StartsSession(h)
      PROVE  AsksStay
  <2>1. /\ UNCHANGED <<log, now, made>> /\ ~Is(h, "issue")
        /\ task' = [task EXCEPT ![h] = NoTask]
    BY <1>3 DEF Sends, GrantsCode, StartsSession, Return, Is, flowVars, pastVars
  <2> QED
    BY <1>2, <2>1, NoTaskIsTask
<1>4. ASSUME NEW h \in Handler, NEW q \in Request, PostsRightCode(h, q)
      PROVE  AsksStay
  <2> DEFINE t == [pc |-> "grant", request |-> q, kind |-> pages[q].kind, account |-> entries[q].account,
                   admin |-> doc.accounts[entries[q].account].admin]
  <2>1. /\ UNCHANGED <<log, now, made>> /\ task[h] = NoTask
        /\ task' = task \/ task' = [task EXCEPT ![h] = t]
    BY <1>4 DEF PostsRightCode
  <2>2. t.pc # "issue" /\ ~Is(h, "issue")
    BY <2>1, NoTaskIsTask DEF Is
  <2> HIDE DEF t
  <2> QED
    BY <1>2, <2>1, <2>2
<1>5. ASSUME NEW q \in Request, NEW k, PostsWrongCode(q, k)
      PROVE  AsksStay
  <2>1. UNCHANGED <<log, now, task>> /\ Refused(q)
    BY <1>5 DEF PostsWrongCode
  <2>2. CASE Compared(q)
    <3> DEFINE n == entries[q].number
    <3>1. made' = [made EXCEPT ![n].wrong = @ + 1] /\ n \in DOMAIN made
      BY <2>1, <2>2 DEF Refused, Compared, EntriesOK
    <3> HIDE DEF n
    <3>2. /\ DOMAIN made' = DOMAIN made
          /\ \A i \in DOMAIN made : made'[i].address = made[i].address /\ made'[i].client = made[i].client
          /\ \A i \in DOMAIN made : made'[i].at = made[i].at
          /\ \A i \in DOMAIN made : made'[i].account = made[i].account
      BY <3>1, OneMoreWrong, MadeFields
    <3> QED
      BY <2>1, <3>2 DEF AsksStay, AskOf, OwnerOf, Issuing, Is
  <2>3. CASE ~Compared(q)
    BY <1>1, <2>1, <2>3 DEF Refused
  <2> QED
    BY <2>2, <2>3
<1>6. CASE \/ \E q \in Request, kind \in Kinds : OpensPage(q, kind)
           \/ \E q \in Request : RecoversSession(q)
           \/ \E k \in 1..MaxSessions : SignsOut(k) \/ TurnedAway(k)
           \/ \E t \in Tab : UpdatesAccounts(t)
  BY <1>1, <1>6 DEF OpensPage, RecoversSession, SignsOut, TurnedAway, UpdatesAccounts, signInVars, flowVars, pastVars
<1>7. CASE \E t \in Tab : PanelAsks(t)
  BY <1>1, <1>7 DEF PanelAsks, AsksCreate, AsksAction, Begins, signInVars, flowVars, pastVars
<1> QED
  BY <1>3, <1>4, <1>5, <1>6, <1>7 DEF Elsewhere

-----------------------------------------------------------------------------
(* Whose codes they are.                                                    *)

(* An account's codes all go to one address, its own while it exists: it   *)
(* keeps its address, and its id is not given to another.                  *)
Owned == {OwnerOf(made[n]) : n \in DOMAIN made} \cup {OwnerOf(task[h]) : h \in Issuing}

OwnersOK ==
  \A x \in Owned : x.account # NoAccount =>
    /\ x.account \in DOMAIN doc.accounts => doc.accounts[x.account].email = x.address
    /\ \A y \in Owned : y.account = x.account => y.address = x.address

LEMMA OwnerOfFields ==
  ASSUME NEW x
  PROVE  OwnerOf(x).account = x.account /\ OwnerOf(x).address = x.address
BY DEF OwnerOf

(* Of the accounts there were, those that stay keep their address; the new *)
(* ones are new to the codes.                                              *)
OwnersStay ==
  \A a \in DOMAIN doc'.accounts :
    \/ a \in DOMAIN doc.accounts /\ doc'.accounts[a].email = doc.accounts[a].email
    \/ \A x \in Owned : x.account # a

LEMMA OwnersKept ==
  ASSUME OwnersOK, OwnersStay, Owned' \subseteq Owned
  PROVE  OwnersOK'
BY DEF OwnersOK, OwnersStay

LEMMA OwnersStart ==
  ASSUME made = <<>>, task = [h \in Handler |-> NoTask]
  PROVE  OwnersOK
<1>1. Issuing = {} /\ DOMAIN made = {}
  BY NoTaskIsTask DEF Issuing, Is
<1> QED
  BY <1>1 DEF OwnersOK, Owned

LEMMA OwnersIssued ==
  ASSUME PanelTypeOK, OwnersOK, NEW h \in Handler, Issues(h)
  PROVE  OwnersOK'
<1> DEFINE n == Len(made) + 1
           m == [request |-> task[h].request, address |-> task[h].address, client |-> task[h].client,
                 account |-> task[h].account, at |-> task[h].at, wrong |-> 0]
           t == IF task[h].account = NoAccount THEN NoTask
                ELSE [pc |-> "send", request |-> task[h].request, address |-> task[h].address, number |-> n]
<1>1. /\ made' = Append(made, m) /\ task' = [task EXCEPT ![h] = t]
      /\ UNCHANGED doc /\ h \in Issuing
  BY DEF Issues, Issuing
<1>2. OwnerOf(m) = OwnerOf(task[h])
  BY DEF OwnerOf
<1>3. t.pc # "issue"
  BY NoTaskIsTask
<1>4. m \in Made
  <2>1. /\ task[h].request \in Request /\ task[h].address \in Email \cup Address
        /\ task[h].client \in Network /\ task[h].account \in AccountId \cup {NoAccount} /\ task[h].at \in Nat
    <3>1. task[h] \in SignInTask /\ task[h].pc = "issue"
      BY <1>1 DEF PanelTypeOK, Issuing, Is
    <3> QED
      BY <3>1, TaskFields
  <2> QED
    BY <2>1 DEF Made
<1> HIDE DEF m, t
<1>5. Issuing' = Issuing \ {h} /\ \A g \in Issuing' : task'[g] = task[g]
  BY <1>1, <1>3 DEF Issuing, Is, PanelTypeOK
<1>6. /\ DOMAIN made' = DOMAIN made \cup {n} /\ made'[n] = m
      /\ \A i \in DOMAIN made : made'[i] = made[i]
  BY <1>1, <1>4, MadeFields, AppendEntry
<1>7. Owned' \subseteq Owned
  BY <1>1, <1>2, <1>5, <1>6 DEF Owned
<1> QED
  BY <1>1, <1>7, OwnersKept DEF OwnersStay

(* The account that is found has the address.                              *)
LEMMA OwnersAsked ==
  ASSUME PanelTypeOK, OwnersOK, NEW h \in Handler, NEW q \in Request, NEW address \in Address,
         NEW client \in Network, PostsAddress(h, q, address, client)
  PROVE  OwnersOK'
<1> DEFINE norm == Normal(address)
<1>1. PICK a \in AccountId \cup {NoAccount} :
        /\ task[h] = NoTask
        /\ task' = [task EXCEPT ![h] = [pc |-> "issue", request |-> q, address |-> norm,
                                        client |-> client, at |-> now, account |-> a]]
        /\ a # NoAccount => a \in DOMAIN doc.accounts /\ doc.accounts[a].email = norm
  BY AddressTaken
<1> DEFINE t == [pc |-> "issue", request |-> q, address |-> norm, client |-> client, at |-> now, account |-> a]
           x == OwnerOf(t)
<1>2. x.account = a /\ x.address = norm /\ t.pc = "issue"
  BY DEF OwnerOf
<1>3. task' = [task EXCEPT ![h] = t] /\ UNCHANGED <<doc, made>>
  BY <1>1 DEF PostsAddress, pastVars
<1> HIDE DEF t, norm
<1>4. h \notin Issuing /\ Issuing' = Issuing \cup {h} /\ task'[h] = t /\ \A g \in Issuing : task'[g] = task[g]
  BY <1>1, <1>2, <1>3, NoTaskIsTask DEF Issuing, Is, PanelTypeOK
<1>5. Owned' = Owned \cup {x}
  <2>1. {OwnerOf(task'[g]) : g \in Issuing'} = {OwnerOf(task[g]) : g \in Issuing} \cup {x}
    BY <1>4
  <2> QED
    BY <1>3, <2>1 DEF Owned
<1> HIDE DEF x
<1> QED
  BY <1>1, <1>2, <1>3, <1>5 DEF OwnersOK

(* The panel's updates leave addresses alone.                              *)
LEMMA OwnersUpdated ==
  ASSUME PanelTypeOK, DocOK, OwnersOK, NEW u \in Tab, UpdatesAccounts(u)
  PROVE  OwnersOK'
<1>1. UNCHANGED <<made, task>> /\ doc' \in {doc} \cup Updated(act[u]) /\ doc \in State
  BY DEF UpdatesAccounts, pastVars, PanelTypeOK, SignInTypeOK
<1>2. Owned' = Owned
  BY <1>1 DEF Owned, Issuing, Is
<1>3. OwnersStay
  <2>1. CASE doc' = doc
    BY <2>1 DEF OwnersStay
  <2>2. CASE act[u].pc = "create" /\ doc' \in Updated(act[u])
    <3>1. PICK i \in FreshIds : doc' \in AddUser(doc, act[u].address, i)
      BY <2>2 DEF Updated
    <3>2. \A x \in Owned : x.account # i
      <4>1. \A n \in DOMAIN made : made[n].account # i
        BY <3>1 DEF FreshIds
      <4>2. \A g \in Issuing : task[g].account # i
        BY <3>1 DEF FreshIds, Issuing
      <4> QED
        BY <4>1, <4>2, OwnerOfFields DEF Owned
    <3>4. /\ DOMAIN doc'.accounts = DOMAIN doc.accounts \cup {i}
          /\ \A a \in DOMAIN doc.accounts : doc'.accounts[a] = doc.accounts[a]
      <4>1. i \in NewAccountIds(doc)
        BY <3>1 DEF FreshIds
      <4> QED
        BY <1>1, <3>1, <4>1, AddUserSpares
    <3> QED
      BY <3>2, <3>4 DEF OwnersStay
  <2>3. CASE act[u].pc \in {"disable", "enable"} /\ doc' \in Updated(act[u])
    <3>1. PICK d \in BOOLEAN : doc' \in SetDisabled(doc, act[u].account, d)
      BY <2>3 DEF Updated
    <3> QED
      BY <1>1, <3>1, SetDisabledIs DEF OwnersStay
  <2>4. CASE act[u].pc = "delete" /\ doc' \in Updated(act[u])
    <3>1. doc' \in DeleteAccount(doc, act[u].account)
      BY <2>4 DEF Updated
    <3>2. \A a \in DOMAIN doc'.accounts : a \in DOMAIN doc.accounts /\ doc'.accounts[a] = doc.accounts[a]
      BY <1>1, <3>1, DeleteAccountSpares
    <3> QED
      BY <3>2 DEF OwnersStay
  <2>5. CASE act[u].pc \notin {"create", "disable", "enable", "delete"} /\ doc' \in Updated(act[u])
    BY <2>5 DEF Updated
  <2> QED
    BY <1>1, <2>1, <2>2, <2>3, <2>4, <2>5
<1> QED
  BY <1>2, <1>3, OwnersKept

-----------------------------------------------------------------------------
(* What is asked for stays within the limits.                               *)

AskInv == PanelInv /\ LimitInv /\ OwnersOK

NothingAsked == made = <<>> /\ log = {} /\ task = [h \in Handler |-> NoTask]

LEMMA AskInvForgets == NothingAsked => LimitInv /\ OwnersOK
BY LimitsStart, OwnersStart DEF NothingAsked

LEMMA AskInvStart == Init => AskInv
BY PanelInvStart, AskInvForgets DEF AskInv, NothingAsked, Init, SignInInit

(* Every step but those that ask for a code, issue one, update the store   *)
(* or start a process leaves the owners alone.                             *)
LEMMA OwnersElsewhere ==
  ASSUME OwnersOK, doc' = doc, AsksStay
  PROVE  OwnersOK'
<1>1. Owned' = Owned
  <2>1. {OwnerOf(made'[n]) : n \in DOMAIN made'} = {OwnerOf(made[n]) : n \in DOMAIN made}
    BY DEF AsksStay
  <2>2. {OwnerOf(task'[h]) : h \in Issuing'} = {OwnerOf(task[h]) : h \in Issuing}
    BY DEF AsksStay
  <2> QED
    BY <2>1, <2>2 DEF Owned
<1> QED
  BY <1>1, OwnersKept DEF OwnersStay

LEMMA OwnersTick ==
  ASSUME OwnersOK, UNCHANGED <<doc, made, task>>
  PROVE  OwnersOK'
BY OwnersKept DEF OwnersStay, Owned, Issuing, Is

LEMMA AskInvStep == AskInv /\ [Next]_vars => AskInv'
<1> SUFFICES ASSUME AskInv, [Next]_vars PROVE LimitInv' /\ OwnersOK'
  BY PanelInvStep DEF AskInv
<1>0. PanelTypeOK /\ DocOK /\ EntriesOK /\ LimitInv /\ OwnersOK
  BY DEF AskInv, PanelInv, CodeInv
<1>1. CASE UNCHANGED vars
  <2>1. UNCHANGED <<doc, made, task, log, now>>
    BY <1>1 DEF vars, signInVars, flowVars, pastVars
  <2>2. AsksStay
    BY <2>1 DEF AsksStay, Issuing, Is
  <2> QED
    BY <1>0, <2>1, <2>2, LimitsKept, OwnersTick
<1>2. CASE Tick
  <2>1. UNCHANGED <<doc, made, task>>
    BY <1>2 DEF Tick, pastVars
  <2> QED
    BY <1>0, <1>2, <2>1, LimitsTick, OwnersTick
<1>3. CASE \E h \in Handler, q \in Request, e \in Address, c \in Network : PostsAddress(h, q, e, c)
  BY <1>0, <1>3, LimitsAsked, OwnersAsked
<1>4. CASE \E h \in Handler : Issues(h)
  BY <1>0, <1>4, LimitsIssued, OwnersIssued
<1>5. CASE Boots
  <2>1. NothingAsked'
    BY <1>5 DEF Boots, NothingAsked
  <2> QED
    BY <2>1, AskInvForgets, PTL
<1>6. CASE AsksStay
  <2>1. LimitInv'
    BY <1>0, <1>6, LimitsKept
  <2>2. OwnersOK'
    <3>1. CASE \E u \in Tab : UpdatesAccounts(u)
      BY <1>0, <3>1, OwnersUpdated
    <3>2. CASE doc' = doc
      BY <1>0, <1>6, <3>2, OwnersElsewhere
    <3>3. CASE Boots
      BY <1>5, <3>3
    <3>4. ASSUME Next
          PROVE  (\E u \in Tab : UpdatesAccounts(u)) \/ Boots \/ doc' = doc
      BY <3>4 DEF Next, SignInNext, SignInStep, Tick, OpensPage, PostsAddress, PostsWrongCode, PostsRightCode,
           Issues, Sends, GrantsCode, StartsSession, RecoversSession, SignsOut, TurnedAway, PanelAsks, AsksCreate, AsksAction,
           Begins, signInVars
    <3>5. Next \/ UNCHANGED vars
      OBVIOUS
    <3> QED
      BY <1>1, <3>1, <3>2, <3>3, <3>4, <3>5
  <2> QED
    BY <2>1, <2>2
<1>7. ASSUME Next, ~Boots, \A h \in Handler : ~Issues(h)
      PROVE  \/ AsksStay \/ Tick
             \/ \E h \in Handler, q \in Request, e \in Address, c \in Network : PostsAddress(h, q, e, c)
  BY <1>0, <1>7, Steps, AsksElsewhere
<1> QED
  BY <1>1, <1>2, <1>3, <1>4, <1>5, <1>6, <1>7

LEMMA AskInvHolds == Spec => []AskInv
BY AskInvStart, AskInvStep, PTL DEF Spec

(* At most one code per address in an interval, and no more per address    *)
(* and per client in any hour than the limits allow, however the requests  *)
(* of different pages interleave between the limiter and the code.         *)
THEOREM CodesStayWithinLimits == Spec => []CodesWithinLimits
<1>1. AskInv => CodesWithinLimits
  <2> SUFFICES ASSUME AskInv PROVE CodesWithinLimits
    OBVIOUS
  <2>0. LimitInv /\ PanelTypeOK
    BY DEF AskInv, PanelInv
  <2>1. \A n \in DOMAIN made : AskOf(made[n]) \in Asks
    BY DEF Asks
  <2>2. ASSUME NEW n \in DOMAIN made, NEW m \in DOMAIN made, n # m, made[n].address = made[m].address
        PROVE  made[n].at + AddrInterval <= made[m].at \/ made[m].at + AddrInterval <= made[n].at
    <3>1. AskOf(made[n]) # AskOf(made[m])
      BY <2>0, <2>2 DEF LimitInv, AsksDiffer
    <3> QED
      BY <2>0, <2>1, <2>2, <3>1, AskOfFields DEF LimitInv, LoggedOK
  <2>3. ASSUME NEW t \in 0..now, NEW S, S \subseteq InHour(t), NEW T, T \subseteq HourOf(Asks, t),
               \A n \in S : AskOf(made[n]) \in T, NEW limit \in Nat, Cardinality(T) <= limit
        PROVE  Cardinality(S) <= limit
    <3> DEFINE f == [n \in S |-> AskOf(made[n])]
    <3>1. IsFiniteSet(T)
      <4>1. T \subseteq Asks
        BY <2>3 DEF HourOf
      <4> QED
        BY <2>0, <4>1, FS_Subset DEF LimitInv, LoggedOK
    <3>2. \A n, m \in S : f[n] = f[m] => n = m
      BY <2>0, <2>3 DEF LimitInv, AsksDiffer, InHour
    <3>3. f \in [S -> T]
      BY <2>3
    <3>4. f \in Injection(S, T)
      BY <3>2, <3>3 DEF Injection, IsInjective
    <3>5. IsFiniteSet(S) /\ Cardinality(S) <= Cardinality(T)
      BY <3>1, <3>4, FS_Injection
    <3>6. Cardinality(S) \in Nat /\ Cardinality(T) \in Nat
      BY <3>1, <3>5, FS_CardinalityType
    <3> QED
      BY <2>3, <3>5, <3>6
  <2>4. ASSUME NEW t \in 0..now, NEW a
        PROVE  /\ Cardinality({m \in InHour(t) : made[m].address = a}) <= AddrPerHour
               /\ Cardinality({m \in InHour(t) : made[m].client = a}) <= ClientPerHour
    <3>1. \A n \in InHour(t) : AskOf(made[n]) \in HourOf(Asks, t)
      BY <2>1, AskOfFields DEF InHour, HourOf
    <3>2. \A n \in {m \in InHour(t) : made[m].address = a} : AskOf(made[n]) \in OfAddress(HourOf(Asks, t), a)
      BY <3>1, AskOfFields DEF OfAddress
    <3>3. \A n \in {m \in InHour(t) : made[m].client = a} : AskOf(made[n]) \in OfClient(HourOf(Asks, t), a)
      BY <3>1, AskOfFields DEF OfClient
    <3>4. /\ Cardinality(OfAddress(HourOf(Asks, t), a)) <= AddrPerHour
          /\ Cardinality(OfClient(HourOf(Asks, t), a)) <= ClientPerHour
      BY <2>0 DEF LimitInv, HoursOK
    <3>5. OfAddress(HourOf(Asks, t), a) \subseteq HourOf(Asks, t) /\ OfClient(HourOf(Asks, t), a) \subseteq HourOf(Asks, t)
      BY DEF OfAddress, OfClient
    <3>6. Cardinality({m \in InHour(t) : made[m].address = a}) <= AddrPerHour
      BY <2>3, <3>2, <3>4, <3>5, Numbers
    <3>7. Cardinality({m \in InHour(t) : made[m].client = a}) <= ClientPerHour
      BY <2>3, <3>3, <3>4, <3>5, Numbers
    <3> QED
      BY <3>6, <3>7
  <2> QED
    BY <2>2, <2>4 DEF CodesWithinLimits
<1> QED
  BY AskInvHolds, <1>1, PTL

(* The codes of an account that are made in an hour can be guessed at no   *)
(* more than AddrPerHour * MaxAttempts times: they went to one address.    *)
THEOREM GuessesStayBounded == Spec => []GuessesBounded
<1>1. AskInv /\ CodesWithinLimits => GuessesBounded
  <2> SUFFICES ASSUME AskInv, CodesWithinLimits, NEW t \in 0..now, NEW a \in AccountId
               PROVE  Cardinality(Guesses({n \in InHour(t) : made[n].account = a})) <= AddrPerHour * MaxAttempts
    BY DEF GuessesBounded
  <2> DEFINE C == {n \in InHour(t) : made[n].account = a}
  <2>0. PanelTypeOK /\ OwnersOK /\ CodesOK /\ a # NoAccount /\ AddrPerHour \in Nat /\ MaxAttempts \in Nat
    BY Numbers, SignInAssumption DEF AskInv, PanelInv, CodeInv
  <2>1. /\ C \subseteq DOMAIN made /\ IsFiniteSet(DOMAIN made)
    BY <2>0, MadeFields, FS_Interval DEF InHour
  <2>2. Cardinality(C) <= AddrPerHour
    <3>1. CASE C = {}
      BY <2>0, <3>1, FS_EmptySet
    <3>2. ASSUME NEW n \in C
          PROVE  Cardinality(C) <= AddrPerHour
      <4> DEFINE S == {m \in InHour(t) : made[m].address = made[n].address}
      <4>1. ASSUME NEW m \in C
            PROVE  made[m].address = made[n].address
        <5>1. OwnerOf(made[n]) \in Owned /\ OwnerOf(made[m]) \in Owned
          BY <2>1, <3>2, <4>1 DEF Owned
        <5>2. OwnerOf(made[n]).account = a /\ OwnerOf(made[m]).account = a
          BY <3>2, <4>1, OwnerOfFields
        <5> QED
          BY <2>0, <5>1, <5>2, OwnerOfFields DEF OwnersOK
      <4>2. C \subseteq S /\ S \subseteq DOMAIN made
        BY <4>1 DEF InHour
      <4>3. Cardinality(S) <= AddrPerHour
        BY <2>1, <3>2 DEF CodesWithinLimits
      <4> HIDE DEF S, C
      <4>4. IsFiniteSet(S) /\ IsFiniteSet(C)
        BY <2>1, <4>2, FS_Subset
      <4>5. Cardinality(C) <= Cardinality(S) /\ Cardinality(C) \in Nat /\ Cardinality(S) \in Nat
        BY <4>2, <4>4, FS_Subset, FS_CardinalityType
      <4> QED
        BY <2>0, <4>3, <4>5
    <3> HIDE DEF C
    <3> QED
      BY <3>1, <3>2
  <2>3. Guesses(C) \subseteq C \X (1..MaxAttempts)
    <3>1. \A n \in C : made[n].wrong \in Nat /\ made[n].wrong <= MaxAttempts
      BY <2>0, <2>1, MadeFields DEF CodesOK
    <3>2. \A n \in C : {n} \X (1..made[n].wrong) \subseteq C \X (1..MaxAttempts)
      <4> SUFFICES ASSUME NEW n \in C, NEW p \in {n} \X (1..made[n].wrong)
                   PROVE  p \in C \X (1..MaxAttempts)
        OBVIOUS
      <4>1. p[1] = n /\ p[2] \in 1..made[n].wrong /\ p = <<p[1], p[2]>>
        OBVIOUS
      <4>2. p[2] \in 1..MaxAttempts
        BY <2>0, <3>1, <4>1
      <4> QED
        BY <4>1, <4>2
    <3> HIDE DEF C
    <3> QED
      BY <3>2 DEF Guesses
  <2>4. IsFiniteSet(C) /\ IsFiniteSet(1..MaxAttempts) /\ Cardinality(1..MaxAttempts) = MaxAttempts
    BY <2>0, <2>1, FS_Subset, FS_Interval
  <2> HIDE DEF C
  <2>5. /\ IsFiniteSet(C \X (1..MaxAttempts))
        /\ Cardinality(C \X (1..MaxAttempts)) = Cardinality(C) * MaxAttempts
    BY <2>4, FS_Product
  <2>6. /\ Cardinality(Guesses(C)) <= Cardinality(C) * MaxAttempts
        /\ IsFiniteSet(Guesses(C)) /\ Cardinality(Guesses(C)) \in Nat /\ Cardinality(C) \in Nat
    BY <2>3, <2>4, <2>5, FS_Subset, FS_CardinalityType
  <2>7. \A c, p, k \in Nat : c <= p => c * k <= p * k
    OBVIOUS
  <2>8. Cardinality(C) * MaxAttempts <= AddrPerHour * MaxAttempts
    BY <2>0, <2>2, <2>6, <2>7
  <2> QED
    BY <2>0, <2>6, <2>8 DEF C
<1> QED
  BY AskInvHolds, CodesStayWithinLimits, <1>1, PTL
=============================================================================
