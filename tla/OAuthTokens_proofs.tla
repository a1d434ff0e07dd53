-------------------------- MODULE OAuthTokens_proofs --------------------------
(***************************************************************************)
(* Proofs about OAuthTokens, for any number of clients, accounts, requests *)
(* and handlers and every bound.                                           *)
(***************************************************************************)
EXTENDS OAuthTokens, FiniteSetTheorems, TLAPS

-----------------------------------------------------------------------------
(* Functions and sequences.                                                 *)

(* A map with one more entry has that entry and those it had.              *)
LEMMA WithRange ==
  ASSUME NEW f, NEW k, NEW v
  PROVE  /\ DOMAIN With(f, k, v) = DOMAIN f \cup {k}
         /\ Range(With(f, k, v)) \subseteq Range(f) \cup {v}
BY DEF With, Range

(* A map with an entry removed has only those it had.                      *)
LEMMA WithoutRange ==
  ASSUME NEW f, NEW k
  PROVE  /\ DOMAIN Without(f, k) = DOMAIN f \ {k}
         /\ Range(Without(f, k)) \subseteq Range(f)
BY DEF Without, Range, Restrict

(* An empty map has no entries.                                            *)
LEMMA EmptyRange ==
  ASSUME NEW f, DOMAIN f = {}
  PROVE  Range(f) = {}
BY DEF Range

(* Append adds one entry, at a place that was not there.                   *)
LEMMA AppendEntry ==
  ASSUME NEW S, NEW q \in Seq(S), NEW x \in S
  PROVE  /\ Append(q, x) \in Seq(S)
         /\ DOMAIN Append(q, x) = DOMAIN q \cup {Len(q) + 1}
         /\ Append(q, x)[Len(q) + 1] = x
         /\ \A i \in DOMAIN q : Append(q, x)[i] = q[i]
         /\ Len(q) + 1 \in Nat /\ Len(q) + 1 \notin DOMAIN q /\ DOMAIN q \subseteq Nat
OBVIOUS

-----------------------------------------------------------------------------
(* Tasks and saves.                                                         *)

(* The bounds are numbers.                                                 *)
LEMMA BoundsAreNumbers ==
  /\ MaxSignIns \in Nat /\ MaxGrants \in Nat
  /\ MaxSaveErrors \in Nat /\ MaxActs \in Nat /\ MaxCrashes \in Nat
BY TokenBoundAssumption

(* What a task in progress carries.                                        *)
LEMMA TaskFields ==
  ASSUME NEW t \in Task
  PROVE  /\ t.pc = "issue" => t.grant \in Grant /\ t.rotated \in Nat
         /\ t.pc = "grant" => t.request \in Request /\ t.client \in Client /\ t.account \in AccountId
         /\ NoTask \in Task /\ NoTask.pc = "idle"
BY DEF Task, NoTask

(* A save keeps what is in memory by then, or nothing and says so.         *)
LEMMA SaveCases ==
  ASSUME TokenTypeOK, Save,
         clients' \in SUBSET Client, refresh' \in SUBSET Nat, access' \in SUBSET Nat
  PROVE  /\ saved' \in Section /\ dirty' \in BOOLEAN /\ saveErrors' \in 0..MaxSaveErrors
         /\ \/ /\ saved'.clients = clients' /\ saved'.refresh = refresh' /\ saved'.access = access'
               /\ ~dirty'
            \/ saved' = saved /\ dirty'
<1>0. saved \in Section /\ saveErrors \in 0..MaxSaveErrors /\ MaxSaveErrors \in Nat
  BY BoundsAreNumbers DEF TokenTypeOK
<1>1. CASE /\ saved' = [clients |-> clients', refresh |-> refresh', access |-> access']
           /\ dirty' = FALSE /\ UNCHANGED saveErrors
  BY <1>0, <1>1 DEF Section
<1>2. CASE /\ saveErrors < MaxSaveErrors /\ saveErrors' = saveErrors + 1
           /\ dirty' = TRUE /\ UNCHANGED saved
  BY <1>0, <1>2
<1> QED
  BY <1>1, <1>2 DEF Save

-----------------------------------------------------------------------------
(* Types.                                                                   *)

(* The initial state is well typed.                                        *)
LEMMA TypeInit == Init => TokenTypeOK
<1> SUFFICES ASSUME Init PROVE TokenTypeOK
  OBVIOUS
<1>1. Range(pend) = {} /\ Range(mailed) = {} /\ DOMAIN pend = {} /\ DOMAIN mailed = {}
  BY EmptyRange DEF Init
<1>2. NoTask \in Task /\ NoActs \in Panel
  BY DEF Task, Panel
<1>3. saved \in Section /\ saved.refresh = {} /\ saved.access = {}
  BY DEF Init, Section
<1>4. saveErrors \in 0..MaxSaveErrors /\ acts \in 0..MaxActs /\ crashes \in 0..MaxCrashes
  BY BoundsAreNumbers DEF Init
<1>5. signIns \in Seq(SignIn) /\ grants \in Seq(Grant) /\ issued \in Seq(Nat)
  BY DEF Init
<1>6. task \in [Handler -> Task] /\ panel \in Panel
  BY <1>2 DEF Init
<1> QED
  BY <1>1, <1>3, <1>4, <1>5, <1>6 DEF Init, TokenTypeOK

(* The clients' registrations and the sign-in keep the types.              *)
LEMMA TypeSignIn ==
  ASSUME TokenTypeOK,
         \/ \E c \in Client : Registers(c) \/ AsksSignIn(c)
         \/ \E q \in Request : PostsEmail(q)
         \/ \E h \in Handler, q \in Request : PostsCode(h, q)
         \/ \E h \in Handler : GrantsCode(h)
  PROVE  TokenTypeOK'
<1>0. /\ DOMAIN grants \subseteq Nat /\ DOMAIN signIns \subseteq Nat
      /\ refresh \in SUBSET Nat /\ access \in SUBSET Nat
  BY DEF TokenTypeOK
<1>1. ASSUME NEW c \in Client, Registers(c)
      PROVE  TokenTypeOK'
  <2>1. /\ clients' = clients \cup {c} /\ clients' \in SUBSET Client
        /\ refresh' = refresh /\ access' = access
    BY <1>1 DEF Registers, TokenTypeOK
  <2>2. /\ saved' \in Section /\ dirty' \in BOOLEAN /\ saveErrors' \in 0..MaxSaveErrors
        /\ saved'.refresh \subseteq DOMAIN grants /\ saved'.access \subseteq DOMAIN grants
    BY <1>0, <1>1, <2>1, SaveCases DEF Registers, TokenTypeOK
  <2> QED
    BY <1>1, <2>1, <2>2 DEF Registers, TokenTypeOK, pastVars, taskVars
<1>2. ASSUME NEW c \in Client, AsksSignIn(c)
      PROVE  TokenTypeOK'
  <2> PICK p \in Request \ asked : asked' = asked \cup {p} /\ pend' = With(pend, p, c)
    BY <1>2 DEF AsksSignIn
  <2>1. DOMAIN With(pend, p, c) = DOMAIN pend \cup {p} /\ Range(With(pend, p, c)) \subseteq Range(pend) \cup {c}
    BY WithRange
  <2>2. DOMAIN pend' \subseteq asked' /\ Range(pend') \subseteq clients
    BY <1>2, <2>1 DEF AsksSignIn, TokenTypeOK
  <2> QED
    BY <1>2, <2>2 DEF AsksSignIn, TokenTypeOK, boundVars, taskVars
<1>3. ASSUME NEW q \in Request, PostsEmail(q)
      PROVE  TokenTypeOK'
  <2>1. DOMAIN mailed' \subseteq DOMAIN mailed \cup {q} /\ Range(mailed') \subseteq AccountId
    <3>1. CASE mailed' = Without(mailed, q)
      <4>1. DOMAIN Without(mailed, q) = DOMAIN mailed \ {q} /\ Range(Without(mailed, q)) \subseteq Range(mailed)
        BY WithoutRange
      <4> QED
        BY <3>1, <4>1 DEF TokenTypeOK
    <3>2. ASSUME NEW a \in AccountId, mailed' = With(mailed, q, a)
          PROVE  DOMAIN mailed' \subseteq DOMAIN mailed \cup {q} /\ Range(mailed') \subseteq AccountId
      <4>1. DOMAIN With(mailed, q, a) = DOMAIN mailed \cup {q} /\ Range(With(mailed, q, a)) \subseteq Range(mailed) \cup {a}
        BY WithRange
      <4> QED
        BY <3>2, <4>1 DEF TokenTypeOK
    <3> QED
      BY <1>3, <3>1, <3>2 DEF PostsEmail
  <2>2. DOMAIN mailed' \subseteq asked
    BY <1>3, <2>1 DEF PostsEmail, TokenTypeOK
  <2> QED
    BY <1>3, <2>1, <2>2 DEF PostsEmail, TokenTypeOK, boundVars, taskVars, pastVars
<1>4. ASSUME NEW h \in Handler, NEW q \in Request, PostsCode(h, q)
      PROVE  TokenTypeOK'
  <2>0. DOMAIN Without(mailed, q) = DOMAIN mailed \ {q} /\ Range(Without(mailed, q)) \subseteq Range(mailed)
    BY WithoutRange
  <2>1. DOMAIN mailed' \subseteq asked /\ Range(mailed') \subseteq AccountId
    BY <1>4, <2>0 DEF PostsCode, TokenTypeOK
  <2>2. pend[q] \in Client /\ mailed[q] \in AccountId
    BY <1>4 DEF PostsCode, TokenTypeOK, Range
  <2>3. [pc |-> "grant", request |-> q, client |-> pend[q], account |-> mailed[q]] \in Task
    BY <2>2 DEF Task
  <2>4. task' \in [Handler -> Task]
    BY <1>4, <2>3 DEF PostsCode, TokenTypeOK
  <2> QED
    BY <1>4, <2>1, <2>4 DEF PostsCode, TokenTypeOK, boundVars, pastVars
<1>5. ASSUME NEW h \in Handler, GrantsCode(h)
      PROVE  TokenTypeOK'
  <2> DEFINE q == task[h].request
  <2>0. DOMAIN Without(pend, q) = DOMAIN pend \ {q} /\ Range(Without(pend, q)) \subseteq Range(pend)
    BY WithoutRange
  <2>1. DOMAIN pend' \subseteq asked /\ Range(pend') \subseteq clients
    BY <1>5, <2>0 DEF GrantsCode, TokenTypeOK
  <2>2. [request |-> task[h].request, client |-> task[h].client, account |-> task[h].account] \in SignIn
    BY <1>5, TaskFields DEF GrantsCode, TokenTypeOK, SignIn
  <2>3. signIns' \in Seq(SignIn) /\ DOMAIN signIns' = DOMAIN signIns \cup {Len(signIns) + 1}
    BY <1>5, <2>2, AppendEntry DEF GrantsCode, TokenTypeOK
  <2>4. task' \in [Handler -> Task]
    BY <1>5 DEF GrantsCode, TokenTypeOK, Task
  <2> QED
    BY <1>5, <2>1, <2>3, <2>4 DEF GrantsCode, TokenTypeOK, boundVars
<1> QED
  BY <1>1, <1>2, <1>3, <1>4, <1>5

(* Exchanges keep the types.                                               *)
LEMMA TypeExchange ==
  ASSUME TokenTypeOK, NEW h \in Handler,
         \/ \E c \in Client, s \in codes, verified \in BOOLEAN : TakesCode(h, c, s, verified)
         \/ \E c \in Client, g \in refresh : Rotates(h, c, g)
         \/ Issues(h)
  PROVE  TokenTypeOK'
<1>0. DOMAIN grants \subseteq Nat /\ DOMAIN signIns \subseteq Nat
  BY DEF TokenTypeOK
<1>1. ASSUME NEW c \in Client, NEW s \in codes, NEW verified \in BOOLEAN, TakesCode(h, c, s, verified)
      PROVE  TokenTypeOK'
  <2>1. signIns[s] \in SignIn /\ s \in Nat
    BY <1>0 DEF TokenTypeOK
  <2>2. [pc |-> "issue", rotated |-> NoToken,
         grant |-> [client |-> c, account |-> signIns[s].account, signIn |-> s]] \in Task
    BY <2>1 DEF Task, Grant, SignIn, NoToken
  <2>3. task' \in [Handler -> Task]
    BY <1>1, <2>2 DEF TakesCode, TokenTypeOK
  <2> QED
    BY <1>1, <2>3 DEF TakesCode, TokenTypeOK, boundVars, pastVars
<1>2. ASSUME NEW c \in Client, NEW g \in refresh, Rotates(h, c, g)
      PROVE  TokenTypeOK'
  <2>1. grants[g] \in Grant /\ g \in Nat
    BY <1>0 DEF TokenTypeOK
  <2>2. [pc |-> "issue", rotated |-> g, grant |-> grants[g]] \in Task
    BY <2>1 DEF Task
  <2>3. task' \in [Handler -> Task]
    BY <1>2, <2>2 DEF Rotates, TokenTypeOK
  <2> QED
    BY <1>2, <2>3 DEF Rotates, TokenTypeOK, boundVars, pastVars
<1>3. CASE Issues(h)
  <2> DEFINE g == Len(grants) + 1
  <2>1. task[h].grant \in Grant /\ task[h].grant.account \in AccountId
    BY <1>3, TaskFields DEF Issues, TokenTypeOK, Grant
  <2>2. grants' \in Seq(Grant) /\ DOMAIN grants' = DOMAIN grants \cup {g} /\ g \in Nat
    BY <1>3, <2>1, AppendEntry DEF Issues, TokenTypeOK
  <2>3. issued' \in Seq(Nat)
    BY <1>3, <2>1, AppendEntry DEF Issues, TokenTypeOK
  <2>4. /\ refresh' \in SUBSET DOMAIN grants' /\ access' \in SUBSET DOMAIN grants'
        /\ refresh' \in SUBSET Nat /\ access' \in SUBSET Nat
    BY <1>0, <1>3, <2>2 DEF Issues, TokenTypeOK
  <2>5. clients' \in SUBSET Client /\ clients' = clients
    BY <1>3 DEF Issues, TokenTypeOK
  <2>6. /\ saved' \in Section /\ dirty' \in BOOLEAN /\ saveErrors' \in 0..MaxSaveErrors
        /\ saved'.refresh \subseteq DOMAIN grants' /\ saved'.access \subseteq DOMAIN grants'
    BY <1>3, <2>2, <2>4, <2>5, SaveCases DEF Issues, TokenTypeOK
  <2>7. task' \in [Handler -> Task]
    BY <1>3 DEF Issues, TokenTypeOK, Task
  <2> QED
    BY <1>3, <2>2, <2>3, <2>4, <2>5, <2>6, <2>7 DEF Issues, TokenTypeOK
<1> QED
  BY <1>1, <1>2, <1>3

(* So does the passing of time.                                            *)
LEMMA TypeExpires ==
  ASSUME TokenTypeOK, Expires
  PROVE  TokenTypeOK'
<1>1. ASSUME NEW g \in DOMAIN grants, AccessExpires(g) \/ RefreshExpires(g)
      PROVE  TokenTypeOK'
  <2>1. /\ saved' \in Section /\ saved'.refresh \subseteq saved.refresh
        /\ saved'.access \subseteq saved.access
    <3>0. saved \in Section /\ saved.access \ {g} \in SUBSET Nat /\ saved.refresh \ {g} \in SUBSET Nat
      BY DEF TokenTypeOK, Section
    <3>1. CASE AccessExpires(g)
      BY <3>0, <3>1 DEF AccessExpires, Section
    <3>2. CASE RefreshExpires(g)
      BY <3>0, <3>2 DEF RefreshExpires, Section
    <3> QED
      BY <1>1, <3>1, <3>2
  <2>2. refresh' \subseteq refresh /\ access' \subseteq access
    BY <1>1 DEF AccessExpires, RefreshExpires
  <2> QED
    BY <1>1, <2>1, <2>2 DEF AccessExpires, RefreshExpires, TokenTypeOK, taskVars, pastVars, boundVars
<1>2. ASSUME NEW s \in codes, CodeExpires(s)
      PROVE  TokenTypeOK'
  BY <1>2 DEF CodeExpires, TokenTypeOK, taskVars, pastVars, boundVars
<1>3. ASSUME NEW q \in DOMAIN pend, RequestExpires(q)
      PROVE  TokenTypeOK'
  <2>1. /\ DOMAIN pend' \subseteq DOMAIN pend /\ Range(pend') \subseteq Range(pend)
        /\ DOMAIN mailed' \subseteq DOMAIN mailed /\ Range(mailed') \subseteq Range(mailed)
    BY <1>3, WithoutRange DEF RequestExpires
  <2> QED
    BY <1>3, <2>1 DEF RequestExpires, TokenTypeOK, taskVars, pastVars, boundVars
<1> QED
  BY <1>1, <1>2, <1>3 DEF Expires

(* So do the administrator ...                                             *)
LEMMA TypePanel ==
  ASSUME TokenTypeOK, PanelStep
  PROVE  TokenTypeOK'
<1>1. ASSUME NEW a \in AccountId, Disables(a) \/ Enables(a) \/ DeletesAccount(a) \/ AsksSignOut(a)
      PROVE  TokenTypeOK'
  <2>0. [pc |-> "revoke", account |-> a] \in Panel
    BY DEF Panel
  <2>1. status' \in [AccountId -> {"active", "disabled", "gone"}] /\ panel' \in Panel
    <3>1. CASE Disables(a)
      BY <2>0, <3>1 DEF Disables, TokenTypeOK
    <3>2. CASE Enables(a)
      BY <3>2 DEF Enables, TokenTypeOK
    <3>3. CASE DeletesAccount(a)
      BY <2>0, <3>3 DEF DeletesAccount, TokenTypeOK
    <3>4. CASE AsksSignOut(a)
      BY <2>0, <3>4 DEF AsksSignOut, TokenTypeOK
    <3> QED
      BY <1>1, <3>1, <3>2, <3>3, <3>4
  <2>2. Acts
    BY <1>1 DEF Disables, Enables, DeletesAccount, AsksSignOut
  <2>3. acts' \in 0..MaxActs
    BY <2>2, BoundsAreNumbers DEF Acts, TokenTypeOK
  <2> QED
    BY <2>1, <2>2, <2>3 DEF Acts, TokenTypeOK, memVars, pastVars
<1>2. CASE RevokesAccount
  <2>1. panel.account \in AccountId /\ NoActs \in Panel
    BY <1>2 DEF RevokesAccount, TokenTypeOK, Panel, NoActs
  <2>2. /\ refresh' \subseteq refresh /\ access' \subseteq access /\ clients' = clients
        /\ refresh' \in SUBSET Nat /\ access' \in SUBSET Nat
    BY <1>2 DEF RevokesAccount, TokenTypeOK
  <2>3. /\ saved' \in Section /\ dirty' \in BOOLEAN /\ saveErrors' \in 0..MaxSaveErrors
        /\ saved'.refresh \subseteq DOMAIN grants /\ saved'.access \subseteq DOMAIN grants
    BY <1>2, <2>2, SaveCases DEF RevokesAccount, TokenTypeOK
  <2>4. epoch' \in [AccountId -> Nat]
    BY <1>2, <2>1 DEF RevokesAccount, TokenTypeOK
  <2> QED
    BY <1>2, <2>1, <2>2, <2>3, <2>4 DEF RevokesAccount, TokenTypeOK
<1> QED
  BY <1>1, <1>2 DEF PanelStep

(* ... and a crash.                                                        *)
LEMMA TypeCrash ==
  ASSUME TokenTypeOK, Crashes
  PROVE  TokenTypeOK'
<1>1. /\ DOMAIN pend' = {} /\ Range(pend') = {} /\ DOMAIN mailed' = {} /\ Range(mailed') = {}
  BY EmptyRange DEF Crashes
<1>2. task' \in [Handler -> Task] /\ panel' \in Panel
  BY DEF Crashes, Task, Panel
<1>3. crashes' \in 0..MaxCrashes
  BY BoundsAreNumbers DEF Crashes, TokenTypeOK
<1>4. clients' \in SUBSET Client
  BY DEF Crashes, TokenTypeOK, Section
<1> QED
  BY <1>1, <1>2, <1>3, <1>4 DEF Crashes, TokenTypeOK, pastVars

(* Every step keeps the types.                                             *)
LEMMA TypeStep == TokenTypeOK /\ [Next]_vars => TokenTypeOK'
<1> SUFFICES ASSUME TokenTypeOK, [Next]_vars PROVE TokenTypeOK'
  OBVIOUS
<1>1. CASE (\E c \in Client : Registers(c) \/ AsksSignIn(c)) \/ \E q \in Request : PostsEmail(q)
  BY <1>1, TypeSignIn
<1>2. ASSUME NEW h \in Handler, ClientStep(h)
      PROVE  TokenTypeOK'
  <2>1. CASE (\E q \in Request : PostsCode(h, q)) \/ GrantsCode(h)
    BY <2>1, TypeSignIn
  <2>2. CASE \/ \E c \in Client, s \in codes, verified \in BOOLEAN : TakesCode(h, c, s, verified)
             \/ \E c \in Client, g \in refresh : Rotates(h, c, g)
             \/ Issues(h)
    BY <2>2, TypeExchange
  <2> QED
    BY <1>2, <2>1, <2>2 DEF ClientStep
<1>3. CASE UNCHANGED vars
  BY <1>3 DEF vars, memVars, taskVars, pastVars, boundVars, TokenTypeOK
<1> QED
  BY <1>1, <1>2, <1>3, TypeExpires, TypePanel, TypeCrash DEF Next

-----------------------------------------------------------------------------
(* The invariant.                                                           *)

\* A grant goes back to a sign-in, and is for its client and its account.
Bound(grant) ==
  /\ grant.signIn \in DOMAIN signIns
  /\ grant.client = signIns[grant.signIn].client /\ grant.account = signIns[grant.signIn].account

GrantsBound == \A g \in DOMAIN grants : Bound(grants[g])
TasksBound  == \A h \in Handler : task[h].pc = "issue" => Bound(task[h].grant)

\* No two of these pairs go back to one sign-in.
OneEach(pairs) == \A f, g \in pairs : grants[f].signIn = grants[g].signIn => f = g

\* OneSession without counting, and for what a restart would bring back.
OnePair     == OneEach(refresh) /\ OneEach(saved.refresh)
OneExchange ==
  \A h, k \in Handler :
    task[h].pc = "issue" /\ task[k].pc = "issue" /\ task[h].grant.signIn = task[k].grant.signIn => h = k
TakenOut    ==
  \A h \in Handler, g \in refresh : task[h].pc = "issue" => grants[g].signIn # task[h].grant.signIn
UnusedCode  ==
  \A s \in codes :
    /\ \A g \in refresh : grants[g].signIn # s
    /\ \A h \in Handler : task[h].pc = "issue" => task[h].grant.signIn # s

Inv ==
  /\ TokenTypeOK /\ AccessNeedsRefresh /\ GrantsBound /\ TasksBound
  /\ OnePair /\ OneExchange /\ TakenOut /\ UnusedCode /\ CrashKeepsSessions

(* The initial state satisfies it.                                         *)
LEMMA InvInit == Init => Inv
<1> SUFFICES ASSUME Init PROVE Inv
  OBVIOUS
<1>1. /\ refresh = {} /\ access = {} /\ clients = {} /\ codes = {} /\ DOMAIN grants = {}
      /\ saved.refresh = {} /\ saved.access = {} /\ saved.clients = {}
      /\ \A h \in Handler : task[h].pc = "idle"
  BY DEF Init, NoTask
<1> QED
  BY <1>1, TypeInit DEF Inv, AccessNeedsRefresh, GrantsBound, TasksBound, OnePair, OneEach, OneExchange,
    TakenOut, UnusedCode, CrashKeepsSessions

-----------------------------------------------------------------------------
(* What a step does to the pairs and the exchanges.                         *)

SameExchanges ==
  \A h \in Handler : /\ task'[h].pc = "issue" <=> task[h].pc = "issue"
                     /\ task[h].pc = "issue" => task'[h] = task[h]

\* Nothing new is handed out, something may go.
Shrinks ==
  /\ UNCHANGED <<signIns, grants>> /\ SameExchanges
  /\ codes' \subseteq codes /\ refresh' \subseteq refresh
  /\ saved'.refresh \subseteq refresh' \/ saved'.refresh \subseteq saved.refresh

\* A code is taken for its own client.
Takes(h, s) ==
  /\ UNCHANGED <<signIns, grants, refresh, saved>>
  /\ task[h] = NoTask /\ s \in codes /\ codes' = codes \ {s}
  /\ task' = [task EXCEPT ![h] = [pc |-> "issue", rotated |-> NoToken,
                 grant |-> [client |-> signIns[s].client, account |-> signIns[s].account, signIn |-> s]]]

(* Every step shrinks, or hands out, takes or issues something, or is a    *)
(* crash.                                                                  *)
LEMMA TokenStep ==
  ASSUME TokenTypeOK, [Next]_vars
  PROVE  \/ Shrinks
         \/ \E h \in Handler : GrantsCode(h)
         \/ \E h \in Handler, s \in codes : Takes(h, s)
         \/ \E h \in Handler, c \in Client, g \in refresh : Rotates(h, c, g)
         \/ \E h \in Handler : Issues(h)
         \/ Crashes
<1>0. /\ refresh \in SUBSET Nat /\ access \in SUBSET Nat /\ clients \in SUBSET Client
      /\ task \in [Handler -> Task]
  BY DEF TokenTypeOK
<1>1. ASSUME NEW c \in Client, Registers(c)
      PROVE  Shrinks
  <2>1. saved'.refresh = refresh' \/ saved' = saved
    BY <1>0, <1>1, SaveCases DEF Registers
  <2> QED
    BY <1>1, <2>1 DEF Registers, Shrinks, SameExchanges, pastVars, taskVars
<1>2. ASSUME NEW c \in Client, AsksSignIn(c)
      PROVE  Shrinks
  BY <1>2 DEF AsksSignIn, Shrinks, SameExchanges, taskVars
<1>3. ASSUME NEW q \in Request, PostsEmail(q)
      PROVE  Shrinks
  BY <1>3 DEF PostsEmail, Shrinks, SameExchanges, pastVars, taskVars
<1>4. ASSUME NEW h \in Handler, NEW q \in Request, PostsCode(h, q)
      PROVE  Shrinks
  <2>1. SameExchanges
    BY <1>0, <1>4 DEF PostsCode, SameExchanges, NoTask
  <2> QED
    BY <1>4, <2>1 DEF PostsCode, Shrinks, pastVars
<1>5. ASSUME NEW h \in Handler, NEW c \in Client, NEW s \in codes, NEW verified \in BOOLEAN,
             TakesCode(h, c, s, verified)
      PROVE  Shrinks \/ Takes(h, s)
  <2>1. CASE signIns[s].client = c /\ verified
    BY <1>5, <2>1 DEF TakesCode, Takes, pastVars
  <2>2. CASE ~(signIns[s].client = c /\ verified)
    BY <1>5, <2>2 DEF TakesCode, Shrinks, SameExchanges, pastVars
  <2> QED
    BY <2>1, <2>2
<1>6. CASE Expires
  <2>1. ASSUME NEW g \in DOMAIN grants, AccessExpires(g) \/ RefreshExpires(g)
        PROVE  Shrinks
    <3>0. saved \in Section
      BY DEF TokenTypeOK
    <3>1. CASE AccessExpires(g)
      BY <3>0, <3>1 DEF AccessExpires, Shrinks, SameExchanges, taskVars, pastVars, Section
    <3>2. CASE RefreshExpires(g)
      BY <3>0, <3>2 DEF RefreshExpires, Shrinks, SameExchanges, taskVars, pastVars, Section
    <3> QED
      BY <2>1, <3>1, <3>2
  <2>2. ASSUME NEW s \in codes, CodeExpires(s)
        PROVE  Shrinks
    BY <2>2 DEF CodeExpires, Shrinks, SameExchanges, taskVars, pastVars
  <2>3. ASSUME NEW q \in DOMAIN pend, RequestExpires(q)
        PROVE  Shrinks
    BY <2>3 DEF RequestExpires, Shrinks, SameExchanges, taskVars, pastVars
  <2> QED
    BY <1>6, <2>1, <2>2, <2>3 DEF Expires
<1>7. CASE PanelStep
  <2>1. ASSUME NEW a \in AccountId, Disables(a) \/ Enables(a) \/ DeletesAccount(a) \/ AsksSignOut(a)
        PROVE  Shrinks
    <3>1. Acts
      BY <2>1 DEF Disables, Enables, DeletesAccount, AsksSignOut
    <3> QED
      BY <3>1 DEF Acts, Shrinks, SameExchanges, memVars, pastVars
  <2>2. CASE RevokesAccount
    <3>1. saved'.refresh = refresh' \/ saved' = saved
      BY <1>0, <2>2, SaveCases DEF RevokesAccount
    <3> QED
      BY <2>2, <3>1 DEF RevokesAccount, Shrinks, SameExchanges
  <2> QED
    BY <1>7, <2>1, <2>2 DEF PanelStep
<1>8. CASE UNCHANGED vars
  BY <1>8 DEF vars, memVars, taskVars, pastVars, Shrinks, SameExchanges
<1>9. ASSUME NEW h \in Handler, ClientStep(h)
      PROVE  \/ Shrinks
             \/ GrantsCode(h)
             \/ \E s \in codes : Takes(h, s)
             \/ \E c \in Client, g \in refresh : Rotates(h, c, g)
             \/ Issues(h)
  BY <1>4, <1>5, <1>9 DEF ClientStep
<1> QED
  BY <1>1, <1>2, <1>3, <1>6, <1>7, <1>8, <1>9 DEF Next

-----------------------------------------------------------------------------
(* The parts of the invariant, by what a step does.                         *)

(* Everything handed out stays bound to its sign-in.                       *)
LEMMA BoundStep ==
  ASSUME Inv, [Next]_vars
  PROVE  GrantsBound' /\ TasksBound'
<1>0. /\ TokenTypeOK /\ task \in [Handler -> Task] /\ refresh \subseteq DOMAIN grants
      /\ signIns \in Seq(SignIn) /\ grants \in Seq(Grant) /\ codes \subseteq DOMAIN signIns
  BY DEF Inv, TokenTypeOK
<1>1. CASE Shrinks
  BY <1>1 DEF Inv, GrantsBound, TasksBound, Bound, Shrinks, SameExchanges
<1>2. ASSUME NEW h \in Handler, GrantsCode(h)
      PROVE  GrantsBound' /\ TasksBound'
  <2>1. [request |-> task[h].request, client |-> task[h].client, account |-> task[h].account] \in SignIn
    BY <1>0, <1>2, TaskFields DEF GrantsCode, SignIn
  <2>2. DOMAIN signIns \subseteq DOMAIN signIns' /\ \A i \in DOMAIN signIns : signIns'[i] = signIns[i]
    BY <1>0, <1>2, <2>1, AppendEntry DEF GrantsCode
  <2>3. grants' = grants /\ \A k \in Handler : task'[k].pc = "issue" => task'[k] = task[k]
    BY <1>0, <1>2 DEF GrantsCode, NoTask
  <2> QED
    BY <2>2, <2>3 DEF Inv, GrantsBound, TasksBound, Bound
<1>3. ASSUME NEW h \in Handler, NEW s \in codes, Takes(h, s)
      PROVE  GrantsBound' /\ TasksBound'
  BY <1>0, <1>3 DEF Takes, Inv, GrantsBound, TasksBound, Bound
<1>4. ASSUME NEW h \in Handler, NEW c \in Client, NEW g \in refresh, Rotates(h, c, g)
      PROVE  GrantsBound' /\ TasksBound'
  BY <1>0, <1>4 DEF Rotates, pastVars, Inv, GrantsBound, TasksBound, Bound
<1>5. ASSUME NEW h \in Handler, Issues(h)
      PROVE  GrantsBound' /\ TasksBound'
  <2>1. task[h].grant \in Grant /\ Bound(task[h].grant)
    BY <1>0, <1>5, TaskFields DEF Issues, Inv, TasksBound
  <2>2. /\ DOMAIN grants' = DOMAIN grants \cup {Len(grants) + 1}
        /\ grants'[Len(grants) + 1] = task[h].grant
        /\ \A g \in DOMAIN grants : grants'[g] = grants[g]
    BY <1>0, <1>5, <2>1, AppendEntry DEF Issues
  <2>3. signIns' = signIns /\ \A k \in Handler : task'[k].pc = "issue" => task'[k] = task[k]
    BY <1>0, <1>5 DEF Issues, NoTask
  <2> QED
    BY <2>1, <2>2, <2>3 DEF Inv, GrantsBound, TasksBound, Bound
<1>6. CASE Crashes
  BY <1>6 DEF Crashes, NoTask, pastVars, Inv, GrantsBound, TasksBound, Bound
<1> QED
  BY <1>0, <1>1, <1>2, <1>3, <1>4, <1>5, <1>6, TokenStep

(* No sign-in is worth two of anything.                                    *)
LEMMA SessionStep ==
  ASSUME Inv, [Next]_vars
  PROVE  (OnePair /\ OneExchange /\ TakenOut /\ UnusedCode)'
<1>0. /\ TokenTypeOK /\ task \in [Handler -> Task] /\ refresh \subseteq DOMAIN grants
      /\ saved.refresh \subseteq DOMAIN grants
      /\ signIns \in Seq(SignIn) /\ grants \in Seq(Grant) /\ codes \subseteq DOMAIN signIns
      /\ OnePair /\ OneExchange /\ TakenOut /\ UnusedCode
  BY DEF Inv, TokenTypeOK
<1>1. CASE Shrinks
  <2>1. OnePair'
    BY <1>0, <1>1 DEF Shrinks, OnePair, OneEach
  <2>2. OneExchange' /\ TakenOut' /\ UnusedCode'
    BY <1>0, <1>1 DEF Shrinks, SameExchanges, OneExchange, TakenOut, UnusedCode
  <2> QED
    BY <2>1, <2>2
<1>2. ASSUME NEW h \in Handler, GrantsCode(h)
      PROVE  (OnePair /\ OneExchange /\ TakenOut /\ UnusedCode)'
  <2>1. /\ UNCHANGED <<grants, refresh, saved>> /\ codes' = codes \cup {Len(signIns) + 1}
        /\ \A k \in Handler : task'[k].pc = "issue" => task'[k] = task[k]
    BY <1>0, <1>2 DEF GrantsCode, NoTask
  <2>2. Len(signIns) + 1 \notin DOMAIN signIns
    BY <1>0
  <2>3. /\ \A g \in refresh : grants[g].signIn \in DOMAIN signIns
        /\ \A k \in Handler : task[k].pc = "issue" => task[k].grant.signIn \in DOMAIN signIns
    BY <1>0 DEF Inv, GrantsBound, TasksBound, Bound
  <2>4. UnusedCode'
    BY <1>0, <2>1, <2>2, <2>3 DEF UnusedCode
  <2> QED
    BY <1>0, <2>1, <2>4 DEF OnePair, OneEach, OneExchange, TakenOut
<1>3. ASSUME NEW h \in Handler, NEW s \in codes, Takes(h, s)
      PROVE  (OnePair /\ OneExchange /\ TakenOut /\ UnusedCode)'
  <2>1. /\ UNCHANGED <<grants, refresh, saved>> /\ codes' = codes \ {s}
        /\ task'[h].pc = "issue" /\ task'[h].grant.signIn = s
        /\ \A k \in Handler \ {h} : task'[k] = task[k]
    BY <1>0, <1>3 DEF Takes
  <2> QED
    BY <1>0, <2>1 DEF OnePair, OneEach, OneExchange, TakenOut, UnusedCode
<1>4. ASSUME NEW h \in Handler, NEW c \in Client, NEW g \in refresh, Rotates(h, c, g)
      PROVE  (OnePair /\ OneExchange /\ TakenOut /\ UnusedCode)'
  <2>1. /\ UNCHANGED <<grants, codes, saved>> /\ refresh' = refresh \ {g}
        /\ task'[h].pc = "issue" /\ task'[h].grant = grants[g]
        /\ \A k \in Handler \ {h} : task'[k] = task[k]
    BY <1>0, <1>4 DEF Rotates, pastVars
  <2>2. OnePair' /\ OneExchange'
    BY <1>0, <2>1 DEF OnePair, OneEach, OneExchange, TakenOut
  <2>3. TakenOut'
    BY <1>0, <2>1 DEF OnePair, OneEach, TakenOut
  <2>4. UnusedCode'
    BY <1>0, <2>1 DEF UnusedCode
  <2> QED
    BY <2>2, <2>3, <2>4
<1>5. ASSUME NEW h \in Handler, Issues(h)
      PROVE  (OnePair /\ OneExchange /\ TakenOut /\ UnusedCode)'
  <2> DEFINE n == Len(grants) + 1
  <2>1. task[h].grant \in Grant /\ task[h].pc = "issue"
    BY <1>0, <1>5, TaskFields DEF Issues
  <2>2. /\ n \notin DOMAIN grants /\ grants'[n] = task[h].grant
        /\ \A g \in DOMAIN grants : grants'[g] = grants[g]
    BY <1>0, <1>5, <2>1, AppendEntry DEF Issues
  <2>3. /\ refresh' = refresh \cup {n} /\ codes' = codes
        /\ task'[h].pc # "issue" /\ \A k \in Handler \ {h} : task'[k] = task[k]
    BY <1>0, <1>5 DEF Issues, NoTask
  <2>4. saved'.refresh = refresh' \/ saved' = saved
    <3>1. refresh' \in SUBSET Nat /\ access' \in SUBSET Nat /\ clients' \in SUBSET Client
      BY <1>0, <1>5 DEF Issues, TokenTypeOK
    <3> QED
      BY <1>0, <1>5, <3>1, SaveCases DEF Issues
  <2> HIDE DEF n
  <2>5. OneEach(refresh)'
    BY <1>0, <2>1, <2>2, <2>3 DEF OnePair, OneEach, TakenOut
  <2>6. OneEach(saved.refresh)'
    BY <1>0, <2>2, <2>4, <2>5 DEF OnePair, OneEach
  <2>7. OneExchange'
    BY <1>0, <2>3 DEF OneExchange
  <2>8. TakenOut'
    BY <1>0, <2>1, <2>2, <2>3 DEF TakenOut, OneExchange
  <2>9. UnusedCode'
    BY <1>0, <2>1, <2>2, <2>3 DEF UnusedCode
  <2> QED
    BY <2>5, <2>6, <2>7, <2>8, <2>9 DEF OnePair
<1>6. CASE Crashes
  <2>1. /\ refresh' = saved.refresh /\ saved' = saved /\ grants' = grants /\ codes' = {}
        /\ \A h \in Handler : task'[h].pc # "issue"
    BY <1>6 DEF Crashes, NoTask, pastVars
  <2> QED
    BY <1>0, <2>1 DEF OnePair, OneEach, OneExchange, TakenOut, UnusedCode
<1> QED
  BY <1>0, <1>1, <1>2, <1>3, <1>4, <1>5, <1>6, TokenStep

-----------------------------------------------------------------------------
(* The maps in memory and in the file.                                      *)

Kept == AccessNeedsRefresh /\ CrashKeepsSessions

(* A save that goes through makes the file and the memory agree; one that  *)
(* fails says so.                                                          *)
LEMMA KeptBySave ==
  ASSUME Inv, Save, access' \subseteq refresh',
         clients' \in SUBSET Client, refresh' \in SUBSET Nat, access' \in SUBSET Nat
  PROVE  Kept'
<1>1. TokenTypeOK /\ AccessNeedsRefresh
  BY DEF Inv
<1>2. \/ saved'.clients = clients' /\ saved'.refresh = refresh' /\ saved'.access = access' /\ ~dirty'
      \/ saved' = saved /\ dirty'
  BY <1>1, SaveCases
<1> QED
  BY <1>1, <1>2 DEF Kept, AccessNeedsRefresh, CrashKeepsSessions

(* Steps that leave the maps alone and finish no exchange.                 *)
LEMMA KeptByOthers ==
  ASSUME Inv, UNCHANGED <<saved, clients, refresh, access, dirty>>,
         \A h \in Handler : task[h].pc = "issue" => task'[h] = task[h]
  PROVE  Kept'
<1>1. AccessNeedsRefresh'
  BY DEF Inv, AccessNeedsRefresh
<1>2. ASSUME ~dirty
      PROVE  saved.refresh \ refresh
               \subseteq {task'[h].rotated : h \in {k \in Handler : task'[k].pc = "issue"}}
  <2>1. saved.refresh \ refresh \subseteq {task[h].rotated : h \in {k \in Handler : task[k].pc = "issue"}}
    BY <1>2 DEF Inv, CrashKeepsSessions
  <2> QED
    BY <2>1
<1> QED
  BY <1>1, <1>2 DEF Inv, Kept, CrashKeepsSessions

(* Every step keeps both.                                                  *)
LEMMA KeptStep ==
  ASSUME Inv, [Next]_vars
  PROVE  Kept'
<1>0. /\ task \in [Handler -> Task] /\ refresh \in SUBSET Nat /\ access \in SUBSET Nat
      /\ clients \in SUBSET Client /\ saved \in Section /\ access \subseteq refresh
      /\ saved.access \subseteq saved.refresh
  BY DEF Inv, TokenTypeOK, AccessNeedsRefresh
<1>1. ASSUME NEW c \in Client, Registers(c)
      PROVE  Kept'
  <2>1. clients' \in SUBSET Client /\ refresh' = refresh /\ access' = access /\ Save
    BY <1>0, <1>1 DEF Registers
  <2> QED
    BY <1>0, <2>1, KeptBySave
<1>2. ASSUME NEW c \in Client, AsksSignIn(c)
      PROVE  Kept'
  BY <1>2, KeptByOthers DEF AsksSignIn, taskVars
<1>3. ASSUME NEW q \in Request, PostsEmail(q)
      PROVE  Kept'
  BY <1>3, KeptByOthers DEF PostsEmail, taskVars
<1>4. ASSUME NEW h \in Handler, NEW q \in Request, PostsCode(h, q)
      PROVE  Kept'
  <2>1. \A k \in Handler : task[k].pc = "issue" => task'[k] = task[k]
    BY <1>0, <1>4 DEF PostsCode, NoTask
  <2> QED
    BY <1>4, <2>1, KeptByOthers DEF PostsCode
<1>5. ASSUME NEW h \in Handler, GrantsCode(h)
      PROVE  Kept'
  <2>1. \A k \in Handler : task[k].pc = "issue" => task'[k] = task[k]
    BY <1>0, <1>5 DEF GrantsCode
  <2> QED
    BY <1>5, <2>1, KeptByOthers DEF GrantsCode
<1>6. ASSUME NEW h \in Handler, NEW c \in Client, NEW s \in codes, NEW verified \in BOOLEAN,
             TakesCode(h, c, s, verified)
      PROVE  Kept'
  <2>1. \A k \in Handler : task[k].pc = "issue" => task'[k] = task[k]
    BY <1>0, <1>6 DEF TakesCode, NoTask
  <2> QED
    BY <1>6, <2>1, KeptByOthers DEF TakesCode
<1>7. ASSUME NEW h \in Handler, NEW c \in Client, NEW g \in refresh, Rotates(h, c, g)
      PROVE  Kept'
  <2>1. /\ UNCHANGED <<saved, clients, dirty>> /\ refresh' = refresh \ {g} /\ access' = access \ {g}
        /\ task'[h].pc = "issue" /\ task'[h].rotated = g
        /\ \A k \in Handler : task[k].pc = "issue" => task'[k] = task[k]
    BY <1>0, <1>7 DEF Rotates, NoTask
  <2>2. AccessNeedsRefresh'
    BY <1>0, <2>1 DEF AccessNeedsRefresh
  <2>3. ASSUME ~dirty
        PROVE  saved.refresh \ (refresh \ {g})
                 \subseteq {task'[k].rotated : k \in {j \in Handler : task'[j].pc = "issue"}}
    <3>1. saved.refresh \ refresh
            \subseteq {task[k].rotated : k \in {j \in Handler : task[j].pc = "issue"}}
      BY <2>3 DEF Inv, CrashKeepsSessions
    <3> QED
      BY <2>1, <3>1
  <2>4. ASSUME ~dirty
        PROVE  /\ clients = saved.clients /\ refresh' \subseteq saved.refresh /\ access' \subseteq saved.access
               /\ saved.access \ access' \subseteq saved.refresh \ refresh'
    BY <1>0, <2>1, <2>4 DEF Inv, CrashKeepsSessions
  <2> QED
    BY <2>1, <2>2, <2>3, <2>4 DEF Kept, CrashKeepsSessions
<1>8. ASSUME NEW h \in Handler, Issues(h)
      PROVE  Kept'
  <2>1. /\ clients' = clients /\ Save
        /\ refresh' = refresh \cup {Len(grants) + 1} /\ access' = access \cup {Len(grants) + 1}
    BY <1>8 DEF Issues
  <2>2. Len(grants) + 1 \in Nat
    BY DEF Inv, TokenTypeOK
  <2> QED
    BY <1>0, <2>1, <2>2, KeptBySave
<1>9. ASSUME NEW g \in DOMAIN grants, AccessExpires(g)
      PROVE  Kept'
  <2>1. /\ UNCHANGED <<clients, refresh, dirty, task>> /\ access' = access \ {g}
        /\ saved'.clients = saved.clients /\ saved'.refresh = saved.refresh
        /\ saved'.access = saved.access \ {g}
    BY <1>0, <1>9 DEF AccessExpires, taskVars, Section
  <2> QED
    BY <1>0, <2>1 DEF Inv, Kept, AccessNeedsRefresh, CrashKeepsSessions
<1>10. ASSUME NEW g \in DOMAIN grants, RefreshExpires(g)
       PROVE  Kept'
  <2>1. /\ UNCHANGED <<clients, access, dirty, task>> /\ refresh' = refresh \ {g}
        /\ g \notin access /\ g \notin saved.access
        /\ saved'.clients = saved.clients /\ saved'.access = saved.access
        /\ saved'.refresh = saved.refresh \ {g}
    BY <1>0, <1>10 DEF RefreshExpires, taskVars, Section
  <2> QED
    BY <1>0, <2>1 DEF Inv, Kept, AccessNeedsRefresh, CrashKeepsSessions
<1>11. ASSUME NEW s \in codes, CodeExpires(s)
       PROVE  Kept'
  BY <1>11, KeptByOthers DEF CodeExpires, taskVars
<1>12. ASSUME NEW q \in DOMAIN pend, RequestExpires(q)
       PROVE  Kept'
  BY <1>12, KeptByOthers DEF RequestExpires, taskVars
<1>13. CASE PanelStep
  <2>1. ASSUME NEW a \in AccountId, Disables(a) \/ Enables(a) \/ DeletesAccount(a) \/ AsksSignOut(a)
        PROVE  Kept'
    <3>1. Acts
      BY <2>1 DEF Disables, Enables, DeletesAccount, AsksSignOut
    <3> QED
      BY <3>1, KeptByOthers DEF Acts, memVars
  <2>2. CASE RevokesAccount
    <3>1. /\ Save /\ clients' = clients
          /\ refresh' = refresh \ Of(panel.account, refresh) /\ access' = access \ Of(panel.account, access)
      BY <2>2 DEF RevokesAccount
    <3>2. access' \subseteq refresh'
      BY <1>0, <3>1 DEF Of
    <3> QED
      BY <1>0, <3>1, <3>2, KeptBySave
  <2> QED
    BY <1>13, <2>1, <2>2 DEF PanelStep
<1>14. CASE Crashes
  <2>1. /\ saved' = saved /\ clients' = saved.clients /\ refresh' = saved.refresh
        /\ access' = saved.access
    BY <1>14 DEF Crashes
  <2> QED
    BY <1>0, <2>1 DEF Kept, AccessNeedsRefresh, CrashKeepsSessions
<1>15. CASE UNCHANGED vars
  BY <1>15, KeptByOthers DEF vars, memVars, taskVars
<1> QED
  BY <1>1, <1>2, <1>3, <1>4, <1>5, <1>6, <1>7, <1>8, <1>9, <1>10, <1>11, <1>12, <1>13, <1>14, <1>15
  DEF Next, ClientStep, Expires

-----------------------------------------------------------------------------
(* The theorems.                                                            *)

(* The invariant holds in every reachable state.                           *)
THEOREM InvHolds == Spec => []Inv
<1>1. Inv /\ [Next]_vars => Inv'
  <2> SUFFICES ASSUME Inv, [Next]_vars PROVE Inv'
    OBVIOUS
  <2>1. TokenTypeOK'
    BY TypeStep DEF Inv
  <2> QED
    BY <2>1, BoundStep, SessionStep, KeptStep DEF Inv, Kept
<1> QED
  BY InvInit, <1>1, PTL DEF Spec

(* Every state of the server is well typed (internal/oauth).               *)
THEOREM TokenTypeCorrect == Spec => []TokenTypeOK
<1>1. Inv => TokenTypeOK
  BY DEF Inv
<1> QED
  BY InvHolds, <1>1, PTL

(* A sign-in is worth one session, however exchanges, sign-outs, failing   *)
(* saves and crashes interleave (handleToken, server.go:596-657).          *)
THEOREM SignInIsOneSession == Spec => []OneSession
<1>1. ASSUME NEW S, \A x, y \in S : x = y
      PROVE  IsFiniteSet(S) /\ (Cardinality(S) = 0 \/ Cardinality(S) = 1) /\ (Cardinality(S) = 1 => S # {})
  <2>1. CASE S = {}
    BY <2>1, FS_EmptySet
  <2>2. ASSUME NEW x \in S
        PROVE  Cardinality(S) = 1 /\ IsFiniteSet(S)
    <3>1. S = {x}
      BY <1>1
    <3> QED
      BY <3>1, FS_Singleton
  <2> QED
    BY <2>1, <2>2
<1>2. Inv => OneSession
  <2> SUFFICES ASSUME Inv, NEW s \in DOMAIN signIns
      PROVE  Cardinality(InHand(s)) + Cardinality(Issuing(s)) + (IF s \in codes THEN 1 ELSE 0) <= 1
    BY DEF OneSession
  <2>1. (\A f, g \in InHand(s) : f = g) /\ (\A h, k \in Issuing(s) : h = k)
    BY DEF Inv, OnePair, OneEach, OneExchange, InHand, Issuing
  <2>2. InHand(s) = {} \/ Issuing(s) = {}
    BY DEF Inv, TakenOut, InHand, Issuing
  <2>3. s \in codes => InHand(s) = {} /\ Issuing(s) = {}
    BY DEF Inv, UnusedCode, InHand, Issuing
  <2>4. /\ Cardinality(InHand(s)) \in {0, 1} /\ (Cardinality(InHand(s)) = 1 => InHand(s) # {})
        /\ Cardinality(Issuing(s)) \in {0, 1} /\ (Cardinality(Issuing(s)) = 1 => Issuing(s) # {})
    BY <1>1, <2>1
  <2> QED
    BY <2>2, <2>3, <2>4
<1> QED
  BY InvHolds, <1>2, PTL

(* No access token outlives the refresh token it was issued with, in       *)
(* memory or in the file (Pair, server.go:641-657 and 735-756).            *)
THEOREM AccessHasRefresh == Spec => []AccessNeedsRefresh
<1>1. Inv => AccessNeedsRefresh
  BY DEF Inv
<1> QED
  BY InvHolds, <1>1, PTL

(* Tokens are for the client and the account of the sign-in they go back   *)
(* to (issue, server.go:659-678).                                          *)
THEOREM TokensAreBound == Spec => []BoundToSignIn
<1>1. Inv => BoundToSignIn
  BY DEF Inv, GrantsBound, Bound, BoundToSignIn
<1> QED
  BY InvHolds, <1>1, PTL

(* While the last save went through, a crash loses no token that was       *)
(* answered and revives none but those being rotated (storage.go).         *)
THEOREM SessionsSurvive == Spec => []CrashKeepsSessions
<1>1. Inv => CrashKeepsSessions
  BY DEF Inv
<1> QED
  BY InvHolds, <1>1, PTL
=============================================================================
