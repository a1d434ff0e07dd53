------------------------------ MODULE AdminPanel ------------------------------
(***************************************************************************)
(* internal/admin: the sessions of the administrator and what they do to   *)
(* accounts, together with the sign-in they begin with.                    *)
(*                                                                         *)
(* A request of the panel passes the guard and looks at a snapshot of the  *)
(* store; its update of the store comes later and sees what the requests   *)
(* of other tabs, and the operator, have changed meanwhile.                *)
(***************************************************************************)
EXTENDS SignIn

CONSTANTS
  SessionTTL,    \* the life of a session
  StaticToken,   \* is there a recovery token?
  Tab,           \* requests of the panel that may run at the same time
  MaxSessions, MaxEvents   \* bounds: sessions; acts of the panel and restarts together

ASSUME PanelAssumption == {SessionTTL, MaxSessions, MaxEvents} \subseteq Nat
ASSUME RecoveryAssumption == StaticToken \in BOOLEAN

VARIABLES
  sessions,   \* Panel.sessions
  act,        \* the panel's requests in progress
  events      \* acts and restarts so far

panelVars == <<sessions, act, events>>
vars == <<signInVars, panelVars>>

Session == [account : AccountId, expires : Nat]
NoAct == [pc |-> "idle"]
Act == {NoAct}
       \cup [pc : {"create"}, address : Address]
       \cup [pc : {"disable", "enable", "delete"}, account : AccountId]

\* The bounds: no act and no restart once they and the codes so far are MaxCodes.
MoreEvents == events < MaxEvents /\ events + Len(made) < MaxCodes

Admins == {a \in DOMAIN doc.accounts : doc.accounts[a].admin /\ ~doc.accounts[a].disabled}

Init ==
  /\ SignInInit
  /\ \E e \in AdminAddress, a \in AccountId :
       \E s \in EnsureAdmin(emptyState, e, a) :
         doc \in {s} \cup UNION {AddUser(s, u, i) : u \in Address, i \in NewAccountIds(s)}
  /\ sessions = Empty /\ act = [t \in Tab |-> NoAct]
  /\ events = 0

-----------------------------------------------------------------------------
(* Signing in and out.                                                      *)

NewSession(a) ==
  /\ Cardinality(DOMAIN sessions) < MaxSessions
  /\ \E k \in 1..MaxSessions \ DOMAIN sessions :
       sessions' = With(sessions, k, [account |-> a, expires |-> now + SessionTTL])

\* signInPost, step "code": the code of anybody but the administrator is
\* answered like a wrong one, and the page stays open.
StartsSession_Anybody(h) ==
  LET q == task[h].request
  IN /\ Is(h, "grant") /\ task[h].kind = "panel"
     /\ NewSession(task[h].account) /\ pages' = Without(pages, q)
     /\ Return(h)
     /\ UNCHANGED <<now, doc, flowVars, pastVars, act, events>>
StartsSession(h) ==
  LET q == task[h].request
  IN /\ Is(h, "grant") /\ task[h].kind = "panel"
     /\ IF task[h].admin
        THEN NewSession(task[h].account) /\ pages' = Without(pages, q)
        ELSE UNCHANGED <<sessions, pages>>
     /\ Return(h)
     /\ UNCHANGED <<now, doc, flowVars, pastVars, act, events>>

\* Step "token": the recovery token signs the administrator in.
RecoversSession(q) ==
  /\ StaticToken /\ Open(q) /\ pages[q].kind = "panel"
  /\ \E a \in Admins : NewSession(a)
  /\ pages' = Without(pages, q)
  /\ UNCHANGED <<now, doc, flowVars, task, pastVars, act, events>>

\* sessionOf: expired sessions go, and one whose account is the active
\* administrator no more.
Purged == Restrict(sessions, {k \in DOMAIN sessions : now <= sessions[k].expires})

Passes(k) == k \in DOMAIN Purged /\ Purged[k].account \in Admins

TurnedAway(k) ==
  /\ k \in DOMAIN sessions /\ ~Passes(k)
  /\ sessions' = Without(Purged, k)
  /\ UNCHANGED <<signInVars, act, events>>

SignsOut(k) ==
  /\ Passes(k)
  /\ sessions' = Without(Purged, k)
  /\ UNCHANGED <<signInVars, act, events>>

-----------------------------------------------------------------------------
(* userCreate and userAction.                                               *)

Begins(t, what) ==
  /\ act[t] = NoAct /\ MoreEvents
  /\ \E k \in DOMAIN sessions : Passes(k)
  /\ sessions' = Purged
  /\ act' = [act EXCEPT ![t] = what]
  /\ events' = events + 1
  /\ UNCHANGED signInVars

AsksCreate(t, address) == Begins(t, [pc |-> "create", address |-> address])

\* The administrator's own account is refused, by a look at a snapshot.
AsksAction_Unchecked(t, a, what) ==
  /\ a \in DOMAIN doc.accounts
  /\ Begins(t, [pc |-> what, account |-> a])
AsksAction(t, a, what) ==
  /\ a \in DOMAIN doc.accounts
  /\ what # "enable" => ~doc.accounts[a].admin
  /\ Begins(t, [pc |-> what, account |-> a])

OnAccount(t) == act[t].pc \in {"disable", "enable", "delete"}

\* NewID is random: an id that codes or requests remember does not come back.
FreshIds ==
  NewAccountIds(doc) \ ({made[n].account : n \in DOMAIN made}
                        \cup {task[h].account : h \in {g \in Handler : Is(g, "issue")}}
                        \cup {act[t].account : t \in {u \in Tab : OnAccount(u)}})

PanelAsks(t) ==
  \/ \E e \in Address : AsksCreate(t, e)
  \/ \E a \in AccountId, what \in {"disable", "enable", "delete"} : AsksAction(t, a, what)

\* The update meets the document as it is by then, and may fail.
Updated(what) ==
  CASE what.pc = "create"  -> UNION {AddUser(doc, what.address, i) : i \in FreshIds}
    [] what.pc = "disable" -> SetDisabled(doc, what.account, TRUE)
    [] what.pc = "enable"  -> SetDisabled(doc, what.account, FALSE)
    [] what.pc = "delete"  -> DeleteAccount(doc, what.account)
    [] OTHER               -> {}

UpdatesAccounts(t) ==
  /\ act[t] # NoAct
  /\ doc' \in {doc} \cup Updated(act[t])
  /\ act' = [act EXCEPT ![t] = NoAct]
  /\ UNCHANGED <<now, pages, flowVars, task, pastVars, sessions, events>>

-----------------------------------------------------------------------------
(* A new process: everything but the store is forgotten, and the settings  *)
(* may name another administrator.                                         *)

Boots ==
  /\ MoreEvents
  /\ events' = events + 1
  /\ \E e \in AdminAddress, i \in NewAccountIds(doc) \cup {CHOOSE a \in AccountId : TRUE} :
       (AccountByEmail(doc, e) = {} => i \in NewAccountIds(doc)) /\ doc' \in EnsureAdmin(doc, e, i)
  /\ pages' = Empty /\ log' = {} /\ total' = {} /\ entries' = Empty /\ sent' = Empty
  /\ task' = [h \in Handler |-> NoTask]
  /\ made' = <<>> /\ mails' = {} /\ signIns' = {}
  /\ sessions' = Empty /\ act' = [t \in Tab |-> NoAct]
  /\ UNCHANGED <<now, opened>>

Next ==
  \/ SignInNext /\ UNCHANGED panelVars
  \/ \E h \in Handler : StartsSession(h)
  \/ \E q \in Request : RecoversSession(q)
  \/ \E k \in 1..MaxSessions : SignsOut(k) \/ TurnedAway(k)
  \/ \E t \in Tab : PanelAsks(t) \/ UpdatesAccounts(t)
  \/ Boots

Spec == Init /\ [][Next]_vars

-----------------------------------------------------------------------------
(* Properties.                                                              *)

PanelTypeOK ==
  /\ SignInTypeOK
  /\ task \in [Handler -> SignInTask]
  /\ Range(sessions) \subseteq Session /\ DOMAIN sessions \subseteq 1..MaxSessions
  /\ act \in [Tab -> Act] /\ events \in 0..MaxEvents

(* "The configured administrator account MUST NOT be disabled or deleted   *)
(* from the panel": whatever the panel's requests saw before their updates *)
(* and whoever the settings named before, there is one administrator, and  *)
(* it is active; addresses stay unique.                                    *)
OneActiveAdmin == Consistent(doc) /\ Cardinality(Admins) = 1

(* A session that is live belongs to that administrator: no account that   *)
(* signed in with a code of its own, was demoted or disabled holds one.    *)
SessionsAreAdmins == \A k \in DOMAIN sessions : sessions[k].account \in Admins
=============================================================================
