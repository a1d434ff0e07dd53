----------------------------- MODULE OAuthTokens -----------------------------
(***************************************************************************)
(* internal/oauth: the authorization server of a multi-user server, the    *)
(* tokens it hands out and the accounts of internal/admin they act as.     *)
(*                                                                         *)
(* A client registers, sends its user to the sign-in page and, when the    *)
(* user has typed the code mailed to an account, gets an authorization     *)
(* code.  It exchanges that for an access and a refresh token, and later   *)
(* the refresh token for new ones.  Every request runs in a goroutine of   *)
(* its own and holds the server's lock only for single accesses: between   *)
(* taking a code or a token and issuing its successors others may run,     *)
(* among them an administrator who signs an account out.                   *)
(*                                                                         *)
(* Tokens that expire leave the maps at once here; in the code they stay   *)
(* until gc runs, and every reader of the maps looks at the time.          *)
(***************************************************************************)
EXTENDS Naturals, Sequences, FiniteSets, Functions

CONSTANTS
  Client,      \* applications
  AccountId,   \* accounts
  Request,     \* ids of sign-in requests, each given out once
  Handler,     \* requests that may run at the same time
  MaxSignIns,  \* bound: authorization codes handed out
  MaxGrants,   \* bound: pairs of tokens handed out
  MaxSaveErrors, MaxActs, MaxCrashes   \* bounds: failing saves, acts of the panel, crashes

ASSUME TokenBoundAssumption ==
  {MaxSignIns, MaxGrants, MaxSaveErrors, MaxActs, MaxCrashes} \subseteq Nat
ASSUME TokenIdAssumption == Client # {} /\ AccountId # {}

VARIABLES
  (* in the state file *)
  status,      \* accounts: active, disabled or gone
  saved,       \* the OAuth section: clients, refresh and access tokens
  (* in the process, under Server.mu *)
  clients,     \* Server.st.Clients
  refresh,     \* Server.st.Refresh: the grants whose refresh token is good
  access,      \* Server.st.Access: the grants whose access token is good
  pend,        \* sign-in requests under way: the client that asked
  mailed,      \* the account whose one-time code is out for a request
  codes,       \* the sign-ins whose authorization code is good
  dirty,       \* did the last save fail?
  (* requests in progress *)
  task,        \* of clients
  panel,       \* of the administrator
  (* what happened; the code keeps none of it *)
  signIns,     \* every authorization code handed out
  grants,      \* every pair of tokens handed out
  epoch,       \* how often each account was signed out ...
  issued,      \* ... until a pair was handed out
  asked,       \* ids of sign-in requests given out
  saveErrors, acts, crashes

memVars   == <<clients, refresh, access, pend, mailed, codes, dirty>>
taskVars  == <<task, panel>>
pastVars  == <<signIns, grants, epoch, issued, asked>>
boundVars == <<saveErrors, acts, crashes>>
vars      == <<status, saved, memVars, taskVars, pastVars, boundVars>>

Section == [clients : SUBSET Client, refresh : SUBSET Nat, access : SUBSET Nat]

SignIn == [request : Request, client : Client, account : AccountId]

(* A grant: the client and the account both tokens are for, and the sign-in *)
(* they go back to.                                                         *)
Grant == [client : Client, account : AccountId, signIn : Nat]

(* A task: a sign-in to grant, or tokens to issue for a code or a refresh   *)
(* token that was taken out of its map.                                     *)
NoTask == [pc |-> "idle"]
Task == {NoTask}
        \cup [pc : {"grant"}, request : Request, client : Client, account : AccountId]
        \cup [pc : {"issue"}, grant : Grant, rotated : Nat]
NoToken == 0

NoActs == [pc |-> "idle"]
Panel == {NoActs} \cup [pc : {"revoke"}, account : AccountId]

Init ==
  /\ status = [a \in AccountId |-> "active"]
  /\ saved = [clients |-> {}, refresh |-> {}, access |-> {}]
  /\ clients = {} /\ refresh = {} /\ access = {}
  /\ pend = [q \in {} |-> 0] /\ mailed = [q \in {} |-> 0]
  /\ codes = {} /\ dirty = FALSE
  /\ task = [h \in Handler |-> NoTask] /\ panel = NoActs
  /\ signIns = <<>> /\ grants = <<>>
  /\ epoch = [a \in AccountId |-> 0] /\ issued = <<>> /\ asked = {}
  /\ saveErrors = 0 /\ acts = 0 /\ crashes = 0

With(f, key, value) == [x \in DOMAIN f \cup {key} |-> IF x = key THEN value ELSE f[x]]
Without(f, key)     == Restrict(f, DOMAIN f \ {key})

Active(a) == status[a] = "active"

\* save writes the whole section; when that fails it is only logged.
Save ==
  \/ /\ saved' = [clients |-> clients', refresh |-> refresh', access |-> access']
     /\ dirty' = FALSE
     /\ UNCHANGED saveErrors
  \/ /\ saveErrors < MaxSaveErrors
     /\ saveErrors' = saveErrors + 1
     /\ dirty' = TRUE
     /\ UNCHANGED saved

-----------------------------------------------------------------------------
(* Registration and sign-in.                                                *)

\* handleRegister
Registers(c) ==
  /\ c \notin clients
  /\ clients' = clients \cup {c}
  /\ UNCHANGED <<refresh, access>>
  /\ Save
  /\ UNCHANGED <<status, pend, mailed, codes, taskVars, pastVars, acts, crashes>>

\* handleAuthorizeGet: a sign-in page for a client.
AsksSignIn_AnyClient(c) ==
  /\ \E q \in Request \ asked :
       asked' = asked \cup {q} /\ pend' = With(pend, q, c)
  /\ UNCHANGED <<status, saved, clients, refresh, access, mailed, codes, dirty, taskVars,
                 signIns, grants, epoch, issued, boundVars>>
AsksSignIn(c) ==
  /\ c \in clients
  /\ \E q \in Request \ asked :
       asked' = asked \cup {q} /\ pend' = With(pend, q, c)
  /\ UNCHANGED <<status, saved, clients, refresh, access, mailed, codes, dirty, taskVars,
                 signIns, grants, epoch, issued, boundVars>>

\* handleAuthorizePost, step "email": a new code takes the place of the last.
PostsEmail(q) ==
  /\ q \in DOMAIN pend
  /\ \/ \E a \in AccountId : Active(a) /\ mailed' = With(mailed, q, a)
     \/ mailed' = Without(mailed, q)          \* an address without an active account
  /\ UNCHANGED <<status, saved, clients, refresh, access, pend, codes, dirty, taskVars, pastVars,
                 boundVars>>

\* Step "code": the sign-in is verified, which uses up the mailed code ...
PostsCode(h, q) ==
  /\ task[h] = NoTask /\ q \in DOMAIN pend /\ q \in DOMAIN mailed
  /\ mailed' = Without(mailed, q)
  /\ task' = IF Active(mailed[q])
             THEN [task EXCEPT ![h] = [pc |-> "grant", request |-> q, client |-> pend[q],
                                       account |-> mailed[q]]]
             ELSE task
  /\ UNCHANGED <<status, saved, clients, refresh, access, pend, codes, dirty, panel, pastVars,
                 boundVars>>

\* ... and answered with an authorization code.
GrantsCode(h) ==
  /\ task[h].pc = "grant" /\ Len(signIns) < MaxSignIns
  /\ pend' = Without(pend, task[h].request)
  /\ signIns' = Append(signIns, [request |-> task[h].request, client |-> task[h].client,
                                 account |-> task[h].account])
  /\ codes' = codes \cup {Len(signIns) + 1}
  /\ task' = [task EXCEPT ![h] = NoTask]
  /\ UNCHANGED <<status, saved, clients, refresh, access, mailed, dirty, panel, grants, epoch, issued,
                 asked, boundVars>>

-----------------------------------------------------------------------------
(* handleToken.                                                             *)

\* A code is used up by whoever presents it, tokens are issued only to its
\* client, and only with the verifier of its PKCE challenge.  That the account
\* is still active is not asked.
TakesCode_KeepsIt(h, c, s, verified) ==
  /\ task[h] = NoTask /\ c \in clients /\ s \in codes
  /\ task' = IF signIns[s].client = c /\ verified
             THEN [task EXCEPT ![h] = [pc |-> "issue", rotated |-> NoToken,
                     grant |-> [client |-> c, account |-> signIns[s].account, signIn |-> s]]]
             ELSE task
  /\ UNCHANGED <<status, saved, clients, refresh, access, pend, mailed, codes, dirty, panel, pastVars,
                 boundVars>>
TakesCode_AnyClient(h, c, s, verified) ==
  /\ task[h] = NoTask /\ c \in clients /\ s \in codes
  /\ codes' = codes \ {s}
  /\ task' = IF verified
             THEN [task EXCEPT ![h] = [pc |-> "issue", rotated |-> NoToken,
                     grant |-> [client |-> c, account |-> signIns[s].account, signIn |-> s]]]
             ELSE task
  /\ UNCHANGED <<status, saved, clients, refresh, access, pend, mailed, dirty, panel, pastVars,
                 boundVars>>
TakesCode(h, c, s, verified) ==
  /\ task[h] = NoTask /\ c \in clients /\ s \in codes
  /\ codes' = codes \ {s}
  /\ task' = IF signIns[s].client = c /\ verified
             THEN [task EXCEPT ![h] = [pc |-> "issue", rotated |-> NoToken,
                     grant |-> [client |-> c, account |-> signIns[s].account, signIn |-> s]]]
             ELSE task
  /\ UNCHANGED <<status, saved, clients, refresh, access, pend, mailed, dirty, panel, pastVars,
                 boundVars>>

\* A refresh token is taken out together with the access token issued with it;
\* nothing is saved yet.
Rotates_KeepsAccess(h, c, g) ==
  /\ task[h] = NoTask /\ c \in clients /\ g \in refresh
  /\ grants[g].client = c /\ Active(grants[g].account)
  /\ refresh' = refresh \ {g}
  /\ task' = [task EXCEPT ![h] = [pc |-> "issue", rotated |-> g, grant |-> grants[g]]]
  /\ UNCHANGED <<status, saved, clients, access, pend, mailed, codes, dirty, panel, pastVars, boundVars>>
Rotates(h, c, g) ==
  /\ task[h] = NoTask /\ c \in clients /\ g \in refresh
  /\ grants[g].client = c /\ Active(grants[g].account)
  /\ refresh' = refresh \ {g}
  /\ access' = access \ {g}
  /\ task' = [task EXCEPT ![h] = [pc |-> "issue", rotated |-> g, grant |-> grants[g]]]
  /\ UNCHANGED <<status, saved, clients, pend, mailed, codes, dirty, panel, pastVars, boundVars>>

\* issue: a new pair for the client and the account of the old one, saved
\* before it is sent.
Issues_Unsaved(h) ==
  LET g == Len(grants) + 1
  IN /\ task[h].pc = "issue" /\ g <= MaxGrants
     /\ grants' = Append(grants, task[h].grant)
     /\ issued' = Append(issued, epoch[task[h].grant.account])
     /\ refresh' = refresh \cup {g} /\ access' = access \cup {g}
     /\ task' = [task EXCEPT ![h] = NoTask]
     /\ UNCHANGED <<status, saved, clients, dirty, pend, mailed, codes, panel, signIns, epoch, asked,
                    boundVars>>
Issues(h) ==
  LET g == Len(grants) + 1
  IN /\ task[h].pc = "issue" /\ g <= MaxGrants
     /\ grants' = Append(grants, task[h].grant)
     /\ issued' = Append(issued, epoch[task[h].grant.account])
     /\ refresh' = refresh \cup {g} /\ access' = access \cup {g}
     /\ UNCHANGED clients
     /\ Save
     /\ task' = [task EXCEPT ![h] = NoTask]
     /\ UNCHANGED <<status, pend, mailed, codes, panel, signIns, epoch, asked, acts, crashes>>

-----------------------------------------------------------------------------
(* Time, by removal.                                                        *)

AccessExpires(g) ==
  /\ g \in access \cup saved.access
  /\ access' = access \ {g}
  /\ saved' = [saved EXCEPT !.access = @ \ {g}]
  /\ UNCHANGED <<status, clients, refresh, pend, mailed, codes, dirty, taskVars, pastVars, boundVars>>

\* A refresh token outlives the access token issued with it.
RefreshExpires(g) ==
  /\ g \in refresh \cup saved.refresh /\ g \notin access \cup saved.access
  /\ refresh' = refresh \ {g}
  /\ saved' = [saved EXCEPT !.refresh = @ \ {g}]
  /\ UNCHANGED <<status, clients, access, pend, mailed, codes, dirty, taskVars, pastVars, boundVars>>

CodeExpires(s) ==
  /\ s \in codes
  /\ codes' = codes \ {s}
  /\ UNCHANGED <<status, saved, clients, refresh, access, pend, mailed, dirty, taskVars, pastVars,
                 boundVars>>

RequestExpires(q) ==
  /\ q \in DOMAIN pend
  /\ pend' = Without(pend, q) /\ mailed' = Without(mailed, q)
  /\ UNCHANGED <<status, saved, clients, refresh, access, codes, dirty, taskVars, pastVars, boundVars>>

-----------------------------------------------------------------------------
(* The panel: userAction changes the store, then signs the account out.     *)

Acts ==
  /\ panel = NoActs /\ acts < MaxActs
  /\ acts' = acts + 1
  /\ UNCHANGED <<saved, memVars, task, pastVars, saveErrors, crashes>>

Disables(a) ==
  /\ Acts /\ status[a] # "gone"
  /\ status' = [status EXCEPT ![a] = "disabled"]
  /\ panel' = [pc |-> "revoke", account |-> a]

Enables(a) ==
  /\ Acts /\ status[a] # "gone"
  /\ status' = [status EXCEPT ![a] = "active"]
  /\ UNCHANGED panel

DeletesAccount(a) ==
  /\ Acts /\ status[a] # "gone"
  /\ status' = [status EXCEPT ![a] = "gone"]
  /\ panel' = [pc |-> "revoke", account |-> a]

\* The action "revoke" changes no account.
AsksSignOut(a) ==
  /\ Acts /\ status[a] # "gone"
  /\ panel' = [pc |-> "revoke", account |-> a]
  /\ UNCHANGED status

Of(a, tokens) == {g \in tokens : grants[g].account = a}

RevokesAccount ==
  LET a == panel.account
  IN /\ panel.pc = "revoke"
     /\ refresh' = refresh \ Of(a, refresh)
     /\ access' = access \ Of(a, access)
     /\ UNCHANGED clients
     /\ Save
     /\ epoch' = [epoch EXCEPT ![a] = @ + 1]
     /\ panel' = NoActs
     /\ UNCHANGED <<status, pend, mailed, codes, task, signIns, grants, issued, asked, acts, crashes>>

-----------------------------------------------------------------------------
(* A new process loads what was saved.                                      *)

Crashes ==
  /\ crashes < MaxCrashes
  /\ crashes' = crashes + 1
  /\ clients' = saved.clients /\ refresh' = saved.refresh /\ access' = saved.access
  /\ pend' = [q \in {} |-> 0] /\ mailed' = [q \in {} |-> 0]
  /\ codes' = {} /\ dirty' = FALSE
  /\ task' = [h \in Handler |-> NoTask] /\ panel' = NoActs
  /\ UNCHANGED <<status, saved, pastVars, saveErrors, acts>>

ClientStep(h) ==
  \/ \E q \in Request : PostsCode(h, q)
  \/ GrantsCode(h)
  \/ \E c \in Client, s \in codes, verified \in BOOLEAN : TakesCode(h, c, s, verified)
  \/ \E c \in Client, g \in refresh : Rotates(h, c, g)
  \/ Issues(h)

Expires ==
  \/ \E g \in DOMAIN grants : AccessExpires(g) \/ RefreshExpires(g)
  \/ \E s \in codes : CodeExpires(s)
  \/ \E q \in DOMAIN pend : RequestExpires(q)

PanelStep ==
  \/ \E a \in AccountId : Disables(a) \/ Enables(a) \/ DeletesAccount(a) \/ AsksSignOut(a)
  \/ RevokesAccount

Next ==
  \/ \E c \in Client : Registers(c) \/ AsksSignIn(c)
  \/ \E q \in Request : PostsEmail(q)
  \/ \E h \in Handler : ClientStep(h)
  \/ Expires \/ PanelStep \/ Crashes

Spec == Init /\ [][Next]_vars

-----------------------------------------------------------------------------
(* Properties.                                                              *)

TokenTypeOK ==
  /\ status \in [AccountId -> {"active", "disabled", "gone"}]
  /\ saved \in Section
  /\ clients \in SUBSET Client /\ refresh \in SUBSET DOMAIN grants /\ access \in SUBSET DOMAIN grants
  /\ saved.refresh \subseteq DOMAIN grants /\ saved.access \subseteq DOMAIN grants
  /\ DOMAIN pend \subseteq asked /\ Range(pend) \subseteq clients
  /\ DOMAIN mailed \subseteq asked /\ Range(mailed) \subseteq AccountId
  /\ codes \in SUBSET DOMAIN signIns /\ dirty \in BOOLEAN
  /\ task \in [Handler -> Task] /\ panel \in Panel
  /\ signIns \in Seq(SignIn) /\ grants \in Seq(Grant)
  /\ epoch \in [AccountId -> Nat] /\ issued \in Seq(Nat) /\ asked \in SUBSET Request
  /\ saveErrors \in 0..MaxSaveErrors /\ acts \in 0..MaxActs /\ crashes \in 0..MaxCrashes

\* What Verify lets in.
Verifies(g) == g \in access /\ Active(grants[g].account)

\* The sign-ins somebody may still turn into tokens, or use the tokens of.
InHand(s) == {g \in refresh : grants[g].signIn = s}
Issuing(s) == {h \in Handler : task[h].pc = "issue" /\ task[h].grant.signIn = s}

(* However exchanges race and whatever a crash brings back, a sign-in is   *)
(* worth one session: an unused code, one exchange in progress or one live *)
(* refresh token, never two of them.                                       *)
OneSession ==
  \A s \in DOMAIN signIns :
    Cardinality(InHand(s)) + Cardinality(Issuing(s)) + (IF s \in codes THEN 1 ELSE 0) <= 1

(* "Pair links an access token to the refresh token that issued it": an    *)
(* access token never outlives its refresh token, in memory and in what a  *)
(* restart reads, so ending a session ends both.                           *)
AccessNeedsRefresh == access \subseteq refresh /\ saved.access \subseteq saved.refresh

(* Tokens are for the client that asked for the sign-in and act as the     *)
(* account whose code was mailed, through every rotation and restart.      *)
BoundToSignIn ==
  \A g \in DOMAIN grants :
    LET s == signIns[grants[g].signIn]
    IN grants[g].client = s.client /\ grants[g].account = s.account

(* "Registered clients and token hashes SHALL survive restarts": while the *)
(* last save went through, a crash loses no client and no token that was   *)
(* answered, and revives none but those being rotated.                     *)
CrashKeepsSessions ==
  ~dirty =>
    /\ clients = saved.clients
    /\ refresh \subseteq saved.refresh /\ access \subseteq saved.access
    /\ saved.refresh \ refresh \subseteq {task[h].rotated : h \in {k \in Handler : task[k].pc = "issue"}}
    /\ saved.access \ access \subseteq saved.refresh \ refresh
=============================================================================
