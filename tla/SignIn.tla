-------------------------------- MODULE SignIn --------------------------------
(***************************************************************************)
(* internal/signin: proving an address with a mailed one-time code, for    *)
(* the sign-in page of a client (internal/oauth) and for that of the admin *)
(* panel (internal/admin).                                                 *)
(*                                                                         *)
(* A page gives its request an id; an address posted for it passes the     *)
(* limits, gets a new code in place of the last and, when it belongs to an *)
(* active account, a mail.  An address without one gets a decoy.  The code *)
(* posted for the same request is compared at most MaxAttempts times.      *)
(*                                                                         *)
(* The clock counts whole ticks; limits and lifetimes are numbers of them. *)
(* The accounts are a document of AccountModel.                            *)
(***************************************************************************)
EXTENDS AccountModel, Sequences

CONSTANTS
  Kinds,        \* pages there are: of clients, of the panel
  Request,      \* ids of sign-in requests, each given out once
  Network,      \* network addresses of clients (ClientAddr)
  Handler,      \* requests of browsers that may run at the same time
  AddrInterval, AddrPerHour, ClientPerHour, TotalPerHour,   \* Limits
  Hour, CodeTTL, PageTTL,      \* lifetimes; that of a page by its kind
  MaxAttempts,  \* wrong codes after which a code is void
  MaxCodes, MaxTime   \* bounds: codes made, ticks

NoAccount == "nobody"

ASSUME SignInAssumption ==
  /\ {AddrInterval, AddrPerHour, ClientPerHour, TotalPerHour, Hour, CodeTTL, MaxAttempts} \subseteq Nat
  /\ Kinds \subseteq {"client", "panel"} /\ PageTTL \in [Kinds -> Nat]
  /\ AddrInterval \in 1..Hour   \* as in DefaultLimits: a minute of an hour
  /\ NoAccount \notin AccountId
ASSUME SignInBoundAssumption == MaxCodes \in Nat /\ MaxTime \in Nat

VARIABLES
  now,       \* the clock
  doc,       \* the document of the store
  pages,     \* sign-in requests under way: Server.pend and Panel.pending
  log,       \* Limiter.addr and Limiter.client, which hold the same requests
  total,     \* Limiter.total, each delivery with the code it is for
  entries,   \* Codes.entries
  sent,      \* Flow.sent
  task,      \* requests in progress
  (* what happened since the process started; the code keeps none of it *)
  made,      \* every code
  mails,     \* every mail handed to the provider
  signIns,   \* every code that was accepted
  opened     \* ids of requests given out

flowVars == <<log, total, entries, sent>>
pastVars == <<made, mails, signIns, opened>>
signInVars == <<now, doc, pages, flowVars, task, pastVars>>

WrongCode == 0

(* The code "number" is the one made in that place; a decoy has no account. *)
Entry == [number : Nat, account : AccountId \cup {NoAccount}, expires : Nat, attempts : 0..MaxAttempts]

Page == [kind : Kinds, expires : Nat]
Asked == [address : Email \cup Address, client : Network, at : Nat]
Delivery == [number : Nat, at : Nat]

Made == [request : Request, address : Email \cup Address, client : Network,
         account : AccountId \cup {NoAccount}, at : Nat, wrong : Nat]
Mail == [address : Email, number : Nat, key : [request : Request, count : Nat]]
Accepted == [number : Nat, request : Request, account : AccountId, at : Nat, after : Nat]

NoTask == [pc |-> "idle"]
SignInTask ==
  {NoTask}
  \cup [pc : {"issue"}, request : Request, address : Email \cup Address, client : Network,
        account : AccountId \cup {NoAccount}, at : Nat]
  \cup [pc : {"send"}, request : Request, address : Email, number : Nat]
  \cup [pc : {"grant"}, request : Request, kind : Kinds, account : AccountId, admin : BOOLEAN]

Is(h, pc) == task[h].pc = pc
Return(h) == task' = [task EXCEPT ![h] = NoTask]

Empty == [x \in {} |-> 0]

SignInInit ==
  /\ now = 0
  /\ pages = Empty /\ log = {} /\ total = {} /\ entries = Empty /\ sent = Empty
  /\ task = [h \in Handler |-> NoTask]
  /\ made = <<>> /\ mails = {} /\ signIns = {} /\ opened = {}

Tick ==
  /\ now < MaxTime
  /\ now' = now + 1
  /\ UNCHANGED <<doc, pages, flowVars, task, pastVars>>

-----------------------------------------------------------------------------
(* The pages: handleAuthorizeGet of oauth, newPending of admin.             *)

OpensPage(q, kind) ==
  /\ q \notin opened
  /\ opened' = opened \cup {q}
  /\ pages' = With(pages, q, [kind |-> kind, expires |-> now + PageTTL[kind]])
  /\ UNCHANGED <<now, doc, flowVars, task, made, mails, signIns>>

Open(q) == q \in DOMAIN pages /\ now <= pages[q].expires

-----------------------------------------------------------------------------
(* The limits.                                                              *)

\* prune: what is left of the last hour.
RecentLog   == {x \in log : x.at + Hour > now}
RecentTotal == {x \in total : x.at + Hour > now}

\* What the limits count an address by: its canonical form, if it has one.
Normal_AsTyped(address) == address
Normal(address) == IF Canonical[address] = NoEmail THEN address ELSE Canonical[address]

AllowRequest_AnyTime(address, client) ==
  LET OfAddress == {x \in RecentLog : x.address = address}
      OfClient  == {x \in RecentLog : x.client = client}
  IN Cardinality(OfAddress) < AddrPerHour /\ Cardinality(OfClient) < ClientPerHour
AllowRequest(address, client) ==
  LET OfAddress == {x \in RecentLog : x.address = address}
      OfClient  == {x \in RecentLog : x.client = client}
  IN /\ \A x \in OfAddress : x.at + AddrInterval <= now   \* the last is, so all are
     /\ Cardinality(OfAddress) < AddrPerHour /\ Cardinality(OfClient) < ClientPerHour

AllowSend == Cardinality(RecentTotal) < TotalPerHour

-----------------------------------------------------------------------------
(* Flow.Request.                                                            *)

\* A request over a limit changes nothing.  The account is looked up before
\* the code is made.
PostsAddress(h, q, address, client) ==
  LET norm  == Normal(address)
      found == {a \in AccountByEmail(doc, address) : ~doc.accounts[a].disabled}
  IN /\ task[h] = NoTask /\ Open(q) /\ Len(made) < MaxCodes
     /\ AllowRequest(norm, client)
     /\ log' = RecentLog \cup {[address |-> norm, client |-> client, at |-> now]}
     /\ task' = [task EXCEPT ![h] = [pc |-> "issue", request |-> q, address |-> norm, client |-> client,
                   at |-> now, account |-> IF found = {} THEN NoAccount ELSE CHOOSE a \in found : TRUE]]
     /\ UNCHANGED <<now, doc, pages, total, entries, sent, pastVars>>

\* Codes.Issue: expired codes go, and the request's last one.
Issues(h) ==
  LET q == task[h].request
      n == Len(made) + 1
      kept == {k \in DOMAIN entries : now <= entries[k].expires}
  IN /\ Is(h, "issue") /\ n <= MaxCodes
     /\ entries' = With(Restrict(entries, kept), q,
          [number |-> n, account |-> task[h].account, expires |-> now + CodeTTL, attempts |-> 0])
     /\ made' = Append(made, [request |-> q, address |-> task[h].address, client |-> task[h].client,
                              account |-> task[h].account, at |-> task[h].at, wrong |-> 0])
     /\ task' = [task EXCEPT ![h] = IF task[h].account = NoAccount THEN NoTask
                   ELSE [pc |-> "send", request |-> q, address |-> task[h].address, number |-> n]]
     /\ UNCHANGED <<now, doc, pages, log, total, sent, mails, signIns, opened>>

SentFor(q) == IF q \in DOMAIN sent THEN sent[q] ELSE 0

\* The mail is handed to the provider unless the hour's total is reached; then
\* the new code is in place and nobody has it.
Sends(h) ==
  LET q == task[h].request
  IN /\ Is(h, "send")
     /\ IF AllowSend
        THEN /\ total' = RecentTotal \cup {[number |-> task[h].number, at |-> now]}
             /\ sent' = With(sent, q, SentFor(q) + 1)
             /\ mails' = mails \cup {[address |-> task[h].address, number |-> task[h].number,
                                      key |-> [request |-> q, count |-> SentFor(q) + 1]]}
        ELSE UNCHANGED <<total, sent, mails>>
     /\ Return(h)
     /\ UNCHANGED <<now, doc, pages, log, entries, made, signIns, opened>>

-----------------------------------------------------------------------------
(* Flow.Verify.                                                             *)

\* Codes.Verify: what a code posted for a request meets.
Compared(q)  == q \in DOMAIN entries /\ now <= entries[q].expires /\ entries[q].attempts < MaxAttempts
Match(q, n)  == n = entries[q].number /\ entries[q].account # NoAccount
Active(a)    == a \in DOMAIN doc.accounts /\ ~doc.accounts[a].disabled

\* What a person may type: something wrong, or a code from a mail.
Codes == {WrongCode} \cup {m.number : m \in mails}

\* A wrong code counts; one that is expired or exhausted is not looked at.
Refused_Uncounted(q) ==
  /\ entries' = IF q \in DOMAIN entries /\ now > entries[q].expires THEN Without(entries, q) ELSE entries
  /\ made' = IF Compared(q) THEN [made EXCEPT ![entries[q].number].wrong = @ + 1] ELSE made
Refused(q) ==
  /\ entries' = IF Compared(q) THEN [entries EXCEPT ![q].attempts = @ + 1]
                ELSE IF q \in DOMAIN entries /\ now > entries[q].expires THEN Without(entries, q)
                ELSE entries
  /\ made' = IF Compared(q) THEN [made EXCEPT ![entries[q].number].wrong = @ + 1] ELSE made

PostsWrongCode(q, n) ==
  /\ Open(q)
  /\ ~(Compared(q) /\ Match(q, n))
  /\ Refused(q)
  /\ UNCHANGED <<now, doc, pages, log, total, sent, task, mails, signIns, opened>>

\* A match uses the code up, whatever becomes of the account, which is handed
\* on as it is at that moment.
PostsRightCode_KeepsIt(h, q) ==
  /\ task[h] = NoTask /\ Open(q)
  /\ Compared(q) /\ \E n \in Codes : Match(q, n)
  /\ LET e == entries[q]
     IN IF Active(e.account)
        THEN /\ task' = [task EXCEPT ![h] = [pc |-> "grant", request |-> q, kind |-> pages[q].kind,
                        account |-> e.account, admin |-> doc.accounts[e.account].admin]]
             /\ sent' = Without(sent, q)
             /\ signIns' = signIns \cup {[number |-> e.number, request |-> q, account |-> e.account,
                                          at |-> now, after |-> Len(made)]}
        ELSE UNCHANGED <<task, sent, signIns>>
  /\ UNCHANGED <<now, doc, pages, log, total, entries, made, mails, opened>>
PostsRightCode(h, q) ==
  /\ task[h] = NoTask /\ Open(q)
  /\ Compared(q) /\ \E n \in Codes : Match(q, n)
  /\ entries' = Without(entries, q)
  /\ LET e == entries[q]
     IN IF Active(e.account)
        THEN /\ task' = [task EXCEPT ![h] = [pc |-> "grant", request |-> q, kind |-> pages[q].kind,
                        account |-> e.account, admin |-> doc.accounts[e.account].admin]]
             /\ sent' = Without(sent, q)
             /\ signIns' = signIns \cup {[number |-> e.number, request |-> q, account |-> e.account,
                                          at |-> now, after |-> Len(made)]}
        ELSE UNCHANGED <<task, sent, signIns>>
  /\ UNCHANGED <<now, doc, pages, log, total, made, mails, opened>>

\* handleAuthorizePost closes the page; what follows is OAuthTokens.
GrantsCode(h) ==
  LET q == task[h].request
  IN /\ Is(h, "grant") /\ task[h].kind = "client"
     /\ pages' = Without(pages, q)
     /\ Return(h)
     /\ UNCHANGED <<now, doc, flowVars, pastVars>>

SignInStep(h) ==
  \/ \E q \in Request : \/ \E address \in Address, client \in Network : PostsAddress(h, q, address, client)
                        \/ PostsRightCode(h, q)
  \/ Issues(h) \/ Sends(h) \/ GrantsCode(h)

SignInNext ==
  \/ Tick
  \/ \E q \in Request, kind \in Kinds : OpensPage(q, kind)
  \/ \E q \in Request, n \in Codes : PostsWrongCode(q, n)
  \/ \E h \in Handler : SignInStep(h)

-----------------------------------------------------------------------------
(* Properties.                                                              *)

SignInTypeOK ==
  /\ now \in 0..MaxTime /\ doc \in State
  /\ Range(pages) \subseteq Page /\ DOMAIN pages \subseteq opened
  /\ log \subseteq Asked /\ total \subseteq Delivery
  /\ Range(entries) \subseteq Entry /\ DOMAIN entries \subseteq opened
  /\ Range(sent) \subseteq Nat /\ DOMAIN sent \subseteq opened
  /\ made \in Seq(Made) /\ mails \subseteq Mail /\ signIns \subseteq Accepted
  /\ opened \subseteq Request

\* The codes asked for in the hour that ends at a time.
InHour(t) == {n \in DOMAIN made : t < made[n].at + Hour /\ made[n].at <= t}

(* "At most one per address per minute, a bounded number per address per   *)
(* hour, a bounded number per client network address per hour": for every  *)
(* hour, wherever it begins, and however requests for different pages      *)
(* interleave.                                                             *)
CodesWithinLimits ==
  /\ \A n, m \in DOMAIN made :
       n # m /\ made[n].address = made[m].address =>
         made[n].at + AddrInterval <= made[m].at \/ made[m].at + AddrInterval <= made[n].at
  /\ \A t \in 0..now, n \in DOMAIN made :
       /\ Cardinality({m \in InHour(t) : made[m].address = made[n].address}) <= AddrPerHour
       /\ Cardinality({m \in InHour(t) : made[m].client = made[n].client}) <= ClientPerHour

(* Wrong codes are counted per code while fresh codes set the count back:  *)
(* even so the codes of an address can be guessed at no more than          *)
(* AddrPerHour * MaxAttempts times for those made in any hour.             *)
Guesses(codes) == UNION {{n} \X (1..made[n].wrong) : n \in codes}
GuessesBounded ==
  \A t \in 0..now, a \in AccountId :
    Cardinality(Guesses({n \in InHour(t) : made[n].account = a})) <= AddrPerHour * MaxAttempts

(* A sign-in goes back to a mail to the account's own address, for the     *)
(* same request, with the last code made for it and while guesses are left, *)
(* and no code does it twice.                                              *)
SignInNeedsMail ==
  \A s \in signIns :
    /\ \E m \in mails : m.number = s.number /\ m.key.request = s.request
    /\ made[s.number].account = s.account /\ made[s.number].request = s.request
    /\ made[s.number].wrong < MaxAttempts
    /\ \A n \in s.number + 1 .. s.after : made[n].request # s.request
    /\ \A o \in signIns : o.number = s.number => o = s
=============================================================================
