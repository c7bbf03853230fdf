----------------------------- MODULE Workspace -----------------------------
(***************************************************************************)
(* The Google Workspace session of the gate (gate/workspace.go,            *)
(* workspace_users.go, mailbox_auth.go): one asset's authentication, the   *)
(* three bootstrap reads that bind the declared domain to a customer, the  *)
(* inventories reads are admitted from, and the tokens of the optional     *)
(* surfaces, one of which signs in as one mailbox after another.           *)
(*                                                                         *)
(* Gate.Send holds workspaceMu for a whole Workspace call, so there is one *)
(* call at a time; but time passes within it, while its token exchange and *)
(* then the read itself are on their way. A call is admitted (Attach...),  *)
(* may ask Google for a token (pc = "exchange"), is sent (pc = "send") and *)
(* answered. A retry is a further call of the same op. A call that bind or *)
(* attachWorkspace refuses without changing the session is no step.        *)
(*                                                                         *)
(* Abstracted: a customer id is the authentication it was read with; a     *)
(* domain list is the state of each name; a user is a member of Users with *)
(* the status the list gave it; what the rest of the admission does to a   *)
(* request is in Gate.tla. The environment's settings do not change during *)
(* a process, so the credential_changed check never fires.                 *)
(***************************************************************************)
EXTENDS Integers, FiniteSets, Sequences

CONSTANTS
    Users, Subject,     \* accounts; the one the service account acts as
    ServiceAccount,     \* the credential is a service account's
    Selected,           \* the optional surfaces the profile selects
    Names, Root,        \* domain names, the declared one
    DomainOf,           \* the domain of each account's primary address
    DomainLists,        \* what the domains read may answer
    AliasLists,         \* what the aliases read may answer
    UserPages,          \* what a page of users may hold
    From, Until,        \* the mailbox approval is current on [From, Until)
    Cap,                \* mailboxExchangeCap, 1000 in the code
    BreakerFirst,       \* 5 in the code
    BreakerInARow,      \* 20 in the code
    MaxPages,           \* List.MaxPages, 10 in the code
    MaxLife,            \* bound: how long a token lasts
    MaxTime, MaxAuths,  \* bounds: time, authentications
    None

Surfaces  == {"oauth", "mail"}
Bootstrap == {"customer", "domains", "aliases"}
UserOps   == {"delegated", "detail"} \cup Surfaces
Ops       == Bootstrap \cup {"units", "users", "more"} \cup UserOps
Times     == 0 .. MaxTime
Auths     == 1 .. MaxAuths
States    == {"absent", "verified", "unverified"}
Statuses  == {"absent", "active", "inactive", "excluded"}
Aliases   == [name : Names, parent : Names, state : {"verified", "unverified"}]

ASSUME ConstantsAssumption ==
    /\ Subject \in Users
    /\ ServiceAccount \in BOOLEAN
    /\ Selected \subseteq Surfaces
    /\ Root \in Names
    /\ DomainOf \in [Users -> Names]
    /\ DomainLists \subseteq [Names -> States]
    /\ AliasLists \subseteq SUBSET Aliases
    /\ UserPages \subseteq [Users -> Statuses]
    /\ From \in Nat /\ Until \in Nat
    /\ Cap \in Nat \ {0} /\ BreakerFirst \in Nat \ {0} /\ BreakerInARow \in Nat \ {0}
    /\ MaxPages \in Nat \ {0} /\ MaxLife \in Nat /\ MaxTime \in Nat /\ MaxAuths \in Nat
    /\ None \notin Users /\ None \notin Auths

ASSUME NoneAssumption ==
    /\ None \notin [auth : Auths, expires : Nat]
    /\ None \notin {"authorization", "stopped"}

VARIABLES
    now,      \* the gate's clock
    session,  \* the workspaceSession
    pc,       \* the call: "idle", "exchange" or "send"
    call,     \* its op and user
    cred,     \* the credential it carries: [auth, user, checked]
    auths,    \* authentications so far
    asked,    \* history: the mailbox sign-ins sent to Google: whose, and when
              \* the exchange's admission checked the approval
    signIns   \* history: how many they were

vars == <<now, session, pc, call, cred, auths, asked, signIns>>

\* An optional surface under a new binding. tried and ended are history: the
\* outcomes of the sign-ins that were sent, and whether the surface was ended.
Fresh == [tokens |-> [k \in Users \cup {None} |-> None], failure |-> None,
          attempts |-> 0, failedInARow |-> 0, succeeded |-> FALSE,
          tried |-> <<>>, ended |-> FALSE]

NoUsers == [seen |-> [u \in Users |-> "absent"], bad |-> FALSE, complete |-> FALSE, page |-> 0]

Init ==
    /\ now = 0
    /\ session = [credential |-> None, expired |-> FALSE, customer |-> None,
                  domains |-> None, aliases |-> {}, bound |-> FALSE, units |-> FALSE,
                  list |-> NoUsers, principal |-> None,
                  optional |-> [f \in Surfaces |-> Fresh],
                  exchanges |-> 0, actedAs |-> {}]
    /\ pc = "idle" /\ call = None /\ cred = None
    /\ auths = 0
    /\ asked = {} /\ signIns = 0

-----------------------------------------------------------------------------
(* The session.                                                            *)

\* unbind: no optional token or remembered failure outlives the binding.
Unbind(s) == [s EXCEPT !.bound = FALSE, !.optional = [f \in Surfaces |-> Fresh]]

\* Mutant: the binding stays.
DropCredential(s) == [s EXCEPT !.credential = None]

\* dropAuth: authentication and binding go together.
DropAuth(s) == [Unbind(s) EXCEPT !.credential = None]

\* A new inventory has to be read: no pages, no complete list, no principal.
ForgetUsers(s) == [s EXCEPT !.list.complete = FALSE, !.list.page = 0, !.principal = None]

Live(s) == s.credential # None /\ now < s.credential.expires

\* What attachWorkspace forgets before a bootstrap read is admitted.
Reset(o, s) ==
    CASE o = "customer" ->
            [Unbind(s) EXCEPT !.customer = None, !.domains = None, !.aliases = {},
                              !.units = FALSE, !.list = NoUsers, !.principal = None,
                              !.expired = FALSE]
      [] o = "domains" -> [Unbind(ForgetUsers(s)) EXCEPT !.domains = None, !.aliases = {}]
      [] o = "aliases" -> Unbind(ForgetUsers(s))
      [] OTHER -> s

\* bindParams: the gate fills the customer, the delegated account and the
\* page, and admits a user only from a complete inventory.
Admitted(u) == session.list.complete /\ session.list.seen[u] \in {"active", "inactive"}

Binds(o, u) ==
    /\ o \in Ops \ (UserOps \cup {"customer"}) => session.customer # None
    /\ o = "delegated" => ServiceAccount /\ u = Subject
    /\ IF o \in UserOps THEN u \in Users /\ Admitted(u) ELSE u = None
    /\ o = "more" => session.list.page # 0

\* attachWorkspace's first checks, which change nothing: once the token has
\* expired only bootstrap_customer goes on, and the other reads need a binding.
Reaches(o) ==
    \/ o = "customer"
    \/ ~session.expired /\ (o \in Bootstrap \/ session.bound)

Starts(o, u) == pc = "idle" /\ Binds(o, u) /\ Reaches(o)

Proceed(at, o, u) == pc' = at /\ call' = [op |-> o, user |-> u]
Halt == pc' = "idle" /\ call' = None /\ cred' = None

\* The baseline credential.
Baseline(s) == [auth |-> s.credential.auth, user |-> None, checked |-> 0]

-----------------------------------------------------------------------------
(* attachWorkspace.                                                        *)

\* Aliases are read only after the domains.
AliasesTooSoon ==
    /\ Starts("aliases", None)
    /\ session.domains = None
    /\ session' = Reset("aliases", session)
    /\ UNCHANGED <<now, pc, call, cred, auths, asked, signIns>>

\* The token is gone or has expired: so has every binding made with it.
Expire(o, u) ==
    /\ Starts(o, u) /\ o # "customer"
    /\ o = "aliases" => session.domains # None
    /\ ~Live(session)
    /\ session' = [DropAuth(Reset(o, session)) EXCEPT !.expired = TRUE]
    /\ UNCHANGED <<now, pc, call, cred, auths, asked, signIns>>

\* bootstrap_customer alone authenticates.
Authenticate ==
    /\ Starts("customer", None)
    /\ ~Live(session)
    /\ session' = DropAuth(Reset("customer", session))
    /\ Proceed("exchange", "customer", None)
    /\ UNCHANGED <<now, cred, auths, asked, signIns>>

\* The inventory a read starts over before it is sent.
Restart(o, s) ==
    CASE o = "units" -> [ForgetUsers(s) EXCEPT !.units = FALSE]
      [] o = "users" -> [s EXCEPT !.list = NoUsers, !.principal = None]
      [] o = "delegated" -> [s EXCEPT !.principal = None]
      [] OTHER -> s

\* Users are read only once the units are known.
Attach(o, u) ==
    /\ Starts(o, u) /\ o \notin Surfaces
    /\ o = "aliases" => session.domains # None
    /\ Live(session)
    /\ session' = Restart(o, Reset(o, session))
    /\ IF o \in {"users", "more"} /\ ~session.units
       THEN Halt
       ELSE Proceed("send", o, u) /\ cred' = Baseline(session)
    /\ UNCHANGED <<now, auths, asked, signIns>>

-----------------------------------------------------------------------------
(* workspaceOptionalCredential.                                            *)

Current == From <= now /\ now < Until

\* mailboxSubject, for a user of the complete inventory: the account's address
\* is in a verified domain or alias, and it is active with a mailbox.
MailboxSubject(u) ==
    /\ session.list.seen[u] = "active"
    /\ session.domains.rows[DomainOf[u]] = "verified" \/ DomainOf[u] \in session.aliases

\* The slot of a token: one per surface, or one per mailbox.
Slot(f, u) == IF f = "mail" THEN u ELSE None

\* dropMailboxTokens and the refusal, remembered for the surface.
Unapproved ==
    [session EXCEPT !.optional["mail"].tokens = Fresh.tokens,
                    !.optional["mail"].failure = "authorization"]

\* A remembered refusal is cleared once the approval is current.
Approved(f) ==
    IF f = "mail" /\ session.optional[f].failure = "authorization"
    THEN [session EXCEPT !.optional[f].failure = None]
    ELSE session

\* The read of a surface goes on to its token: selected, approved, the
\* delegated account verified, nothing remembered against it.
MayAsk(f, u, opt) ==
    /\ f = "mail" => ServiceAccount
    /\ ServiceAccount => session.principal # None
    /\ opt.failure = None
    /\ f = "mail" => MailboxSubject(u)
    /\ opt.tokens[Slot(f, u)] # None => ~opt.tokens[Slot(f, u)].failed

\* mailboxDecision refuses the read.
NotApproved(u) ==
    /\ Starts("mail", u) /\ "mail" \in Selected /\ Live(session)
    /\ ~Current
    /\ session' = Unapproved
    /\ UNCHANGED <<now, pc, call, cred, auths, asked, signIns>>

Usable(t) == t # None /\ now < t.expires

\* The read of a selected surface, approved if it is a mailbox's.
SurfaceStarts(f, u) ==
    /\ Starts(f, u) /\ f \in Selected /\ Live(session)
    /\ f = "mail" => Current

\* A read that goes no further: unverified, stopped, not its mailbox.
SurfaceHalts(f, u) ==
    /\ SurfaceStarts(f, u)
    /\ ~MayAsk(f, u, Approved(f).optional[f])
    /\ session' = Approved(f)
    /\ UNCHANGED <<now, pc, call, cred, auths, asked, signIns>>

\* The surface's cached token, or this mailbox's.
Cached(f, u) ==
    LET s == Approved(f)
        t == s.optional[f].tokens[Slot(f, u)]
    IN
    /\ SurfaceStarts(f, u)
    /\ MayAsk(f, u, s.optional[f])
    /\ Usable(t)
    /\ session' = s
    /\ Proceed("send", f, u)
    /\ cred' = [auth |-> t.auth, user |-> Slot(f, u), checked |-> now]
    /\ UNCHANGED <<now, auths, asked, signIns>>

\* The budget is spent: remembered for the surface.
CapReached(u) ==
    LET s == Approved("mail") IN
    /\ SurfaceStarts("mail", u)
    /\ MayAsk("mail", u, s.optional["mail"])
    /\ ~Usable(s.optional["mail"].tokens[u])
    /\ s.exchanges >= Cap
    /\ session' = [s EXCEPT !.optional["mail"].failure = "stopped",
                            !.optional["mail"].ended = TRUE]
    /\ UNCHANGED <<now, pc, call, cred, auths, asked, signIns>>

\* A token is asked for; or the assertion could not be signed.
Ask(f, u) ==
    LET s == Approved(f) IN
    /\ SurfaceStarts(f, u)
    /\ MayAsk(f, u, s.optional[f])
    /\ ~Usable(s.optional[f].tokens[Slot(f, u)])
    /\ f = "mail" => s.exchanges < Cap
    /\ session' = [s EXCEPT !.exchanges = IF f = "mail" THEN @ + 1 ELSE @]
    /\ \/ Proceed("exchange", f, u) /\ UNCHANGED cred
       \/ Halt
    /\ UNCHANGED <<now, auths, asked, signIns>>

-----------------------------------------------------------------------------
(* The exchanges.                                                          *)

\* The baseline token, or nothing.
Authenticated ==
    /\ pc = "exchange" /\ call.op = "customer"
    /\ \/ \E life \in 1 .. MaxLife :
            /\ auths < MaxAuths
            /\ auths' = auths + 1
            /\ session' = [session EXCEPT !.credential = [auth |-> auths + 1, expires |-> now + life]]
            /\ pc' = "send"
            /\ cred' = Baseline(session')
            /\ UNCHANGED call
       \/ Halt /\ UNCHANGED <<session, auths>>
    /\ UNCHANGED <<now, asked, signIns>>

Failed(e) == [auth |-> session.credential.auth, expires |-> e, failed |-> TRUE]

\* The optional token never outlives the authentication it extends.
Token(life) ==
    [auth |-> session.credential.auth,
     expires |-> IF session.credential.expires < now + life
                 THEN session.credential.expires ELSE now + life,
     failed |-> FALSE]

\* The exchange of a tenant-wide surface: any failure is the surface's.
SurfaceToken ==
    /\ pc = "exchange" /\ call.op = "oauth"
    /\ \/ \E life \in 1 .. MaxLife :
            /\ session' = [session EXCEPT !.optional["oauth"].tokens[None] = Token(life)]
            /\ pc' = "send"
            /\ cred' = [auth |-> session.credential.auth, user |-> None, checked |-> 0]
            /\ UNCHANGED call
       \/ /\ session' = [session EXCEPT !.optional["oauth"].tokens[None] = Failed(now),
                                        !.optional["oauth"].failure = "stopped",
                                        !.optional["oauth"].ended = TRUE]
          /\ Halt
    /\ UNCHANGED <<now, auths, asked, signIns>>

\* The admission of the exchange refuses it, the approval having ended or for
\* another reason (deadline, stopped provider): the surface's, and uncounted.
SignInRefused ==
    LET s == IF Current THEN [session EXCEPT !.optional["mail"].failure = "stopped",
                                             !.optional["mail"].ended = TRUE]
                        ELSE Unapproved
    IN
    /\ pc = "exchange" /\ call.op = "mail"
    /\ session' = [s EXCEPT !.exchanges = @ - 1, !.optional["mail"].tokens[call.user] = None]
    /\ Halt
    /\ UNCHANGED <<now, auths, asked, signIns>>

\* Mutant: only failures in a row.
TripsInARow(opt) == opt.failedInARow >= BreakerInARow

\* The breaker: a binding's first sign-ins all failed, or many in a row.
Trips(opt) ==
    \/ ~opt.succeeded /\ opt.attempts >= BreakerFirst
    \/ opt.failedInARow >= BreakerInARow

\* mailboxOutcome.
Outcome(opt, kind) ==
    CASE kind = "token" -> [opt EXCEPT !.succeeded = TRUE, !.failedInARow = 0]
      [] kind = "surface" -> [opt EXCEPT !.failure = "stopped", !.ended = TRUE]
      [] OTHER ->
            LET o == [opt EXCEPT !.failedInARow = @ + 1] IN
            IF Trips(o) THEN [o EXCEPT !.failure = "stopped", !.ended = TRUE] ELSE o

\* Mutant: only an answered sign-in counts as acting as the mailbox.
ActedOn(u, kind, left) == IF kind = "unanswered" THEN {} ELSE {u}

\* Google was asked to act as this mailbox, answered or not; so the code
\* takes every decision that is not a refusal, the ones before the send line
\* (dns_error, audit_failed; left is FALSE) among them.
ActedAs(u, kind, left) == {u}

\* The sign-in was not refused: Google answered with a token, or failed the
\* surface (scope, rate limit) or the mailbox, or did not answer.
SignIn(kind, left, life) ==
    LET u == call.user
        t == IF kind = "token" THEN Token(life) ELSE Failed(now)
        opt == [session.optional["mail"] EXCEPT
                    !.tokens[u] = t,
                    !.attempts = @ + 1,
                    !.tried = IF left THEN Append(@, kind = "token") ELSE @]
    IN
    /\ pc = "exchange" /\ call.op = "mail"
    /\ Current
    /\ asked' = IF left THEN asked \cup {[user |-> u, at |-> now]} ELSE asked
    /\ signIns' = IF left THEN signIns + 1 ELSE signIns
    /\ session' = [session EXCEPT !.optional["mail"] = Outcome(opt, kind),
                                  !.actedAs = @ \cup ActedAs(u, kind, left)]
    /\ IF kind = "token"
       THEN /\ pc' = "send"
            /\ cred' = [auth |-> session.credential.auth, user |-> u, checked |-> now]
            /\ UNCHANGED call
       ELSE Halt
    /\ UNCHANGED <<now, auths>>

\* An issued token that is no longer usable fails like any other.
SignedIn ==
    \/ \E life \in 1 .. MaxLife : SignIn("token", TRUE, life)
    \/ \E kind \in {"surface", "mailbox", "unanswered"} : SignIn(kind, TRUE, 0)
    \/ SignIn("unanswered", FALSE, 0)

-----------------------------------------------------------------------------
(* The answers.                                                            *)

Answered == pc = "send" /\ Halt /\ UNCHANGED <<now, auths, asked, signIns>>

\* Nothing usable came back, and what the read was for stays as it was: a
\* failed bootstrap read unbinds.
NoAnswer ==
    /\ Answered
    /\ \/ session' = session
       \/ call.op \in Bootstrap /\ session' = Unbind(session)

\* 401.
Unauthorized ==
    /\ Answered
    /\ session' = DropAuth(session)

\* The credential selects a customer.
CustomerRead ==
    /\ Answered /\ call.op = "customer"
    /\ session' = [session EXCEPT !.customer = cred.auth]

DomainsRead ==
    /\ Answered /\ call.op = "domains"
    /\ \E rows \in DomainLists :
        session' = [session EXCEPT !.domains = [rows |-> rows, by |-> cred.auth]]

Listed(rows) == {r.name : r \in {q \in rows : q.state = "verified"}}

\* consume, for the aliases: every alias names a verified domain, no name has
\* two aliases or the other state as a domain.
Consistent(rows) ==
    /\ \A r \in rows :
        /\ session.domains.rows[r.parent] = "verified"
        /\ session.domains.rows[r.name] \in {"absent", r.state}
    /\ \A r, q \in rows : r.name = q.name => r = q

\* The declared domain is a verified domain or a verified alias.
Matched(rows) == session.domains.rows[Root] = "verified" \/ Root \in Listed(rows)

\* The binding, or none.
AliasesRead ==
    /\ Answered /\ call.op = "aliases"
    /\ \E rows \in AliasLists :
        session' =
            IF ~Consistent(rows) THEN Unbind(session)
            ELSE IF ~Matched(rows) THEN Unbind([session EXCEPT !.aliases = Listed(rows)])
            ELSE [session EXCEPT !.aliases = Listed(rows), !.bound = TRUE]

\* A complete root tree of units.
UnitsRead ==
    /\ Answered /\ call.op = "units"
    /\ session' = [session EXCEPT !.units = TRUE]

\* pageAfter: the number of the page to follow, 0 when there is none.
PageAfter(next, n) == IF next /\ n < MaxPages THEN n + 1 ELSE 0

\* A page of users. An account that cannot be attributed, that a later page
\* reports otherwise, a cursor met before, or a page too many spoils the list.
UsersRead ==
    /\ Answered /\ call.op \in {"users", "more"}
    /\ \E items \in UserPages, next, spoilt \in BOOLEAN :
        LET l == session.list
            n == IF call.op = "users" THEN 1 ELSE l.page
            conflict == \E u \in Users : "absent" \notin {l.seen[u], items[u]} /\ l.seen[u] # items[u]
            bad == l.bad \/ conflict \/ spoilt \/ (next /\ n = MaxPages)
            done == ~next /\ ~bad
        IN
        session' =
            [session EXCEPT
                !.list = [seen |-> [u \in Users |-> IF items[u] = "absent" THEN l.seen[u] ELSE items[u]],
                          bad |-> bad, complete |-> done,
                          page |-> PageAfter(next, n)],
                !.principal = IF done THEN @ ELSE None]

\* workspaceDetail: one account as the inventory has it, or not.
DetailRead ==
    /\ Answered /\ call.op \in {"detail", "delegated"}
    /\ \/ session' = [session EXCEPT !.principal = None]
       \/ session' = [session EXCEPT !.principal = IF call.op = "delegated" THEN call.user ELSE @]

\* The API is off in the credential's project.
MailDisabled ==
    /\ Answered /\ call.op = "mail"
    /\ session' = [session EXCEPT !.optional["mail"].failure = "stopped",
                                  !.optional["mail"].ended = TRUE]

-----------------------------------------------------------------------------
Tick ==
    /\ now < MaxTime
    /\ now' = now + 1
    /\ UNCHANGED <<session, pc, call, cred, auths, asked, signIns>>

Attaching ==
    \/ AliasesTooSoon \/ Authenticate
    \/ \E o \in Ops, u \in Users \cup {None} : Expire(o, u) \/ Attach(o, u)
    \/ \E u \in Users : NotApproved(u) \/ CapReached(u)
    \/ \E f \in Surfaces, u \in Users : SurfaceHalts(f, u) \/ Cached(f, u) \/ Ask(f, u)

Exchanging == Authenticated \/ SurfaceToken \/ SignInRefused \/ SignedIn

Answering ==
    \/ NoAnswer \/ Unauthorized \/ CustomerRead \/ DomainsRead \/ AliasesRead
    \/ UnitsRead \/ UsersRead \/ DetailRead \/ MailDisabled

Next == Attaching \/ Exchanging \/ Answering \/ Tick

Spec == Init /\ [][Next]_vars

-----------------------------------------------------------------------------
(* Properties.                                                             *)

Tokens == [auth : Auths, expires : Nat, failed : BOOLEAN]

\* The type of the session and of the call (workspaceSession,
\* workspaceOptional, workspaceToken).
TypeOK ==
    /\ now \in Times
    /\ session.credential \in [auth : Auths, expires : Nat] \cup {None}
    /\ session.expired \in BOOLEAN /\ session.bound \in BOOLEAN /\ session.units \in BOOLEAN
    /\ session.customer \in Auths \cup {None}
    /\ session.domains \in [rows : [Names -> States], by : Auths] \cup {None}
    /\ session.aliases \subseteq Names
    /\ session.list \in [seen : [Users -> Statuses], bad : BOOLEAN, complete : BOOLEAN, page : 0 .. MaxPages]
    /\ session.principal \in Users \cup {None}
    /\ \A f \in Surfaces :
        /\ \A k \in Users \cup {None} : session.optional[f].tokens[k] \in Tokens \cup {None}
        /\ session.optional[f].failure \in {None, "authorization", "stopped"}
        /\ session.optional[f].failedInARow \in 0 .. session.optional[f].attempts
    /\ session.actedAs \subseteq Users
    /\ pc \in {"idle", "exchange", "send"}
    /\ call \in [op : Ops, user : Users \cup {None}] \cup {None}
    /\ cred \in [auth : Auths, user : Users \cup {None}, checked : Times] \cup {None}
    /\ auths \in 0 .. MaxAuths

\* A binding is one authentication's: the token held now is the one that read
\* the customer and the domains, and the declared domain is verified there. No
\* path of expiry, 401, failed or repeated bootstrap reads mixes the evidence
\* of two tokens (workspace.go attachWorkspace: "Expiry never preserves a
\* tenant authorization established with an earlier token").
BindingOneToken ==
    session.bound =>
        /\ session.credential # None
        /\ session.customer = session.credential.auth
        /\ session.domains # None /\ session.domains.by = session.credential.auth
        /\ session.domains.rows[Root] = "verified" \/ Root \in session.aliases

\* A read of the tenant is sent only under a binding, with a token of the
\* authentication that made it: the baseline's, or an optional one asked for
\* under it.
ReadsBound ==
    (pc = "send" /\ call.op \notin Bootstrap) =>
        session.bound /\ session.credential # None /\ cred.auth = session.credential.auth

\* An optional token lasts no longer than the authentication it extends, and
\* is not kept for another one (workspaceOptionalCredential's last step, unbind).
TokensExtend ==
    \A f \in Surfaces, k \in Users \cup {None} :
        LET t == session.optional[f].tokens[k] IN
        (t # None /\ ~t.failed) =>
            /\ session.credential # None
            /\ t.auth = session.credential.auth
            /\ t.expires <= session.credential.expires

\* One authentication's evidence: the types, the binding, the reads sent under
\* it and the tokens that extend it, over every order of expiry, 401, failed
\* and repeated reads (workspace.go attachWorkspace, dropAuth, unbind).
OneAuthentication == TypeOK /\ BindingOneToken /\ ReadsBound /\ TokensExtend

\* scheck signs in as a mailbox, and reads it, only while the approval is
\* current, with that mailbox's own token, for an active account of the
\* current complete inventory in a verified domain, the delegated account
\* verified; a token cached under an earlier inventory or approval included
\* (workspaceOptionalCredential, mailboxDecision, mailboxSubject).
SignInAdmitted ==
    /\ \A a \in asked : From <= a.at /\ a.at < Until
    /\ (pc \in {"exchange", "send"} /\ call.op = "mail") =>
        /\ session.list.complete /\ session.list.seen[call.user] = "active"
        /\ LET d == DomainOf[call.user] IN
           session.domains.rows[d] = "verified" \/ d \in session.aliases
        /\ session.principal # None
        /\ pc = "send" => /\ cred.user = call.user
                          /\ From <= cred.checked /\ cred.checked < Until

\* Every sign-in that was sent counts against the session's budget, over all
\* its bindings, and the budget is never passed (mailboxExchangeCap).
SignInsCounted == signIns <= session.exchanges /\ session.exchanges <= Cap

LastFailed(t, n) == Len(t) >= n /\ \A i \in Len(t) - n + 1 .. Len(t) : ~t[i]

\* No mailbox is signed in as once the breaker's condition holds of the
\* sign-ins sent under the binding (breakerFirst, breakerInARow), nor once the
\* surface was ended by a refused scope, a rate limit, the budget or a
\* disabled API.
SurfaceStops ==
    (pc = "exchange" /\ call.op \in Surfaces) =>
        LET opt == session.optional[call.op] IN
        /\ ~opt.ended
        /\ ~LastFailed(opt.tried, BreakerInARow)
        /\ ~(Len(opt.tried) >= BreakerFirst /\ \A i \in 1 .. BreakerFirst : ~opt.tried[i])

\* What the mailbox sign-ins answer for: admitted each time, within the budget,
\* none after the surface stopped (workspaceOptionalCredential, mailbox_auth.go).
SignInsHold == SignInAdmitted /\ SignInsCounted /\ SurfaceStops

\* Every mailbox a sign-in was sent for is among those scheck says it acted
\* as, whatever the exchange then did (gate.go ActedAsMailbox).
ActedAsComplete == {a.user : a \in asked} \subseteq session.actedAs
=============================================================================
