-------------------------- MODULE CollectorProofs ---------------------------
(***************************************************************************)
(* Proofs about what three collectors' evidence is worth.  Workspace.tla:  *)
(* for any accounts, domains, inventories, budgets and approval window,    *)
(* whatever expires, fails or is read again, a binding is one              *)
(* authentication's, a mailbox is signed in as only when it may be, and    *)
(* every sign-in sent is one scheck says it made.  GitHubAccess.tla: for   *)
(* any organizations, people, bounds and cuts of the listings, what the    *)
(* identity and repository rules conclude of a part holds of the whole.    *)
(* WebRules.tla: for any sites and any losses of their reads, so does what *)
(* the name, takeover, TLS and page rules conclude.                        *)
(***************************************************************************)
EXTENDS Workspace, GitHubAccess, WebRules, FiniteSetTheorems, TLAPS

-----------------------------------------------------------------------------
(* The inductive invariant.                                                *)

Optionals == [tokens : [Users \cup {None} -> Tokens \cup {None}],
              failure : {None, "authorization", "stopped"},
              attempts : Nat, failedInARow : Nat, succeeded : BOOLEAN,
              tried : Seq(BOOLEAN), ended : BOOLEAN]
Lists == [seen : [Users -> Statuses], bad : BOOLEAN, complete : BOOLEAN, page : 0 .. MaxPages]
Sessions == [credential : [auth : Auths, expires : Nat] \cup {None}, expired : BOOLEAN,
             customer : Auths \cup {None},
             domains : [rows : [Names -> States], by : Auths] \cup {None},
             aliases : SUBSET Names, bound : BOOLEAN, units : BOOLEAN, list : Lists,
             principal : Users \cup {None}, optional : [Surfaces -> Optionals],
             exchanges : Nat, actedAs : SUBSET Users]
Calls == [op : Ops, user : Users \cup {None}]
Creds == [auth : Auths, user : Users \cup {None}, checked : Times]

\* What the session holds was read with the token it holds: the customer, the
\* domains, and the optional tokens.
Extends(s, t) ==
    (t # None /\ ~t.failed) =>
        s.credential # None /\ t.auth = s.credential.auth /\ t.expires <= s.credential.expires
RootVerified(s) == s.domains.rows[Root] = "verified" \/ Root \in s.aliases
SameToken(s) ==
    /\ (s.customer # None /\ s.credential # None) => s.customer = s.credential.auth
    /\ (s.domains # None /\ s.credential # None) => s.domains.by = s.credential.auth
    /\ s.bound => s.credential # None /\ s.customer # None /\ s.domains # None /\ RootVerified(s)
    /\ \A f \in Surfaces, k \in Users \cup {None} : Extends(s, s.optional[f].tokens[k])

\* The breaker's condition, read off the sign-ins that were sent.
Tripped(tried) ==
    \/ LastFailed(tried, BreakerInARow)
    \/ Len(tried) >= BreakerFirst /\ \A i \in 1 .. BreakerFirst : ~tried[i]

\* The breaker's counters cover the sign-ins that were sent, and a surface that
\* was ended is remembered as such until the approval's window is over.
Counts(o) ==
    /\ o.failedInARow <= o.attempts /\ Len(o.tried) <= o.attempts
    /\ ~o.ended =>
        /\ ~Tripped(o.tried)
        /\ \A n \in Nat : LastFailed(o.tried, n) => n <= o.failedInARow
    /\ o.succeeded => \E i \in 1 .. Len(o.tried) : o.tried[i]
Kept(f, o, t) ==
    /\ Counts(o)
    /\ o.ended => o.failure = "stopped" \/ (f = "mail" /\ Until <= t)
    /\ o.ended /\ f = "mail" => From <= t
    /\ o.failure = "authorization" => f = "mail"

Sound(s, t) == s \in Sessions /\ SameToken(s) /\ \A f \in Surfaces : Kept(f, s.optional[f], t)

\* The call that is on its way.
Unread(s) ==
    /\ s.credential = None /\ s.customer = None /\ s.domains = None /\ ~s.bound
    /\ s.optional = [f \in Surfaces |-> Fresh]
AsMailbox(s, u) ==
    /\ s.list.complete /\ s.list.seen[u] = "active" /\ s.principal # None
    /\ s.domains.rows[DomainOf[u]] = "verified" \/ DomainOf[u] \in s.aliases
InCall ==
    /\ pc \in {"idle", "exchange", "send"}
    /\ pc = "idle" => call = None /\ cred = None
    /\ pc # "idle" => call \in Calls /\ (call.op \in UserOps => call.user \in Users)
    /\ pc = "exchange" => cred = None /\ call.op \in {"customer"} \cup Surfaces
    /\ pc = "send" => cred \in Creds /\ session.credential # None /\ cred.auth = session.credential.auth
    /\ (pc = "exchange" /\ call.op = "customer") => Unread(session)
    /\ (pc = "send" /\ call.op \in Bootstrap) => ~session.bound
    /\ (pc = "send" /\ call.op = "aliases") => session.customer # None /\ session.domains # None
    /\ (pc # "idle" /\ call.op \notin Bootstrap) => session.bound
    /\ (pc = "exchange" /\ call.op \in Surfaces) => ~session.optional[call.op].ended
    /\ (pc # "idle" /\ call.op = "mail") => AsMailbox(session, call.user) /\ From <= now
    /\ (pc = "send" /\ call.op = "mail") =>
          cred.user = call.user /\ From <= cred.checked /\ cred.checked < Until

\* Every sign-in that was sent is within the budget, admitted and owned up to.
Asking == IF pc = "exchange" /\ call.op = "mail" THEN 1 ELSE 0
Budget ==
    /\ signIns \in Nat /\ signIns + Asking <= session.exchanges /\ session.exchanges <= Cap
    /\ \A a \in asked : From <= a.at /\ a.at < Until
    /\ {a.user : a \in asked} \subseteq session.actedAs

IInv == now \in Times /\ auths \in 0 .. MaxAuths /\ Sound(session, now) /\ InCall /\ Budget

-----------------------------------------------------------------------------
(* What the session's helpers do to it.                                    *)

LEMMA SurfaceNames == "oauth" \in Surfaces /\ "mail" \in Surfaces /\ \A f \in Surfaces : f = "oauth" \/ f = "mail"
BY DEF Surfaces

\* A surface that was never asked for anything.
LEMMA FreshKept ==
    /\ Fresh \in Optionals /\ \A k \in Users \cup {None} : Fresh.tokens[k] = None
    /\ \A f, t : Kept(f, Fresh, t)
<1>1. /\ Fresh \in Optionals /\ \A k \in Users \cup {None} : Fresh.tokens[k] = None
      /\ Fresh.attempts = 0 /\ Fresh.failedInARow = 0 /\ ~Fresh.succeeded /\ Fresh.tried = <<>> /\ ~Fresh.ended
      /\ Fresh.failure = None
  BY DEF Fresh, Optionals
<1>2. Len(Fresh.tried) = 0
  BY <1>1
<1>3. ~Tripped(Fresh.tried) /\ \A n \in Nat : LastFailed(Fresh.tried, n) => n <= 0
  BY <1>2, ConstantsAssumption DEF Tripped, LastFailed, ConstantsAssumption
<1> QED
  BY <1>1, <1>2, <1>3, NoneAssumption DEF Kept, Counts, NoneAssumption

\* The binding and what was made under it go; nothing else does.
LEMMA UnbindFacts ==
    ASSUME NEW s \in Sessions
    PROVE  /\ Unbind(s) \in Sessions
           /\ Unbind(s).credential = s.credential /\ Unbind(s).expired = s.expired
           /\ Unbind(s).customer = s.customer /\ Unbind(s).domains = s.domains
           /\ Unbind(s).aliases = s.aliases /\ Unbind(s).units = s.units /\ Unbind(s).list = s.list
           /\ Unbind(s).principal = s.principal /\ Unbind(s).exchanges = s.exchanges
           /\ Unbind(s).actedAs = s.actedAs
           /\ ~Unbind(s).bound /\ Unbind(s).optional = [f \in Surfaces |-> Fresh]
BY FreshKept DEF Unbind, Sessions

LEMMA DropAuthFacts ==
    ASSUME NEW s \in Sessions
    PROVE  /\ DropAuth(s) \in Sessions
           /\ DropAuth(s).credential = None
           /\ DropAuth(s).customer = s.customer /\ DropAuth(s).domains = s.domains
           /\ DropAuth(s).exchanges = s.exchanges /\ DropAuth(s).actedAs = s.actedAs
           /\ ~DropAuth(s).bound /\ DropAuth(s).optional = [f \in Surfaces |-> Fresh]
<1>1. DropAuth(s) = [Unbind(s) EXCEPT !.credential = None]
  BY DEF DropAuth
<1> QED
  BY <1>1, UnbindFacts DEF Sessions

LEMMA ForgetUsersFacts ==
    ASSUME NEW s \in Sessions
    PROVE  /\ ForgetUsers(s) \in Sessions
           /\ ForgetUsers(s).credential = s.credential /\ ForgetUsers(s).customer = s.customer
           /\ ForgetUsers(s).domains = s.domains /\ ForgetUsers(s).aliases = s.aliases
           /\ ForgetUsers(s).bound = s.bound /\ ForgetUsers(s).optional = s.optional
           /\ ForgetUsers(s).exchanges = s.exchanges /\ ForgetUsers(s).actedAs = s.actedAs
<1>1. 0 \in 0 .. MaxPages
  BY ConstantsAssumption DEF ConstantsAssumption
<1>2. /\ ForgetUsers(s).list = [s.list EXCEPT !.complete = FALSE, !.page = 0]
      /\ ForgetUsers(s).principal = None
  BY DEF ForgetUsers, Sessions
<1>3. [s.list EXCEPT !.complete = FALSE, !.page = 0] \in Lists
  BY <1>1 DEF Sessions, Lists
<1> QED
  BY <1>2, <1>3 DEF ForgetUsers, Sessions

LEMMA NoUsersTyped == NoUsers \in Lists
BY ConstantsAssumption DEF NoUsers, Lists, Statuses, ConstantsAssumption

LEMMA ResetFacts ==
    ASSUME NEW s \in Sessions, NEW o \in Ops
    PROVE  /\ Reset(o, s) \in Sessions
           /\ Reset(o, s).credential = s.credential
           /\ Reset(o, s).exchanges = s.exchanges /\ Reset(o, s).actedAs = s.actedAs
           /\ o \in Bootstrap => ~Reset(o, s).bound /\ Reset(o, s).optional = [f \in Surfaces |-> Fresh]
           /\ o \notin Bootstrap => Reset(o, s) = s
           /\ o = "customer" => Reset(o, s).customer = None /\ Reset(o, s).domains = None
           /\ o = "domains" => Reset(o, s).customer = s.customer /\ Reset(o, s).domains = None
           /\ o = "aliases" => Reset(o, s).customer = s.customer /\ Reset(o, s).domains = s.domains
<1>1. CASE o = "customer"
  <2> DEFINE m == Unbind(s)
  <2>1. Reset(o, s) = [m EXCEPT !.customer = None, !.domains = None, !.aliases = {},
                              !.units = FALSE, !.list = NoUsers, !.principal = None,
                              !.expired = FALSE]
    BY <1>1 DEF Reset
  <2>2. m \in Sessions
    BY UnbindFacts
  <2>3. /\ m.credential = s.credential
        /\ m.exchanges = s.exchanges /\ m.actedAs = s.actedAs
        /\ ~m.bound /\ m.optional = [f \in Surfaces |-> Fresh]
    BY UnbindFacts
  <2> HIDE DEF m
  <2>4. /\ Reset(o, s) \in Sessions /\ Reset(o, s).domains = None /\ Reset(o, s).customer = None
        /\ Reset(o, s).credential = m.credential
        /\ Reset(o, s).exchanges = m.exchanges /\ Reset(o, s).actedAs = m.actedAs
        /\ Reset(o, s).bound = m.bound /\ Reset(o, s).optional = m.optional
    BY <2>1, <2>2, NoUsersTyped DEF Sessions
  <2> QED
    BY <1>1, <2>3, <2>4 DEF Bootstrap
<1>2. CASE o = "domains"
  <2> DEFINE m == Unbind(ForgetUsers(s))
  <2>1. Reset(o, s) = [m EXCEPT !.domains = None, !.aliases = {}]
    BY <1>2 DEF Reset
  <2>2. m \in Sessions
    BY ForgetUsersFacts, UnbindFacts
  <2>3. /\ m.credential = s.credential /\ m.customer = s.customer
        /\ m.exchanges = s.exchanges /\ m.actedAs = s.actedAs
        /\ ~m.bound /\ m.optional = [f \in Surfaces |-> Fresh]
    BY ForgetUsersFacts, UnbindFacts
  <2> HIDE DEF m
  <2>4. /\ Reset(o, s) \in Sessions /\ Reset(o, s).domains = None
        /\ Reset(o, s).credential = m.credential /\ Reset(o, s).customer = m.customer
        /\ Reset(o, s).exchanges = m.exchanges /\ Reset(o, s).actedAs = m.actedAs
        /\ Reset(o, s).bound = m.bound /\ Reset(o, s).optional = m.optional
    BY <2>1, <2>2 DEF Sessions
  <2> QED
    BY <1>2, <2>3, <2>4 DEF Bootstrap
<1>3. CASE o = "aliases"
  <2>1. Reset(o, s) = Unbind(ForgetUsers(s))
    BY <1>3 DEF Reset
  <2> QED
    BY <1>3, <2>1, ForgetUsersFacts, UnbindFacts DEF Bootstrap
<1>4. CASE o \notin Bootstrap
  BY <1>4 DEF Reset, Bootstrap
<1> QED
  BY <1>1, <1>2, <1>3, <1>4 DEF Bootstrap

LEMMA RestartFacts ==
    ASSUME NEW s \in Sessions, NEW o
    PROVE  /\ Restart(o, s) \in Sessions
           /\ Restart(o, s).credential = s.credential /\ Restart(o, s).customer = s.customer
           /\ Restart(o, s).domains = s.domains /\ Restart(o, s).aliases = s.aliases
           /\ Restart(o, s).bound = s.bound /\ Restart(o, s).optional = s.optional
           /\ Restart(o, s).exchanges = s.exchanges /\ Restart(o, s).actedAs = s.actedAs
<1>1. CASE o = "units"
  <2>1. Restart(o, s) = [ForgetUsers(s) EXCEPT !.units = FALSE]
    BY <1>1 DEF Restart
  <2> QED
    BY <2>1, ForgetUsersFacts DEF Sessions
<1>2. CASE o = "users"
  <2>1. Restart(o, s) = [s EXCEPT !.list = NoUsers, !.principal = None]
    BY <1>2 DEF Restart
  <2> QED
    BY <2>1, NoUsersTyped DEF Sessions
<1>3. CASE o = "delegated"
  <2>1. Restart(o, s) = [s EXCEPT !.principal = None]
    BY <1>3 DEF Restart
  <2> QED
    BY <2>1 DEF Sessions
<1>4. CASE o \notin {"units", "users", "delegated"}
  BY <1>4 DEF Restart
<1> QED
  BY <1>1, <1>2, <1>3, <1>4

\* A session that holds less holds nothing of another token.
LEMMA Weaker ==
    ASSUME NEW s, NEW t, Sound(s, t), NEW r \in Sessions,
           r.credential = s.credential \/ r.credential = None,
           r.customer = s.customer \/ r.customer = None,
           r.domains = s.domains \/ r.domains = None,
           r.bound => /\ s.bound /\ r.credential = s.credential /\ r.customer = s.customer
                      /\ r.domains = s.domains /\ r.aliases = s.aliases,
           \/ r.optional = [f \in Surfaces |-> Fresh]
           \/ r.optional = s.optional /\ r.credential = s.credential
    PROVE  Sound(r, t)
<1>1. \A f \in Surfaces : Kept(f, r.optional[f], t)
  BY FreshKept DEF Sound
<1>2. \A f \in Surfaces, k \in Users \cup {None} : Extends(r, r.optional[f].tokens[k])
  <2>1. CASE r.optional = [f \in Surfaces |-> Fresh]
    BY <2>1, FreshKept DEF Extends
  <2>2. CASE r.optional = s.optional /\ r.credential = s.credential
    BY <2>2 DEF Sound, SameToken, Extends
  <2> QED
    BY <2>1, <2>2
<1>3. r.bound => r.credential # None /\ r.customer # None /\ r.domains # None /\ RootVerified(r)
  BY DEF Sound, SameToken, RootVerified
<1>4. /\ (r.customer # None /\ r.credential # None) => r.customer = r.credential.auth
      /\ (r.domains # None /\ r.credential # None) => r.domains.by = r.credential.auth
  BY DEF Sound, SameToken
<1> QED
  BY <1>1, <1>2, <1>3, <1>4 DEF Sound, SameToken

-----------------------------------------------------------------------------
(* Admission preserves the invariant.                                      *)

\* What never changes but by the steps that say so.
LEMMA StepBasics ==
    ASSUME IInv
    PROVE  /\ session \in Sessions /\ now \in Nat /\ now \in Times /\ Sound(session, now)
           /\ session.exchanges \in Nat /\ Cap \in Nat /\ signIns \in Nat
           /\ Asking \in {0, 1}
BY ConstantsAssumption DEF IInv, Sound, Sessions, Times, Asking, Budget, ConstantsAssumption

\* No call is on its way.
LEMMA NoCall == ASSUME pc' = "idle", call' = None, cred' = None PROVE InCall' /\ Asking' = 0
BY DEF InCall, Asking

\* A call that is admitted without being sent leaves none on its way.
LEMMA IdleBasics == ASSUME IInv, pc = "idle" PROVE call = None /\ cred = None /\ Asking = 0
BY DEF IInv, InCall, Asking

\* A step that sends no sign-in keeps the budget.
LEMMA BudgetSame ==
    ASSUME IInv, asked' = asked, signIns' = signIns, session'.exchanges = session.exchanges,
           session.actedAs \subseteq session'.actedAs, Asking' = 0 \/ Asking' = Asking
    PROVE  Budget'
<1>1. signIns \in Nat /\ signIns + Asking <= session.exchanges /\ session.exchanges \in Nat
      /\ session.exchanges <= Cap /\ Asking \in {0, 1}
  BY StepBasics DEF IInv, Budget
<1>2. signIns' + Asking' <= session'.exchanges
  BY <1>1
<1> QED
  BY <1>1, <1>2 DEF IInv, Budget

LEMMA AliasesTooSoonStep == ASSUME IInv, AliasesTooSoon PROVE IInv'
<1>1. /\ pc = "idle" /\ session' = Reset("aliases", session)
      /\ now' = now /\ pc' = pc /\ call' = call /\ cred' = cred /\ auths' = auths
      /\ asked' = asked /\ signIns' = signIns
  BY DEF AliasesTooSoon, Starts
<1>2. "aliases" \in Ops /\ "aliases" \in Bootstrap
  BY DEF Ops, Bootstrap
<1>3. Sound(session', now)
  BY <1>1, <1>2, StepBasics, ResetFacts, Weaker
<1>4. InCall' /\ Asking' = 0
  BY <1>1, IdleBasics, NoCall
<1>5. Budget'
  BY <1>1, <1>2, <1>4, StepBasics, ResetFacts, BudgetSame
<1> QED
  BY <1>1, <1>3, <1>4, <1>5 DEF IInv

LEMMA ExpireStep == ASSUME IInv, NEW o \in Ops, NEW u, Expire(o, u) PROVE IInv'
<1> DEFINE r == Reset(o, session)
<1>1. /\ pc = "idle" /\ session' = [DropAuth(r) EXCEPT !.expired = TRUE]
      /\ now' = now /\ pc' = pc /\ call' = call /\ cred' = cred /\ auths' = auths
      /\ asked' = asked /\ signIns' = signIns
  BY DEF Expire, Starts
<1>2. /\ r \in Sessions /\ r.exchanges = session.exchanges /\ r.actedAs = session.actedAs
      /\ r.customer = session.customer \/ r.customer = None
      /\ r.domains = session.domains \/ r.domains = None
  BY StepBasics, ResetFacts DEF Bootstrap
<1> HIDE DEF r
<1>3. /\ DropAuth(r) \in Sessions /\ DropAuth(r).credential = None
      /\ DropAuth(r).customer = r.customer /\ DropAuth(r).domains = r.domains
      /\ DropAuth(r).exchanges = r.exchanges /\ DropAuth(r).actedAs = r.actedAs
      /\ ~DropAuth(r).bound /\ DropAuth(r).optional = [f \in Surfaces |-> Fresh]
  BY <1>2, DropAuthFacts
<1>4. /\ session' \in Sessions /\ session'.credential = None
      /\ session'.customer = r.customer /\ session'.domains = r.domains
      /\ session'.exchanges = r.exchanges /\ session'.actedAs = r.actedAs
      /\ ~session'.bound /\ session'.optional = [f \in Surfaces |-> Fresh]
  BY <1>1, <1>3 DEF Sessions
<1>5. Sound(session', now)
  BY <1>2, <1>4, StepBasics, Weaker
<1>6. InCall' /\ Asking' = 0
  BY <1>1, IdleBasics, NoCall
<1>7. Budget'
  BY <1>1, <1>2, <1>4, <1>6, BudgetSame
<1> QED
  BY <1>1, <1>5, <1>6, <1>7 DEF IInv

LEMMA AuthenticateStep == ASSUME IInv, Authenticate PROVE IInv'
<1> DEFINE r == Reset("customer", session)
<1>1. /\ pc = "idle" /\ session' = DropAuth(r)
      /\ pc' = "exchange" /\ call' = [op |-> "customer", user |-> None]
      /\ now' = now /\ cred' = cred /\ auths' = auths /\ asked' = asked /\ signIns' = signIns
  BY DEF Authenticate, Starts, Proceed
<1>2. "customer" \in Ops /\ "customer" \in Bootstrap /\ "customer" \notin UserOps /\ "customer" \notin Surfaces
  BY DEF Ops, Bootstrap, UserOps, Surfaces
<1>3. /\ r \in Sessions /\ r.exchanges = session.exchanges /\ r.actedAs = session.actedAs
      /\ r.customer = None /\ r.domains = None
  BY <1>2, StepBasics, ResetFacts
<1> HIDE DEF r
<1>4. /\ session' \in Sessions /\ session'.credential = None
      /\ session'.customer = None /\ session'.domains = None
      /\ session'.exchanges = r.exchanges /\ session'.actedAs = r.actedAs
      /\ ~session'.bound /\ session'.optional = [f \in Surfaces |-> Fresh]
  BY <1>1, <1>3, DropAuthFacts
<1>5. Sound(session', now)
  BY <1>4, StepBasics, Weaker
<1>6. call' \in Calls /\ cred' = None
  BY <1>1, <1>2, IdleBasics DEF Calls
<1>7. Unread(session')
  BY <1>4 DEF Unread
<1>8. InCall' /\ Asking' = 0
  BY <1>1, <1>2, <1>6, <1>7 DEF InCall, Asking
<1>9. Budget'
  BY <1>1, <1>3, <1>4, <1>8, BudgetSame
<1> QED
  BY <1>1, <1>5, <1>8, <1>9 DEF IInv

\* A token that is held.
LEMMA LiveFacts ==
    ASSUME IInv, Live(session)
    PROVE  /\ session.credential # None /\ session.credential \in [auth : Auths, expires : Nat]
           /\ session.credential.auth \in Auths /\ session.credential.expires \in Nat
           /\ Baseline(session) \in Creds /\ Baseline(session).auth = session.credential.auth
<1>1. session.credential # None /\ session.credential \in [auth : Auths, expires : Nat]
  BY StepBasics DEF Live, Sessions
<1>2. 0 \in Times
  BY ConstantsAssumption DEF Times, ConstantsAssumption
<1> QED
  BY <1>1, <1>2 DEF Baseline, Creds

LEMMA AttachStep == ASSUME IInv, NEW o \in Ops, NEW u \in Users \cup {None}, Attach(o, u) PROVE IInv'
<1> DEFINE r == Reset(o, session)
<1>1. /\ pc = "idle" /\ Binds(o, u) /\ Reaches(o) /\ o \notin Surfaces /\ Live(session)
      /\ o = "aliases" => session.domains # None
      /\ session' = Restart(o, r)
      /\ now' = now /\ auths' = auths /\ asked' = asked /\ signIns' = signIns
  BY DEF Attach, Starts
<1>2. /\ r \in Sessions /\ r.credential = session.credential
      /\ r.exchanges = session.exchanges /\ r.actedAs = session.actedAs
      /\ o \in Bootstrap => ~r.bound /\ r.optional = [f \in Surfaces |-> Fresh]
      /\ o \notin Bootstrap => r = session
      /\ r.customer = session.customer \/ r.customer = None
      /\ r.domains = session.domains \/ r.domains = None
      /\ o = "aliases" => r.customer = session.customer /\ r.domains = session.domains
  BY StepBasics, ResetFacts DEF Bootstrap
<1> HIDE DEF r
<1>3. /\ session' \in Sessions
      /\ session'.credential = r.credential /\ session'.customer = r.customer
      /\ session'.domains = r.domains /\ session'.aliases = r.aliases
      /\ session'.bound = r.bound /\ session'.optional = r.optional
      /\ session'.exchanges = r.exchanges /\ session'.actedAs = r.actedAs
  BY <1>1, <1>2, RestartFacts
<1>4. Sound(r, now)
  BY <1>2, StepBasics, Weaker
<1>5. Sound(session', now)
  BY <1>3, <1>4, Weaker
<1>6. InCall' /\ Asking' = 0
  <2>1. CASE Halt
    BY <2>1, NoCall DEF Halt
  <2>2. CASE Proceed("send", o, u) /\ cred' = Baseline(session)
    <3>1. pc' = "send" /\ call' = [op |-> o, user |-> u] /\ call'.op = o /\ call'.user = u
      BY <2>2 DEF Proceed
    <3>2. call' \in Calls /\ (o \in UserOps => u \in Users)
      BY <1>1, <3>1 DEF Calls, Binds
    <3>3. cred' \in Creds /\ session'.credential # None /\ cred'.auth = session'.credential.auth
      BY <1>1, <1>2, <1>3, <2>2, LiveFacts
    <3>4. o = "aliases" => session'.customer # None /\ session'.domains # None
      BY <1>1, <1>2, <1>3 DEF Binds, Ops, UserOps, Bootstrap, Surfaces
    <3>5. o \notin Bootstrap => session'.bound
      BY <1>1, <1>2, <1>3 DEF Reaches, Bootstrap
    <3>6. o # "mail"
      BY <1>1 DEF Surfaces
    <3> QED
      BY <1>1, <1>2, <1>3, <3>1, <3>2, <3>3, <3>4, <3>5, <3>6 DEF InCall, Asking
  <2> QED
    BY <2>1, <2>2 DEF Attach
<1>7. Budget'
  BY <1>1, <1>2, <1>3, <1>6, BudgetSame
<1> QED
  BY <1>1, <1>5, <1>6, <1>7 DEF IInv

-----------------------------------------------------------------------------
(* The optional surfaces.                                                  *)

\* One surface changes: its counters are kept, its tokens extend the session's.
LEMMA OptionalChanged ==
    ASSUME NEW s, NEW t, Sound(s, t), NEW f \in Surfaces, NEW r \in Sessions,
           r.credential = s.credential, r.customer = s.customer, r.domains = s.domains,
           r.aliases = s.aliases, r.bound = s.bound,
           \A g \in Surfaces : g # f => r.optional[g] = s.optional[g],
           Kept(f, r.optional[f], t),
           \A k \in Users \cup {None} : Extends(s, r.optional[f].tokens[k])
    PROVE  Sound(r, t)
<1>1. \A g \in Surfaces : Kept(g, r.optional[g], t)
  BY DEF Sound
<1>2. \A g \in Surfaces, k \in Users \cup {None} : Extends(r, r.optional[g].tokens[k])
  BY DEF Sound, SameToken, Extends
<1> QED
  BY <1>1, <1>2 DEF Sound, SameToken, RootVerified

\* A session with one surface replaced.
LEMMA OptionalReplaced ==
    ASSUME NEW s \in Sessions, NEW f \in Surfaces, NEW o \in Optionals
    PROVE  LET r == [s EXCEPT !.optional[f] = o] IN
           /\ r \in Sessions
           /\ r.credential = s.credential /\ r.expired = s.expired /\ r.customer = s.customer
           /\ r.domains = s.domains /\ r.aliases = s.aliases /\ r.bound = s.bound /\ r.units = s.units
           /\ r.list = s.list /\ r.principal = s.principal /\ r.exchanges = s.exchanges
           /\ r.actedAs = s.actedAs
           /\ r.optional[f] = o /\ \A g \in Surfaces : g # f => r.optional[g] = s.optional[g]
BY DEF Sessions

\* The surface's state in a session that holds.
LEMMA OptionalFacts ==
    ASSUME IInv, NEW f \in Surfaces
    PROVE  /\ session.optional[f] \in Optionals /\ Kept(f, session.optional[f], now)
           /\ \A k \in Users \cup {None} : Extends(session, session.optional[f].tokens[k])
BY StepBasics DEF Sound, SameToken, Sessions

\* A refusal that is cleared: the surface is as it was otherwise, and nothing
\* that ended it is forgotten.
LEMMA ApprovedFacts ==
    ASSUME IInv, NEW f \in Surfaces, f = "mail" => Current
    PROVE  LET s == Approved(f)
               o == s.optional[f] IN
           /\ s \in Sessions /\ Sound(s, now)
           /\ s.credential = session.credential /\ s.customer = session.customer
           /\ s.domains = session.domains /\ s.aliases = session.aliases /\ s.bound = session.bound
           /\ s.list = session.list /\ s.principal = session.principal
           /\ s.exchanges = session.exchanges /\ s.actedAs = session.actedAs
           /\ o \in Optionals /\ Kept(f, o, now)
           /\ o.failure = None => ~o.ended
           /\ \A k \in Users \cup {None} : Extends(session, o.tokens[k])
<1> DEFINE p == session.optional[f]
           q == [p EXCEPT !.failure = None]
<1>1. /\ session \in Sessions /\ Sound(session, now) /\ p \in Optionals /\ Kept(f, p, now)
      /\ \A k \in Users \cup {None} : Extends(session, p.tokens[k])
  BY StepBasics, OptionalFacts
<1>2. now \in Nat /\ Until \in Nat
  BY StepBasics, ConstantsAssumption DEF ConstantsAssumption
<1>3. p.ended => p.failure = "stopped"
  BY <1>1, <1>2 DEF Kept, Current
<1>4. CASE f = "mail" /\ p.failure = "authorization"
  <2>1. Approved(f) = [session EXCEPT !.optional[f] = q]
    BY <1>1, <1>4 DEF Approved, Sessions
  <2>2. /\ q \in Optionals /\ q.failure = None /\ q.tokens = p.tokens /\ q.attempts = p.attempts
        /\ q.failedInARow = p.failedInARow /\ q.succeeded = p.succeeded /\ q.tried = p.tried
        /\ q.ended = p.ended /\ ~p.ended
    BY <1>1, <1>3, <1>4 DEF Optionals
  <2> HIDE DEF q
  <2>3. Kept(f, q, now)
    BY <1>1, <2>2, NoneAssumption DEF Kept, Counts, NoneAssumption
  <2> HIDE DEF p
  <2>4. LET s == Approved(f) IN
        /\ s \in Sessions
        /\ s.credential = session.credential /\ s.customer = session.customer
        /\ s.domains = session.domains /\ s.aliases = session.aliases /\ s.bound = session.bound
        /\ s.list = session.list /\ s.principal = session.principal
        /\ s.exchanges = session.exchanges /\ s.actedAs = session.actedAs
        /\ s.optional[f] = q /\ \A g \in Surfaces : g # f => s.optional[g] = session.optional[g]
    BY <1>1, <2>1, <2>2, OptionalReplaced
  <2>5. Sound(Approved(f), now)
    BY <1>1, <2>2, <2>3, <2>4, OptionalChanged
  <2> QED
    BY <1>1, <2>2, <2>3, <2>4, <2>5
<1>5. CASE ~(f = "mail" /\ p.failure = "authorization")
  <2>1. Approved(f) = session
    BY <1>5 DEF Approved
  <2>2. p.failure = None => ~p.ended
    BY <1>3, NoneAssumption DEF NoneAssumption
  <2> QED
    BY <1>1, <2>1, <2>2
<1> QED
  BY <1>4, <1>5

\* dropMailboxTokens and the refusal.
LEMMA UnapprovedFacts ==
    ASSUME IInv, ~Current, session.optional["mail"].ended => From <= now
    PROVE  /\ Unapproved \in Sessions /\ Sound(Unapproved, now)
           /\ Unapproved.exchanges = session.exchanges /\ Unapproved.actedAs = session.actedAs
           /\ Unapproved.optional["mail"].tokens = Fresh.tokens
<1> DEFINE p == session.optional["mail"]
           q == [p EXCEPT !.tokens = Fresh.tokens, !.failure = "authorization"]
<1>1. /\ session \in Sessions /\ Sound(session, now) /\ p \in Optionals /\ Kept("mail", p, now)
      /\ "mail" \in Surfaces
  BY StepBasics, OptionalFacts, SurfaceNames
<1>2. now \in Nat /\ Until \in Nat /\ From \in Nat
  BY StepBasics, ConstantsAssumption DEF ConstantsAssumption
<1>3. Unapproved = [session EXCEPT !.optional["mail"] = q]
  BY <1>1 DEF Unapproved, Sessions
<1>4. /\ q \in Optionals /\ q.failure = "authorization" /\ q.tokens = Fresh.tokens /\ q.attempts = p.attempts
      /\ q.failedInARow = p.failedInARow /\ q.succeeded = p.succeeded /\ q.tried = p.tried
      /\ q.ended = p.ended
  BY <1>1, FreshKept DEF Optionals
<1> HIDE DEF q
<1>5. Kept("mail", q, now)
  <2>1. p.ended => Until <= now
    BY <1>2 DEF Current
  <2>2. Counts(q)
    BY <1>1, <1>4 DEF Kept, Counts
  <2> QED
    BY <1>1, <1>4, <2>1, <2>2 DEF Kept
<1>6. \A k \in Users \cup {None} : Extends(session, q.tokens[k])
  BY <1>4, FreshKept DEF Extends
<1> HIDE DEF p
<1>7. LET r == Unapproved IN
      /\ r \in Sessions
      /\ r.credential = session.credential /\ r.customer = session.customer
      /\ r.domains = session.domains /\ r.aliases = session.aliases /\ r.bound = session.bound
      /\ r.exchanges = session.exchanges /\ r.actedAs = session.actedAs
      /\ r.optional["mail"] = q /\ \A g \in Surfaces : g # "mail" => r.optional[g] = session.optional[g]
  BY <1>1, <1>3, <1>4, OptionalReplaced
<1>8. Sound(Unapproved, now)
  BY <1>1, <1>5, <1>6, <1>7, OptionalChanged
<1> QED
  BY <1>4, <1>7, <1>8

\* The surface is ended: remembered for the binding.
LEMMA EndedFacts ==
    ASSUME NEW s, NEW t, Sound(s, t), NEW f \in Surfaces, f = "mail" => From <= t
    PROVE  LET r == [s EXCEPT !.optional[f].failure = "stopped", !.optional[f].ended = TRUE] IN
           /\ r \in Sessions /\ Sound(r, t) /\ r.exchanges = s.exchanges /\ r.actedAs = s.actedAs
<1> DEFINE p == s.optional[f]
           q == [p EXCEPT !.failure = "stopped", !.ended = TRUE]
           r == [s EXCEPT !.optional[f].failure = "stopped", !.optional[f].ended = TRUE]
<1>1. /\ s \in Sessions /\ p \in Optionals /\ Kept(f, p, t)
      /\ \A k \in Users \cup {None} : Extends(s, p.tokens[k])
  BY DEF Sound, SameToken, Sessions
<1>2. r = [s EXCEPT !.optional[f] = q]
  BY <1>1 DEF Sessions
<1>3. /\ q \in Optionals /\ q.failure = "stopped" /\ q.tokens = p.tokens /\ q.attempts = p.attempts
      /\ q.failedInARow = p.failedInARow /\ q.succeeded = p.succeeded /\ q.tried = p.tried
      /\ q.ended
  BY <1>1 DEF Optionals
<1> HIDE DEF q, r
<1>4. Kept(f, q, t)
  BY <1>1, <1>3 DEF Kept, Counts
<1> HIDE DEF p
<1>5. /\ r \in Sessions
      /\ r.credential = s.credential /\ r.customer = s.customer
      /\ r.domains = s.domains /\ r.aliases = s.aliases /\ r.bound = s.bound
      /\ r.exchanges = s.exchanges /\ r.actedAs = s.actedAs
      /\ r.optional[f] = q /\ \A g \in Surfaces : g # f => r.optional[g] = s.optional[g]
  BY <1>1, <1>2, <1>3, OptionalReplaced
<1>6. Sound(r, t)
  BY <1>1, <1>3, <1>4, <1>5, OptionalChanged
<1> QED
  BY <1>5, <1>6 DEF r

LEMMA NotApprovedStep == ASSUME IInv, NEW u, NotApproved(u) PROVE IInv'
<1>1. /\ pc = "idle" /\ ~Current /\ session' = Unapproved
      /\ now' = now /\ pc' = pc /\ call' = call /\ cred' = cred /\ auths' = auths
      /\ asked' = asked /\ signIns' = signIns
  BY DEF NotApproved, Starts
<1>2. session.optional["mail"].ended => From <= now
  BY OptionalFacts, SurfaceNames DEF Kept
<1>3. Sound(session', now) /\ session'.exchanges = session.exchanges /\ session'.actedAs = session.actedAs
  BY <1>1, <1>2, UnapprovedFacts
<1>4. InCall' /\ Asking' = 0
  BY <1>1, IdleBasics, NoCall
<1>5. Budget'
  BY <1>1, <1>3, <1>4, BudgetSame
<1> QED
  BY <1>1, <1>3, <1>4, <1>5 DEF IInv

LEMMA SurfaceHaltsStep == ASSUME IInv, NEW f \in Surfaces, NEW u, SurfaceHalts(f, u) PROVE IInv'
<1>1. /\ pc = "idle" /\ (f = "mail" => Current) /\ session' = Approved(f)
      /\ now' = now /\ pc' = pc /\ call' = call /\ cred' = cred /\ auths' = auths
      /\ asked' = asked /\ signIns' = signIns
  BY DEF SurfaceHalts, SurfaceStarts, Starts
<1>2. Sound(session', now) /\ session'.exchanges = session.exchanges /\ session'.actedAs = session.actedAs
  BY <1>1, ApprovedFacts
<1>3. InCall' /\ Asking' = 0
  BY <1>1, IdleBasics, NoCall
<1>4. Budget'
  BY <1>1, <1>2, <1>3, BudgetSame
<1> QED
  BY <1>1, <1>2, <1>3, <1>4 DEF IInv

LEMMA CapReachedStep == ASSUME IInv, NEW u, CapReached(u) PROVE IInv'
<1> DEFINE s == Approved("mail")
<1>1. /\ pc = "idle" /\ Current
      /\ session' = [s EXCEPT !.optional["mail"].failure = "stopped", !.optional["mail"].ended = TRUE]
      /\ now' = now /\ pc' = pc /\ call' = call /\ cred' = cred /\ auths' = auths
      /\ asked' = asked /\ signIns' = signIns
  BY DEF CapReached, SurfaceStarts, Starts
<1>2. Sound(s, now) /\ s.exchanges = session.exchanges /\ s.actedAs = session.actedAs
  BY <1>1, ApprovedFacts, SurfaceNames
<1>3. From <= now
  BY <1>1 DEF Current
<1> HIDE DEF s
<1>4. Sound(session', now) /\ session'.exchanges = session.exchanges /\ session'.actedAs = session.actedAs
  BY <1>1, <1>2, <1>3, EndedFacts, SurfaceNames
<1>5. InCall' /\ Asking' = 0
  BY <1>1, IdleBasics, NoCall
<1>6. Budget'
  BY <1>1, <1>4, <1>5, BudgetSame
<1> QED
  BY <1>1, <1>4, <1>5, <1>6 DEF IInv

\* The read of a surface that goes on to its token: what its call carries.
LEMMA SurfaceCall ==
    ASSUME IInv, NEW f \in Surfaces, NEW u \in Users, SurfaceStarts(f, u), MayAsk(f, u, Approved(f).optional[f])
    PROVE  /\ pc = "idle" /\ (f = "mail" => Current /\ From <= now /\ now < Until)
           /\ session.bound /\ session.credential # None /\ ~Approved(f).optional[f].ended
           /\ f = "mail" => AsMailbox(session, u)
           /\ [op |-> f, user |-> u] \in Calls /\ f \in UserOps /\ f \notin Bootstrap /\ f # "customer"
           /\ f # "aliases"
<1>1. /\ pc = "idle" /\ Binds(f, u) /\ Reaches(f) /\ Live(session) /\ (f = "mail" => Current)
  BY DEF SurfaceStarts, Starts
<1>2. f \in UserOps /\ f \notin Bootstrap /\ f # "customer" /\ f # "aliases" /\ f \in Ops
  BY DEF Surfaces, UserOps, Bootstrap, Ops
<1>3. session.bound /\ session.credential # None
  BY <1>1, <1>2, LiveFacts DEF Reaches
<1>4. f = "mail" => AsMailbox(session, u)
  BY <1>1, <1>2 DEF MayAsk, MailboxSubject, AsMailbox, Binds, Admitted
<1>5. Approved(f).optional[f].failure = None
  BY DEF MayAsk
<1>6. ~Approved(f).optional[f].ended
  BY <1>1, <1>5, ApprovedFacts
<1>7. f = "mail" => From <= now /\ now < Until
  BY <1>1 DEF Current
<1> QED
  BY <1>1, <1>2, <1>3, <1>4, <1>6, <1>7 DEF Calls

LEMMA CachedStep == ASSUME IInv, NEW f \in Surfaces, NEW u \in Users, Cached(f, u) PROVE IInv'
<1> DEFINE s == Approved(f)
           o == s.optional[f]
           t == o.tokens[Slot(f, u)]
<1>1. /\ SurfaceStarts(f, u) /\ MayAsk(f, u, o) /\ Usable(t) /\ session' = s
      /\ pc' = "send" /\ call' = [op |-> f, user |-> u]
      /\ cred' = [auth |-> t.auth, user |-> Slot(f, u), checked |-> now]
      /\ now' = now /\ auths' = auths /\ asked' = asked /\ signIns' = signIns
  BY DEF Cached, Proceed
<1>2. /\ pc = "idle" /\ (f = "mail" => Current /\ From <= now /\ now < Until)
      /\ session.bound /\ session.credential # None /\ ~o.ended
      /\ f = "mail" => AsMailbox(session, u)
      /\ [op |-> f, user |-> u] \in Calls /\ f \in UserOps /\ f \notin Bootstrap /\ f # "customer"
      /\ f # "aliases"
  BY <1>1, SurfaceCall
<1>3. /\ Sound(s, now) /\ o \in Optionals
      /\ s.credential = session.credential /\ s.customer = session.customer
      /\ s.domains = session.domains /\ s.aliases = session.aliases /\ s.bound = session.bound
      /\ s.list = session.list /\ s.principal = session.principal
      /\ s.exchanges = session.exchanges /\ s.actedAs = session.actedAs
      /\ \A k \in Users \cup {None} : Extends(session, o.tokens[k])
  BY <1>2, ApprovedFacts
<1>4. Slot(f, u) \in Users \cup {None} /\ (f = "mail" => Slot(f, u) = u)
  BY DEF Slot
<1>5. t \in Tokens /\ ~t.failed /\ t.auth \in Auths /\ t.auth = session.credential.auth
  <2>1. t # None /\ ~t.failed
    BY <1>1 DEF Usable, MayAsk
  <2>2. t \in Tokens \cup {None} /\ Extends(session, t)
    BY <1>3, <1>4 DEF Optionals
  <2> HIDE DEF t
  <2> QED
    BY <2>1, <2>2 DEF Extends, Tokens
<1> HIDE DEF s, o, t
<1>6. cred' \in Creds /\ cred'.auth = session.credential.auth /\ cred'.checked = now
      /\ (f = "mail" => cred'.user = u)
  BY <1>1, <1>4, <1>5, StepBasics DEF Creds
<1>7. call' \in Calls /\ call'.op = f /\ call'.user = u
  BY <1>1, <1>2
<1>8. f = "mail" => AsMailbox(session', u)
  BY <1>1, <1>2, <1>3 DEF AsMailbox
<1>9. InCall' /\ Asking' = 0
  BY <1>1, <1>2, <1>3, <1>6, <1>7, <1>8 DEF InCall, Asking
<1>10. Budget'
  BY <1>1, <1>3, <1>9, BudgetSame
<1> QED
  BY <1>1, <1>3, <1>9, <1>10 DEF IInv

LEMMA AskStep == ASSUME IInv, NEW f \in Surfaces, NEW u \in Users, Ask(f, u) PROVE IInv'
<1> DEFINE s == Approved(f)
           o == s.optional[f]
           n == IF f = "mail" THEN s.exchanges + 1 ELSE s.exchanges
<1>1. /\ SurfaceStarts(f, u) /\ MayAsk(f, u, o) /\ (f = "mail" => s.exchanges < Cap)
      /\ now' = now /\ auths' = auths /\ asked' = asked /\ signIns' = signIns
  BY DEF Ask
<1>2. /\ pc = "idle" /\ (f = "mail" => Current /\ From <= now /\ now < Until)
      /\ session.bound /\ session.credential # None /\ ~o.ended
      /\ f = "mail" => AsMailbox(session, u)
      /\ [op |-> f, user |-> u] \in Calls /\ f \in UserOps /\ f \notin Bootstrap /\ f # "customer"
      /\ f # "aliases"
  BY <1>1, SurfaceCall
<1>3. /\ s \in Sessions /\ Sound(s, now)
      /\ s.credential = session.credential /\ s.customer = session.customer
      /\ s.domains = session.domains /\ s.aliases = session.aliases /\ s.bound = session.bound
      /\ s.list = session.list /\ s.principal = session.principal
      /\ s.exchanges = session.exchanges /\ s.actedAs = session.actedAs
  BY <1>2, ApprovedFacts
<1>4. session' = [s EXCEPT !.exchanges = n]
  BY DEF Ask
<1>5. n \in Nat
  BY <1>3 DEF Sessions
<1> HIDE DEF s, n
<1>6. /\ session' \in Sessions /\ session'.exchanges = n
      /\ session'.credential = s.credential /\ session'.customer = s.customer
      /\ session'.domains = s.domains /\ session'.aliases = s.aliases /\ session'.bound = s.bound
      /\ session'.list = s.list /\ session'.principal = s.principal
      /\ session'.optional = s.optional /\ session'.actedAs = s.actedAs
  BY <1>3, <1>4, <1>5 DEF Sessions
<1>7. Sound(session', now)
  BY <1>3, <1>6, Weaker
<1>8. CASE Halt
  <2>1. InCall' /\ Asking' = 0
    BY <1>8, NoCall DEF Halt
  <2>2. signIns \in Nat /\ signIns <= session.exchanges /\ session.exchanges <= Cap /\ Cap \in Nat
        /\ session.exchanges \in Nat
    BY <1>2, IdleBasics, StepBasics DEF IInv, Budget
  <2>3. n \in Nat /\ session.exchanges <= n /\ n <= Cap
    BY <1>1, <1>3, <1>5, <2>2 DEF n
  <2>4. Budget'
    BY <1>1, <1>3, <1>6, <2>1, <2>2, <2>3 DEF IInv, Budget
  <2> QED
    BY <1>1, <1>7, <2>1, <2>4 DEF IInv
<1>9. CASE Proceed("exchange", f, u) /\ UNCHANGED cred
  <2>1. pc' = "exchange" /\ call' = [op |-> f, user |-> u] /\ cred' = None
    BY <1>2, <1>9, IdleBasics DEF Proceed
  <2>2. call' \in Calls /\ call'.op = f /\ call'.user = u
    BY <1>2, <2>1
  <2>3. f = "mail" => AsMailbox(session', u)
    BY <1>2, <1>3, <1>6 DEF AsMailbox
  <2>4. ~session'.optional[f].ended
    BY <1>2, <1>6 DEF o
  <2>5. InCall'
    BY <1>1, <1>2, <1>3, <1>6, <2>1, <2>2, <2>3, <2>4 DEF InCall
  <2>6. Asking' = IF f = "mail" THEN 1 ELSE 0
    BY <2>1, <2>2 DEF Asking
  <2>7. signIns \in Nat /\ signIns <= session.exchanges /\ session.exchanges <= Cap /\ Cap \in Nat
        /\ session.exchanges \in Nat
    BY <1>2, IdleBasics, StepBasics DEF IInv, Budget
  <2>8. signIns + (IF f = "mail" THEN 1 ELSE 0) <= n /\ n <= Cap
    BY <1>1, <1>3, <1>5, <2>7 DEF n
  <2>9. Budget'
    BY <1>1, <1>3, <1>6, <2>6, <2>7, <2>8 DEF IInv, Budget
  <2> QED
    BY <1>1, <1>7, <2>5, <2>9 DEF IInv
<1> QED
  BY <1>8, <1>9 DEF Ask

-----------------------------------------------------------------------------
(* The breaker.                                                            *)

\* One more sign-in was sent: it lengthens a run of failures or ends it.
LEMMA OneMoreTry ==
    ASSUME NEW tried \in Seq(BOOLEAN), NEW b \in BOOLEAN
    PROVE  LET more == Append(tried, b) IN
           /\ more \in Seq(BOOLEAN) /\ Len(more) = Len(tried) + 1 /\ more[Len(more)] = b
           /\ \A i \in 1 .. Len(tried) : more[i] = tried[i]
           /\ \A n \in Nat : LastFailed(more, n) => n = 0 \/ (~b /\ n - 1 \in Nat /\ LastFailed(tried, n - 1))
<1> DEFINE more == Append(tried, b)
<1>1. /\ more \in Seq(BOOLEAN) /\ Len(tried) \in Nat /\ Len(more) = Len(tried) + 1 /\ more[Len(more)] = b
      /\ \A i \in 1 .. Len(tried) : more[i] = tried[i]
  OBVIOUS
<1> HIDE DEF more
<1>2. ASSUME NEW n \in Nat, LastFailed(more, n), n # 0
      PROVE  ~b /\ n - 1 \in Nat /\ LastFailed(tried, n - 1)
  <2>1. Len(more) >= n /\ \A i \in Len(more) - n + 1 .. Len(more) : ~more[i]
    BY <1>2 DEF LastFailed
  <2>2. Len(more) \in Len(more) - n + 1 .. Len(more)
    BY <1>1, <1>2
  <2>3. ~b
    BY <1>1, <2>1, <2>2
  <2>4. n - 1 \in Nat /\ Len(tried) >= n - 1
    BY <1>1, <1>2, <2>1
  <2>5. \A i \in Len(tried) - (n - 1) + 1 .. Len(tried) : ~tried[i]
    <3> SUFFICES ASSUME NEW i \in Len(tried) - (n - 1) + 1 .. Len(tried) PROVE ~tried[i]
      OBVIOUS
    <3>1. i \in Len(more) - n + 1 .. Len(more) /\ i \in 1 .. Len(tried)
      BY <1>1, <1>2, <2>4
    <3> QED
      BY <1>1, <2>1, <3>1
  <2> QED
    BY <2>3, <2>4, <2>5 DEF LastFailed
<1> QED
  BY <1>1, <1>2 DEF more

\* mailboxOutcome keeps the counters ahead of the sign-ins that were sent, and
\* ends the surface as soon as they trip the breaker.
LEMMA OutcomeKeeps ==
    ASSUME NEW p \in Optionals, NEW t, Kept("mail", p, t), ~p.ended, From <= t,
           NEW kind \in {"token", "surface", "mailbox", "unanswered"},
           NEW o \in Optionals, o.failure = p.failure, o.attempts = p.attempts + 1,
           o.failedInARow = p.failedInARow, o.succeeded = p.succeeded, o.ended = p.ended,
           \/ kind = "unanswered" /\ o.tried = p.tried
           \/ kind = "token" /\ o.tried = Append(p.tried, TRUE)
           \/ kind # "token" /\ o.tried = Append(p.tried, FALSE)
    PROVE  /\ Outcome(o, kind) \in Optionals /\ Outcome(o, kind).tokens = o.tokens
           /\ Kept("mail", Outcome(o, kind), t)
<1> DEFINE q == Outcome(o, kind)
<1>01. PICK answer \in BOOLEAN : answer = (kind = "token")
  OBVIOUS
<1>02. PICK left \in BOOLEAN : left = ~(kind = "unanswered" /\ o.tried = p.tried)
  OBVIOUS
<1>0. (kind # "unanswered" => left) /\ o.tried = IF left THEN Append(p.tried, answer) ELSE p.tried
  BY <1>01, <1>02
<1>1. /\ p.attempts \in Nat /\ p.failedInARow \in Nat /\ p.succeeded \in BOOLEAN /\ p.tried \in Seq(BOOLEAN)
      /\ Len(p.tried) \in Nat /\ p.failedInARow <= p.attempts /\ Len(p.tried) <= p.attempts
      /\ ~Tripped(p.tried)
      /\ \A n \in Nat : LastFailed(p.tried, n) => n <= p.failedInARow
      /\ p.succeeded => \E i \in 1 .. Len(p.tried) : p.tried[i]
      /\ p.failure = "authorization" => "mail" = "mail"
  BY DEF Kept, Counts, Optionals
<1>2. /\ BreakerFirst \in Nat \ {0} /\ BreakerInARow \in Nat \ {0}
  BY ConstantsAssumption DEF ConstantsAssumption
<1>3. /\ o.tried \in Seq(BOOLEAN) /\ Len(o.tried) \in Nat /\ Len(o.tried) <= o.attempts
      /\ Len(o.tried) = IF left THEN Len(p.tried) + 1 ELSE Len(p.tried)
      /\ left => o.tried[Len(o.tried)] = answer
      /\ \A i \in 1 .. Len(p.tried) : o.tried[i] = p.tried[i]
  <2>1. CASE left
    BY <1>0, <1>1, <2>1, OneMoreTry
  <2>2. CASE ~left
    BY <1>0, <1>1, <2>2
  <2> QED
    BY <2>1, <2>2
<1>4. \A n \in Nat : LastFailed(o.tried, n) =>
          n = 0 \/ (kind # "token" /\ n <= p.failedInARow + 1)
  <2> SUFFICES ASSUME NEW n \in Nat, LastFailed(o.tried, n), n # 0
               PROVE  kind # "token" /\ n <= p.failedInARow + 1
    OBVIOUS
  <2>1. CASE left
    <3>1. o.tried = Append(p.tried, answer)
      BY <1>0, <2>1
    <3>2. ~answer /\ n - 1 \in Nat /\ LastFailed(p.tried, n - 1)
      BY <1>1, <3>1, OneMoreTry
    <3>3. n - 1 <= p.failedInARow
      BY <1>1, <3>2
    <3>4. kind # "token"
      BY <1>01, <3>2
    <3> QED
      BY <1>1, <3>2, <3>3, <3>4
  <2>2. CASE ~left
    <3>1. LastFailed(p.tried, n) /\ kind # "token"
      BY <1>0, <2>2
    <3> QED
      BY <1>1, <3>1
  <2> QED
    BY <2>1, <2>2
<1>5. o.succeeded => \E i \in 1 .. Len(o.tried) : o.tried[i]
  <2> SUFFICES ASSUME p.succeeded PROVE \E i \in 1 .. Len(o.tried) : o.tried[i]
    OBVIOUS
  <2>1. PICK i \in 1 .. Len(p.tried) : p.tried[i]
    BY <1>1
  <2>2. i \in 1 .. Len(o.tried) /\ o.tried[i]
    BY <1>1, <1>3, <2>1
  <2> QED
    BY <2>2
\* The first sign-ins all failed: now, or none of the earlier ones succeeded.
<1>6. (Len(o.tried) >= BreakerFirst /\ \A i \in 1 .. BreakerFirst : ~o.tried[i]) =>
          kind # "token" /\ ~p.succeeded /\ o.attempts >= BreakerFirst
  <2> SUFFICES ASSUME Len(o.tried) >= BreakerFirst, \A i \in 1 .. BreakerFirst : ~o.tried[i]
               PROVE  kind # "token" /\ ~p.succeeded /\ o.attempts >= BreakerFirst
    OBVIOUS
  <2>1. ~(Len(p.tried) >= BreakerFirst)
    <3> SUFFICES ASSUME Len(p.tried) >= BreakerFirst PROVE FALSE
      OBVIOUS
    <3>1. \A i \in 1 .. BreakerFirst : i \in 1 .. Len(p.tried)
      BY <1>1, <1>2
    <3>2. \A i \in 1 .. BreakerFirst : ~p.tried[i]
      BY <1>3, <3>1
    <3> QED
      BY <1>1, <3>2 DEF Tripped
  <2>2. left /\ Len(o.tried) = BreakerFirst /\ Len(p.tried) + 1 = BreakerFirst
    BY <1>1, <1>2, <1>3, <2>1
  <2>3. BreakerFirst \in 1 .. BreakerFirst /\ \A i \in 1 .. Len(p.tried) : i \in 1 .. BreakerFirst
    BY <1>1, <1>2, <2>2
  <2>4. kind # "token"
    BY <1>01, <1>3, <2>2, <2>3
  <2>5. \A i \in 1 .. Len(p.tried) : ~p.tried[i]
    BY <1>3, <2>3
  <2>6. o.attempts >= BreakerFirst
    BY <1>1, <1>2, <1>3, <2>2
  <2> QED
    BY <1>1, <2>4, <2>5, <2>6
<1>7. CASE kind = "token"
  <2>1. q = [o EXCEPT !.succeeded = TRUE, !.failedInARow = 0]
    BY <1>7 DEF Outcome
  <2> HIDE DEF q
  <2>2. /\ q \in Optionals /\ q.tokens = o.tokens /\ q.failure = o.failure /\ q.attempts = o.attempts
        /\ q.failedInARow = 0 /\ q.succeeded /\ q.tried = o.tried /\ q.ended = o.ended
    BY <2>1 DEF Optionals
  <2>3. /\ ~Tripped(o.tried)
        /\ \A n \in Nat : LastFailed(o.tried, n) => n <= 0
    <3>1. \A n \in Nat : LastFailed(o.tried, n) => n = 0
      BY <1>4, <1>7
    <3>2. ~LastFailed(o.tried, BreakerInARow)
      BY <1>2, <3>1
    <3>3. ~Tripped(o.tried)
      BY <1>6, <1>7, <3>2 DEF Tripped
    <3> QED
      BY <3>1, <3>3
  <2>4. \E i \in 1 .. Len(o.tried) : o.tried[i]
    <3>1. left /\ Len(o.tried) \in 1 .. Len(o.tried)
      BY <1>0, <1>1, <1>3, <1>7
    <3> QED
      BY <1>01, <1>3, <1>7, <3>1
  <2>5. o.attempts \in Nat
    BY <1>1
  <2> QED
    BY <1>1, <1>3, <2>2, <2>3, <2>4, <2>5 DEF Kept, Counts, q
<1>8. CASE kind = "surface"
  <2>1. q = [o EXCEPT !.failure = "stopped", !.ended = TRUE]
    BY <1>8 DEF Outcome
  <2>2. /\ q \in Optionals /\ q.tokens = o.tokens /\ q.failure = "stopped" /\ q.attempts = o.attempts
        /\ q.failedInARow = o.failedInARow /\ q.succeeded = o.succeeded /\ q.tried = o.tried /\ q.ended
    BY <2>1 DEF Optionals
  <2> HIDE DEF q
  <2>3. q.failedInARow <= q.attempts
    BY <1>1, <2>2
  <2> QED
    BY <1>1, <1>3, <1>5, <2>2, <2>3 DEF Kept, Counts, q
<1>9. CASE kind \in {"mailbox", "unanswered"}
  <2> DEFINE m == [o EXCEPT !.failedInARow = @ + 1]
  <2>1. q = IF Trips(m) THEN [m EXCEPT !.failure = "stopped", !.ended = TRUE] ELSE m
    BY <1>9 DEF Outcome
  <2>0. m = [o EXCEPT !.failedInARow = @ + 1] /\ o.failedInARow + 1 \in Nat
    BY <1>1
  <2> HIDE DEF m, q
  <2>2. /\ m \in Optionals /\ m.tokens = o.tokens /\ m.failure = o.failure /\ m.attempts = o.attempts
        /\ m.failedInARow = o.failedInARow + 1 /\ m.succeeded = o.succeeded /\ m.tried = o.tried
        /\ m.ended = o.ended
    BY <2>0 DEF Optionals
  <2>3. m.failedInARow <= m.attempts
    BY <1>1, <2>2
  <2>4. CASE Trips(m)
    <3>1. /\ q \in Optionals /\ q.tokens = m.tokens /\ q.failure = "stopped" /\ q.attempts = m.attempts
          /\ q.failedInARow = m.failedInARow /\ q.succeeded = m.succeeded /\ q.tried = m.tried /\ q.ended
      BY <2>1, <2>2, <2>4 DEF Optionals
    <3> QED
      BY <1>3, <1>5, <2>2, <2>3, <3>1 DEF Kept, Counts, q
  <2>5. CASE ~Trips(m)
    <3>1. m.succeeded \/ ~(m.attempts >= BreakerFirst)
      BY <2>5 DEF Trips
    <3>2. ~(m.failedInARow >= BreakerInARow)
      BY <2>5 DEF Trips
    <3>3. ~LastFailed(o.tried, BreakerInARow)
      BY <1>1, <1>2, <1>4, <2>2, <3>2
    <3>4. ~Tripped(o.tried)
      BY <1>6, <2>2, <3>1, <3>3 DEF Tripped
    <3>5. \A n \in Nat : LastFailed(o.tried, n) => n <= m.failedInARow
      BY <1>1, <1>4, <2>2
    <3>6. q = m
      BY <2>1, <2>5
    <3> QED
      BY <1>3, <1>5, <2>2, <2>3, <3>4, <3>5, <3>6 DEF Kept, Counts, q
  <2> QED
    BY <2>4, <2>5 DEF q
<1> QED
  BY <1>7, <1>8, <1>9

-----------------------------------------------------------------------------
(* The exchanges preserve the invariant.                                   *)

\* What an exchange writes into a token's slot.
LEMMA TokenFacts ==
    ASSUME IInv, session.credential # None
    PROVE  /\ session.credential \in [auth : Auths, expires : Nat] /\ session.credential.auth \in Auths
           /\ \A life \in 0 .. MaxLife : Token(life) \in Tokens /\ Extends(session, Token(life))
           /\ Failed(now) \in Tokens /\ Extends(session, Failed(now))
<1>1. /\ session.credential \in [auth : Auths, expires : Nat] /\ session.credential.auth \in Auths
      /\ session.credential.expires \in Nat /\ now \in Nat /\ MaxLife \in Nat
  BY StepBasics, ConstantsAssumption DEF Sessions, ConstantsAssumption
<1>2. ASSUME NEW life \in 0 .. MaxLife
      PROVE  Token(life) \in Tokens /\ Extends(session, Token(life))
  <2> DEFINE e == IF session.credential.expires < now + life
                  THEN session.credential.expires ELSE now + life
  <2>1. e \in Nat /\ e <= session.credential.expires
    BY <1>1, <1>2
  <2>2. Token(life) = [auth |-> session.credential.auth, expires |-> e, failed |-> FALSE]
    BY DEF Token
  <2> HIDE DEF e
  <2> QED
    BY <1>1, <2>1, <2>2 DEF Tokens, Extends
<1>3. Failed(now) \in Tokens /\ Extends(session, Failed(now))
  BY <1>1 DEF Failed, Tokens, Extends
<1> QED
  BY <1>1, <1>2, <1>3

\* The credential an exchange leads to.
LEMMA ExchangeCred ==
    ASSUME IInv, NEW u \in Users \cup {None}, NEW c \in {0, now}, session.credential # None
    PROVE  [auth |-> session.credential.auth, user |-> u, checked |-> c] \in Creds
<1>1. 0 \in Times /\ c \in Times
  BY StepBasics, ConstantsAssumption DEF Times, ConstantsAssumption
<1> QED
  BY <1>1, TokenFacts DEF Creds

LEMMA AuthenticatedStep == ASSUME IInv, Authenticated PROVE IInv'
<1>1. /\ pc = "exchange" /\ call.op = "customer" /\ Unread(session) /\ call \in Calls
      /\ now' = now /\ asked' = asked /\ signIns' = signIns /\ session \in Sessions
  BY StepBasics DEF Authenticated, IInv, InCall
<1>2. Asking = 0
  BY <1>1 DEF Asking
<1>3. CASE Halt /\ UNCHANGED <<session, auths>>
  <2>1. InCall' /\ Asking' = 0
    BY <1>3, NoCall DEF Halt
  <2>2. Budget'
    BY <1>1, <1>3, <2>1, BudgetSame
  <2> QED
    BY <1>1, <1>3, <2>1, <2>2 DEF IInv
<1>4. CASE \E life \in 1 .. MaxLife :
            /\ auths < MaxAuths
            /\ auths' = auths + 1
            /\ session' = [session EXCEPT !.credential = [auth |-> auths + 1, expires |-> now + life]]
            /\ pc' = "send"
            /\ cred' = Baseline(session')
            /\ UNCHANGED call
  <2>1. PICK life \in 1 .. MaxLife :
            /\ auths < MaxAuths
            /\ auths' = auths + 1
            /\ session' = [session EXCEPT !.credential = [auth |-> auths + 1, expires |-> now + life]]
            /\ pc' = "send"
            /\ cred' = Baseline(session')
            /\ UNCHANGED call
    BY <1>4
  <2>2. /\ auths + 1 \in Auths /\ auths' \in 0 .. MaxAuths /\ now + life \in Nat /\ 0 \in Times
    BY <2>1, StepBasics, ConstantsAssumption DEF IInv, Auths, Times, ConstantsAssumption
  <2> DEFINE c == [auth |-> auths + 1, expires |-> now + life]
  <2>3. c \in [auth : Auths, expires : Nat] /\ c # None /\ c.auth \in Auths
    BY <2>2, NoneAssumption DEF NoneAssumption
  <2>4. session' = [session EXCEPT !.credential = c]
    BY <2>1
  <2> HIDE DEF c
  <2>5. /\ session' \in Sessions /\ session'.credential = c
        /\ session'.customer = session.customer /\ session'.domains = session.domains
        /\ session'.bound = session.bound /\ session'.optional = session.optional
        /\ session'.exchanges = session.exchanges /\ session'.actedAs = session.actedAs
    BY <1>1, <2>3, <2>4 DEF Sessions
  <2>6. /\ session'.customer = None /\ session'.domains = None /\ ~session'.bound
        /\ session'.optional = [f \in Surfaces |-> Fresh]
    BY <1>1, <2>5 DEF Unread
  <2>7. Sound(session', now)
    <3>1. \A f \in Surfaces : Kept(f, session'.optional[f], now)
      BY <2>6, FreshKept
    <3>2. \A f \in Surfaces, k \in Users \cup {None} : Extends(session', session'.optional[f].tokens[k])
      BY <2>6, FreshKept DEF Extends
    <3> QED
      BY <2>5, <2>6, <3>1, <3>2 DEF Sound, SameToken
  <2>8. cred' \in Creds /\ cred'.auth = session'.credential.auth
    <3>1. cred' = [auth |-> session'.credential.auth, user |-> None, checked |-> 0]
      BY <2>1 DEF Baseline
    <3> QED
      BY <2>2, <2>3, <2>5, <3>1 DEF Creds
  <2>9. "customer" \in Bootstrap /\ "customer" \notin UserOps /\ "customer" \notin Surfaces
    BY DEF Bootstrap, UserOps, Surfaces
  <2>10. InCall'
    BY <1>1, <2>1, <2>3, <2>5, <2>6, <2>8, <2>9 DEF InCall
  <2>11. Asking' = 0
    BY <1>1, <2>1 DEF Asking
  <2>12. Budget'
    BY <1>1, <2>5, <2>11, BudgetSame
  <2> QED
    BY <1>1, <2>2, <2>7, <2>10, <2>12 DEF IInv
<1> QED
  BY <1>3, <1>4 DEF Authenticated

LEMMA SurfaceTokenStep == ASSUME IInv, SurfaceToken PROVE IInv'
<1> DEFINE p == session.optional["oauth"]
<1>1. /\ pc = "exchange" /\ call.op = "oauth" /\ call \in Calls
      /\ now' = now /\ auths' = auths /\ asked' = asked /\ signIns' = signIns
      /\ "oauth" \in Surfaces /\ "oauth" \notin Bootstrap /\ "oauth" \in UserOps
  BY SurfaceNames DEF SurfaceToken, IInv, InCall, Bootstrap, UserOps, Surfaces
<1>2. /\ session.bound /\ session.credential # None /\ (call.op \in UserOps => call.user \in Users)
      /\ session \in Sessions /\ Sound(session, now)
  BY <1>1, StepBasics DEF IInv, InCall, Sound, SameToken
<1>3. p \in Optionals /\ Kept("oauth", p, now) /\ \A k \in Users \cup {None} : Extends(session, p.tokens[k])
  BY <1>1, OptionalFacts
\* A token is written: the surface is otherwise as it was.
<1>4. ASSUME NEW t \in Tokens, Extends(session, t)
      PROVE  LET r == [session EXCEPT !.optional["oauth"].tokens[None] = t] IN
             /\ r \in Sessions /\ Sound(r, now)
             /\ r.exchanges = session.exchanges /\ r.actedAs = session.actedAs
             /\ r.bound = session.bound /\ r.credential = session.credential
  <2> DEFINE q == [p EXCEPT !.tokens[None] = t]
             r == [session EXCEPT !.optional["oauth"].tokens[None] = t]
  <2>1. r = [session EXCEPT !.optional["oauth"] = q]
    BY <1>1, <1>2 DEF Sessions
  <2>2. /\ q \in Optionals /\ q.failure = p.failure /\ q.attempts = p.attempts
        /\ q.failedInARow = p.failedInARow /\ q.succeeded = p.succeeded /\ q.tried = p.tried
        /\ q.ended = p.ended
        /\ \A k \in Users \cup {None} : q.tokens[k] = t \/ q.tokens[k] = p.tokens[k]
    BY <1>3 DEF Optionals
  <2> HIDE DEF q, r
  <2>3. Kept("oauth", q, now)
    BY <1>3, <2>2 DEF Kept, Counts
  <2>4. \A k \in Users \cup {None} : Extends(session, q.tokens[k])
    BY <1>3, <1>4, <2>2
  <2> HIDE DEF p
  <2>5. /\ r \in Sessions
        /\ r.credential = session.credential /\ r.customer = session.customer
        /\ r.domains = session.domains /\ r.aliases = session.aliases /\ r.bound = session.bound
        /\ r.exchanges = session.exchanges /\ r.actedAs = session.actedAs
        /\ r.optional["oauth"] = q /\ \A g \in Surfaces : g # "oauth" => r.optional[g] = session.optional[g]
    <3>1. "oauth" \in Surfaces /\ session \in Sessions /\ q \in Optionals
      BY <1>1, <1>2, <2>2
    <3> QED
      BY <2>1, <3>1, OptionalReplaced
  <2>6. Sound(r, now)
    BY <1>1, <1>2, <2>3, <2>4, <2>5, OptionalChanged
  <2> QED
    BY <2>5, <2>6 DEF r
<1>5. CASE \E life \in 1 .. MaxLife :
            /\ session' = [session EXCEPT !.optional["oauth"].tokens[None] = Token(life)]
            /\ pc' = "send"
            /\ cred' = [auth |-> session.credential.auth, user |-> None, checked |-> 0]
            /\ UNCHANGED call
  <2>1. PICK life \in 1 .. MaxLife :
            /\ session' = [session EXCEPT !.optional["oauth"].tokens[None] = Token(life)]
            /\ pc' = "send"
            /\ cred' = [auth |-> session.credential.auth, user |-> None, checked |-> 0]
            /\ UNCHANGED call
    BY <1>5
  <2>2. Token(life) \in Tokens /\ Extends(session, Token(life))
    <3>1. life \in 0 .. MaxLife
      BY ConstantsAssumption DEF ConstantsAssumption
    <3> QED
      BY <1>2, <3>1, TokenFacts
  <2>3. /\ Sound(session', now)
        /\ session'.exchanges = session.exchanges /\ session'.actedAs = session.actedAs
        /\ session'.bound = session.bound /\ session'.credential = session.credential
    BY <1>4, <2>1, <2>2
  <2>4. cred' \in Creds /\ cred'.auth = session.credential.auth
    BY <1>2, <2>1, ExchangeCred
  <2>5. InCall' /\ Asking' = 0
    BY <1>1, <1>2, <2>1, <2>3, <2>4 DEF InCall, Asking
  <2>6. Budget'
    BY <1>1, <2>3, <2>5, BudgetSame
  <2> QED
    BY <1>1, <2>3, <2>5, <2>6 DEF IInv
<1>6. CASE /\ session' = [session EXCEPT !.optional["oauth"].tokens[None] = Failed(now),
                                        !.optional["oauth"].failure = "stopped",
                                        !.optional["oauth"].ended = TRUE]
           /\ Halt
  <2> DEFINE s == [session EXCEPT !.optional["oauth"].tokens[None] = Failed(now)]
  <2>1. /\ s \in Sessions /\ Sound(s, now)
        /\ s.exchanges = session.exchanges /\ s.actedAs = session.actedAs
    BY <1>2, <1>4, TokenFacts
  <2>2. session' = [s EXCEPT !.optional["oauth"].failure = "stopped", !.optional["oauth"].ended = TRUE]
    BY <1>6
  <2> HIDE DEF s
  <2>3. /\ Sound(session', now)
        /\ session'.exchanges = session.exchanges /\ session'.actedAs = session.actedAs
    BY <1>1, <2>1, <2>2, EndedFacts
  <2>4. InCall' /\ Asking' = 0
    BY <1>6, NoCall DEF Halt
  <2>5. Budget'
    BY <1>1, <2>3, <2>4, BudgetSame
  <2> QED
    BY <1>1, <2>3, <2>4, <2>5 DEF IInv
<1> QED
  BY <1>5, <1>6 DEF SurfaceToken

\* What holds while a mailbox sign-in is on its way.
LEMMA SigningIn ==
    ASSUME IInv, pc = "exchange", call.op = "mail"
    PROVE  /\ call.user \in Users /\ call \in Calls /\ session.bound /\ session.credential # None
           /\ session \in Sessions /\ Sound(session, now) /\ From <= now /\ Asking = 1
           /\ AsMailbox(session, call.user) /\ ~session.optional["mail"].ended
           /\ session.optional["mail"] \in Optionals /\ Kept("mail", session.optional["mail"], now)
           /\ \A k \in Users \cup {None} : Extends(session, session.optional["mail"].tokens[k])
           /\ signIns + 1 <= session.exchanges /\ session.exchanges <= Cap
           /\ "mail" \in Surfaces /\ "mail" \notin Bootstrap /\ "mail" # "customer" /\ "mail" # "aliases"
           /\ "mail" \in UserOps
<1>1. "mail" \in Surfaces /\ "mail" \notin Bootstrap /\ "mail" # "customer" /\ "mail" # "aliases"
      /\ "mail" \in UserOps
  BY DEF Surfaces, Bootstrap, UserOps
<1>2. Asking = 1
  BY DEF Asking
<1>3. signIns + 1 <= session.exchanges /\ session.exchanges <= Cap
  BY <1>2 DEF IInv, Budget
<1>4. /\ session.optional["mail"] \in Optionals /\ Kept("mail", session.optional["mail"], now)
      /\ \A k \in Users \cup {None} : Extends(session, session.optional["mail"].tokens[k])
  BY <1>1, OptionalFacts
<1>5. session.bound /\ ~session.optional["mail"].ended
  BY <1>1 DEF IInv, InCall
<1>6. session.credential # None
  BY <1>5, StepBasics DEF Sound, SameToken
<1> QED
  BY <1>1, <1>2, <1>3, <1>4, <1>5, <1>6, StepBasics DEF IInv, InCall

LEMMA SignInRefusedStep == ASSUME IInv, SignInRefused PROVE IInv'
<1> DEFINE s == IF Current THEN [session EXCEPT !.optional["mail"].failure = "stopped",
                                               !.optional["mail"].ended = TRUE]
                ELSE Unapproved
           u == call.user
           p == s.optional["mail"]
           q == [p EXCEPT !.tokens[u] = None]
           n == s.exchanges - 1
           r == [s EXCEPT !.optional["mail"] = q]
<1>1. /\ pc = "exchange" /\ call.op = "mail" /\ Halt
      /\ session' = [s EXCEPT !.exchanges = @ - 1, !.optional["mail"].tokens[u] = None]
      /\ now' = now /\ auths' = auths /\ asked' = asked /\ signIns' = signIns
  BY DEF SignInRefused
<1>2. /\ u \in Users /\ "mail" \in Surfaces /\ From <= now /\ Sound(session, now)
      /\ signIns + 1 <= session.exchanges /\ session.exchanges <= Cap
      /\ signIns \in Nat /\ session.exchanges \in Nat /\ Cap \in Nat
  BY <1>1, SigningIn, StepBasics
<1>3. s \in Sessions /\ Sound(s, now) /\ s.exchanges = session.exchanges /\ s.actedAs = session.actedAs
  <2>1. CASE Current
    BY <1>2, <2>1, EndedFacts
  <2>2. CASE ~Current
    BY <1>2, <2>2, UnapprovedFacts
  <2> QED
    BY <2>1, <2>2
<1> HIDE DEF s, u
<1>4. p \in Optionals /\ Kept("mail", p, now) /\ \A k \in Users \cup {None} : Extends(s, p.tokens[k])
  BY <1>2, <1>3 DEF Sound, SameToken, Sessions
<1>5. /\ q \in Optionals /\ q.failure = p.failure /\ q.attempts = p.attempts
      /\ q.failedInARow = p.failedInARow /\ q.succeeded = p.succeeded /\ q.tried = p.tried
      /\ q.ended = p.ended
      /\ \A k \in Users \cup {None} : q.tokens[k] = None \/ q.tokens[k] = p.tokens[k]
  BY <1>2, <1>4 DEF Optionals
<1>6. session' = [r EXCEPT !.exchanges = n]
  BY <1>1, <1>2, <1>3 DEF Sessions
<1> HIDE DEF q
<1>7. Kept("mail", q, now)
  BY <1>4, <1>5 DEF Kept, Counts
<1>8. \A k \in Users \cup {None} : Extends(s, q.tokens[k])
  BY <1>4, <1>5 DEF Extends
<1> HIDE DEF p
<1>9. /\ r \in Sessions
      /\ r.credential = s.credential /\ r.customer = s.customer
      /\ r.domains = s.domains /\ r.aliases = s.aliases /\ r.bound = s.bound
      /\ r.exchanges = s.exchanges /\ r.actedAs = s.actedAs
      /\ r.optional["mail"] = q /\ \A g \in Surfaces : g # "mail" => r.optional[g] = s.optional[g]
  BY <1>2, <1>3, <1>5, OptionalReplaced
<1> HIDE DEF r
<1>10. Sound(r, now)
  BY <1>2, <1>3, <1>7, <1>8, <1>9, OptionalChanged
<1>11. n \in Nat /\ signIns <= n /\ n <= Cap
  BY <1>2, <1>3
<1> HIDE DEF n
<1>12. /\ session' \in Sessions /\ session'.exchanges = n
       /\ session'.credential = r.credential /\ session'.customer = r.customer
       /\ session'.domains = r.domains /\ session'.aliases = r.aliases /\ session'.bound = r.bound
       /\ session'.optional = r.optional /\ session'.actedAs = r.actedAs
  BY <1>6, <1>9, <1>11 DEF Sessions
<1>13. Sound(session', now)
  BY <1>10, <1>12, Weaker
<1>14. InCall' /\ Asking' = 0
  BY <1>1, NoCall DEF Halt
<1>15. Budget'
  BY <1>1, <1>2, <1>3, <1>9, <1>11, <1>12, <1>14 DEF IInv, Budget
<1> QED
  BY <1>1, <1>13, <1>14, <1>15 DEF IInv

\* Google was asked to act as the mailbox.
LEMMA SignInStep ==
    ASSUME IInv, NEW kind \in {"token", "surface", "mailbox", "unanswered"}, NEW left \in BOOLEAN,
           kind # "unanswered" => left, NEW life \in 0 .. MaxLife, SignIn(kind, left, life)
    PROVE  IInv'
<1> DEFINE u == call.user
           p == session.optional["mail"]
           t == IF kind = "token" THEN Token(life) ELSE Failed(now)
           o == [p EXCEPT !.tokens[u] = t,
                    !.attempts = @ + 1,
                    !.tried = IF left THEN Append(@, kind = "token") ELSE @]
           q == Outcome(o, kind)
           r == [session EXCEPT !.optional["mail"] = q]
           a == session.actedAs \cup {u}
<1>1. /\ pc = "exchange" /\ call.op = "mail" /\ Current
      /\ asked' = IF left THEN asked \cup {[user |-> u, at |-> now]} ELSE asked
      /\ signIns' = IF left THEN signIns + 1 ELSE signIns
      /\ session' = [session EXCEPT !.optional["mail"] = q, !.actedAs = @ \cup ActedAs(u, kind, left)]
      /\ now' = now /\ auths' = auths
  BY DEF SignIn
<1>2. /\ u \in Users /\ call \in Calls /\ session.bound /\ session.credential # None
      /\ session \in Sessions /\ Sound(session, now) /\ From <= now /\ Asking = 1
      /\ AsMailbox(session, u) /\ ~p.ended /\ p \in Optionals /\ Kept("mail", p, now)
      /\ \A k \in Users \cup {None} : Extends(session, p.tokens[k])
      /\ signIns + 1 <= session.exchanges /\ session.exchanges <= Cap
      /\ "mail" \in Surfaces /\ "mail" \notin Bootstrap /\ "mail" # "customer" /\ "mail" # "aliases"
      /\ "mail" \in UserOps
  BY <1>1, SigningIn
<1>3. signIns \in Nat /\ session.exchanges \in Nat /\ Cap \in Nat /\ now \in Times
  BY StepBasics
<1>4. t \in Tokens /\ Extends(session, t)
  BY <1>2, TokenFacts
<1> HIDE DEF t
<1>5. PICK answer \in BOOLEAN : answer = (kind = "token")
  OBVIOUS
<1>6. o = [p EXCEPT !.tokens[u] = t, !.attempts = @ + 1, !.tried = IF left THEN Append(@, answer) ELSE @]
  BY <1>5
<1> HIDE DEF o, p, u
<1>7. /\ o \in Optionals /\ o.failure = p.failure /\ o.attempts = p.attempts + 1
      /\ o.failedInARow = p.failedInARow /\ o.succeeded = p.succeeded /\ o.ended = p.ended
      /\ o.tried = IF left THEN Append(p.tried, answer) ELSE p.tried
      /\ \A k \in Users \cup {None} : o.tokens[k] = t \/ o.tokens[k] = p.tokens[k]
  <2>1. p.attempts + 1 \in Nat /\ Append(p.tried, answer) \in Seq(BOOLEAN) /\ p.tried \in Seq(BOOLEAN)
        /\ [p.tokens EXCEPT ![u] = t] \in [Users \cup {None} -> Tokens \cup {None}]
    BY <1>2, <1>4 DEF Optionals
  <2>2. (IF left THEN Append(p.tried, answer) ELSE p.tried) \in Seq(BOOLEAN)
    BY <2>1
  <2>3. o = [p EXCEPT !.tokens = [p.tokens EXCEPT ![u] = t], !.attempts = p.attempts + 1,
                      !.tried = IF left THEN Append(p.tried, answer) ELSE p.tried]
    BY <1>2, <1>6 DEF Optionals
  <2>4. /\ o \in Optionals /\ o.failure = p.failure /\ o.attempts = p.attempts + 1
        /\ o.failedInARow = p.failedInARow /\ o.succeeded = p.succeeded /\ o.ended = p.ended
        /\ o.tried = IF left THEN Append(p.tried, answer) ELSE p.tried
        /\ o.tokens = [p.tokens EXCEPT ![u] = t]
    BY <1>2, <2>1, <2>2, <2>3 DEF Optionals
  <2>5. p.tokens \in [Users \cup {None} -> Tokens \cup {None}]
    BY <1>2 DEF Optionals
  <2>6. \A k \in Users \cup {None} : o.tokens[k] = t \/ o.tokens[k] = p.tokens[k]
    BY <2>4, <2>5
  <2> QED
    BY <2>4, <2>6
<1>8. q \in Optionals /\ q.tokens = o.tokens /\ Kept("mail", q, now)
  <2>1. \/ kind = "unanswered" /\ o.tried = p.tried
        \/ kind = "token" /\ o.tried = Append(p.tried, TRUE)
        \/ kind # "token" /\ o.tried = Append(p.tried, FALSE)
    <3>1. CASE kind = "token"
      BY <1>5, <1>7, <3>1
    <3>2. CASE kind # "token"
      <4>1. answer = FALSE
        BY <1>5, <3>2
      <4> QED
        BY <1>7, <3>2, <4>1
    <3> QED
      BY <3>1, <3>2
  <2>2. /\ p \in Optionals /\ Kept("mail", p, now) /\ ~p.ended /\ From <= now
    BY <1>2
  <2>3. o \in Optionals /\ o.failure = p.failure /\ o.attempts = p.attempts + 1
        /\ o.failedInARow = p.failedInARow /\ o.succeeded = p.succeeded /\ o.ended = p.ended
    BY <1>7
  <2> HIDE DEF q
  <2>4. /\ Outcome(o, kind) \in Optionals /\ Outcome(o, kind).tokens = o.tokens
        /\ Kept("mail", Outcome(o, kind), now)
    BY <2>1, <2>2, <2>3, OutcomeKeeps
  <2> QED
    BY <2>4 DEF q
<1>9. \A k \in Users \cup {None} : Extends(session, q.tokens[k])
  BY <1>2, <1>4, <1>7, <1>8
<1>10. session' = [r EXCEPT !.actedAs = a] /\ a \in SUBSET Users
  BY <1>1, <1>2 DEF ActedAs, Sessions
<1> HIDE DEF q
<1>11. /\ r \in Sessions
       /\ r.credential = session.credential /\ r.customer = session.customer
       /\ r.domains = session.domains /\ r.aliases = session.aliases /\ r.bound = session.bound
       /\ r.list = session.list /\ r.principal = session.principal
       /\ r.exchanges = session.exchanges
       /\ r.optional["mail"] = q /\ \A g \in Surfaces : g # "mail" => r.optional[g] = session.optional[g]
  <2>1. "mail" \in Surfaces /\ session \in Sessions /\ q \in Optionals
    BY <1>2, <1>8
  <2> QED
    BY <2>1, OptionalReplaced
<1> HIDE DEF r
<1>12. Sound(r, now)
  BY <1>2, <1>8, <1>9, <1>11, OptionalChanged DEF p
<1>13. /\ session' \in Sessions /\ session'.actedAs = a /\ session'.exchanges = r.exchanges
       /\ session'.credential = r.credential /\ session'.customer = r.customer
       /\ session'.domains = r.domains /\ session'.aliases = r.aliases /\ session'.bound = r.bound
       /\ session'.list = r.list /\ session'.principal = r.principal /\ session'.optional = r.optional
  BY <1>10, <1>11 DEF Sessions
<1>14. Sound(session', now)
  BY <1>12, <1>13, Weaker
<1>15. InCall' /\ Asking' = 0
  <2>1. CASE kind # "token"
    <3>1. Halt
      BY <1>1, <2>1 DEF SignIn
    <3> QED
      BY <3>1, NoCall DEF Halt
  <2>2. CASE kind = "token"
    <3>1. /\ pc' = "send" /\ call' = call
          /\ cred' = [auth |-> session.credential.auth, user |-> u, checked |-> now]
      BY <1>1, <2>2 DEF SignIn, u
    <3>2. cred' \in Creds /\ cred'.auth = session.credential.auth /\ cred'.user = u /\ cred'.checked = now
      BY <1>2, <3>1, ExchangeCred
    <3>3. AsMailbox(session', u)
      BY <1>2, <1>11, <1>13 DEF AsMailbox
    <3>4. now < Until
      BY <1>1 DEF Current
    <3>5. call.user = u
      BY DEF u
    <3> QED
      BY <1>1, <1>2, <1>11, <1>13, <3>1, <3>2, <3>3, <3>4, <3>5 DEF InCall, Asking
  <2> QED
    BY <2>1, <2>2
<1>16. Budget'
  <2>1. signIns' \in Nat /\ signIns' + Asking' <= session'.exchanges /\ session'.exchanges <= Cap
    BY <1>1, <1>2, <1>3, <1>11, <1>13, <1>15
  <2>2. \A b \in asked' : From <= b.at /\ b.at < Until
    BY <1>1, <1>2 DEF IInv, Budget, Current
  <2>3. {b.user : b \in asked'} \subseteq session'.actedAs
    BY <1>1, <1>13 DEF IInv, Budget
  <2> QED
    BY <2>1, <2>2, <2>3 DEF Budget
<1> QED
  BY <1>1, <1>14, <1>15, <1>16 DEF IInv

LEMMA SignedInStep == ASSUME IInv, SignedIn PROVE IInv'
<1>1. MaxLife \in Nat
  BY ConstantsAssumption DEF ConstantsAssumption
<1>2. CASE \E life \in 1 .. MaxLife : SignIn("token", TRUE, life)
  <2>1. PICK life \in 1 .. MaxLife : SignIn("token", TRUE, life)
    BY <1>2
  <2>2. life \in 0 .. MaxLife
    BY <1>1
  <2>3. PICK left \in BOOLEAN : left = TRUE
    OBVIOUS
  <2> QED
    BY <2>1, <2>2, <2>3, SignInStep
<1>3. CASE \E kind \in {"surface", "mailbox", "unanswered"} : SignIn(kind, TRUE, 0)
  <2>1. PICK kind \in {"surface", "mailbox", "unanswered"} : SignIn(kind, TRUE, 0)
    BY <1>3
  <2>2. 0 \in 0 .. MaxLife
    BY <1>1
  <2>3. PICK left \in BOOLEAN : left = TRUE
    OBVIOUS
  <2> QED
    BY <2>1, <2>2, <2>3, SignInStep
<1>4. CASE SignIn("unanswered", FALSE, 0)
  <2>1. 0 \in 0 .. MaxLife
    BY <1>1
  <2>2. PICK left \in BOOLEAN : left = FALSE
    OBVIOUS
  <2> QED
    BY <1>4, <2>1, <2>2, SignInStep
<1> QED
  BY <1>2, <1>3, <1>4 DEF SignedIn

-----------------------------------------------------------------------------
(* The answers preserve the invariant.                                     *)

\* An answer ends the call; what it says may only change the session.
LEMMA AnswerKept ==
    ASSUME IInv, Answered, Sound(session', now), session'.exchanges = session.exchanges,
           session.actedAs \subseteq session'.actedAs
    PROVE  IInv'
<1>1. /\ Halt /\ now' = now /\ auths' = auths /\ asked' = asked /\ signIns' = signIns
  BY DEF Answered
<1>2. InCall' /\ Asking' = 0
  BY <1>1, NoCall DEF Halt
<1>3. Budget'
  BY <1>1, <1>2, BudgetSame
<1>4. now' \in Times /\ auths' \in 0 .. MaxAuths /\ Sound(session, now)'
  BY <1>1 DEF IInv
<1> QED
  BY <1>2, <1>3, <1>4 DEF IInv

\* What holds of a call that is answered.
LEMMA AnsweredFacts ==
    ASSUME IInv, Answered
    PROVE  /\ session \in Sessions /\ Sound(session, now) /\ call \in Calls /\ cred \in Creds
           /\ session.credential # None /\ cred.auth = session.credential.auth /\ cred.auth \in Auths
           /\ call.op \in UserOps => call.user \in Users
           /\ call.op \in Bootstrap => ~session.bound
           /\ call.op = "aliases" => session.customer # None /\ session.domains # None
           /\ call.op = "mail" => From <= now
<1>1. pc = "send"
  BY DEF Answered
<1>2. call \in Calls /\ cred \in Creds
  BY <1>1 DEF IInv, InCall
<1>3. cred.auth \in Auths
  BY <1>2 DEF Creds
<1> QED
  BY <1>1, <1>2, <1>3, StepBasics DEF IInv, InCall

\* An answer that leaves the session with no more than it had.
LEMMA AnswerForgets ==
    ASSUME IInv, Answered, session' \in Sessions,
           session'.credential = session.credential \/ session'.credential = None,
           session'.customer = session.customer \/ session'.customer = None,
           session'.domains = session.domains \/ session'.domains = None,
           session'.bound => /\ session.bound /\ session'.credential = session.credential
                             /\ session'.customer = session.customer
                             /\ session'.domains = session.domains /\ session'.aliases = session.aliases,
           \/ session'.optional = [f \in Surfaces |-> Fresh]
           \/ session'.optional = session.optional /\ session'.credential = session.credential,
           session'.exchanges = session.exchanges, session'.actedAs = session.actedAs
    PROVE  IInv'
<1>1. Sound(session, now)
  BY AnsweredFacts
<1>2. Sound(session', now)
  BY <1>1, Weaker
<1> QED
  BY <1>2, AnswerKept

LEMMA NoAnswerStep == ASSUME IInv, NoAnswer PROVE IInv'
<1>1. Answered /\ session \in Sessions
  BY AnsweredFacts DEF NoAnswer
<1>2. CASE session' = session
  BY <1>1, <1>2, AnswerForgets
<1>3. CASE session' = Unbind(session)
  BY <1>1, <1>3, UnbindFacts, AnswerForgets
<1> QED
  BY <1>2, <1>3 DEF NoAnswer

LEMMA UnauthorizedStep == ASSUME IInv, Unauthorized PROVE IInv'
<1>1. Answered /\ session \in Sessions /\ session' = DropAuth(session)
  BY AnsweredFacts DEF Unauthorized
<1> QED
  BY <1>1, DropAuthFacts, AnswerForgets

LEMMA CustomerReadStep == ASSUME IInv, CustomerRead PROVE IInv'
<1>1. /\ Answered /\ call.op = "customer"
      /\ session' = [session EXCEPT !.customer = cred.auth]
  BY DEF CustomerRead
<1>2. /\ session \in Sessions /\ Sound(session, now) /\ ~session.bound
      /\ cred.auth \in Auths /\ cred.auth = session.credential.auth
  BY <1>1, AnsweredFacts DEF Bootstrap
<1>3. /\ session' \in Sessions /\ session'.customer = cred.auth
      /\ session'.credential = session.credential /\ session'.domains = session.domains
      /\ session'.bound = session.bound /\ session'.optional = session.optional
      /\ session'.exchanges = session.exchanges /\ session'.actedAs = session.actedAs
  BY <1>1, <1>2 DEF Sessions
<1>4. SameToken(session')
  BY <1>2, <1>3 DEF Sound, SameToken, Extends
<1>5. Sound(session', now)
  BY <1>2, <1>3, <1>4 DEF Sound
<1> QED
  BY <1>1, <1>3, <1>5, AnswerKept

LEMMA DomainsReadStep == ASSUME IInv, DomainsRead PROVE IInv'
<1>1. PICK rows \in DomainLists :
          session' = [session EXCEPT !.domains = [rows |-> rows, by |-> cred.auth]]
  BY DEF DomainsRead
<1>2. /\ Answered /\ session \in Sessions /\ Sound(session, now) /\ ~session.bound
      /\ cred.auth \in Auths /\ cred.auth = session.credential.auth
  BY AnsweredFacts DEF DomainsRead, Bootstrap
<1> DEFINE d == [rows |-> rows, by |-> cred.auth]
<1>3. d \in [rows : [Names -> States], by : Auths] /\ d.by = cred.auth
  BY <1>2, ConstantsAssumption DEF ConstantsAssumption
<1>4. session' = [session EXCEPT !.domains = d]
  BY <1>1
<1> HIDE DEF d
<1>5. /\ session' \in Sessions /\ session'.domains = d
      /\ session'.credential = session.credential /\ session'.customer = session.customer
      /\ session'.bound = session.bound /\ session'.optional = session.optional
      /\ session'.exchanges = session.exchanges /\ session'.actedAs = session.actedAs
  BY <1>2, <1>3, <1>4 DEF Sessions
<1>6. SameToken(session')
  BY <1>2, <1>3, <1>5 DEF Sound, SameToken, Extends
<1>7. Sound(session', now)
  BY <1>2, <1>5, <1>6 DEF Sound
<1> QED
  BY <1>2, <1>5, <1>7, AnswerKept

LEMMA AliasesReadStep == ASSUME IInv, AliasesRead PROVE IInv'
<1>1. PICK rows \in AliasLists :
        session' =
            IF ~Consistent(rows) THEN Unbind(session)
            ELSE IF ~Matched(rows) THEN Unbind([session EXCEPT !.aliases = Listed(rows)])
            ELSE [session EXCEPT !.aliases = Listed(rows), !.bound = TRUE]
  BY DEF AliasesRead
<1>2. /\ Answered /\ session \in Sessions /\ Sound(session, now) /\ ~session.bound
      /\ session.credential # None /\ session.customer # None /\ session.domains # None
  BY AnsweredFacts DEF AliasesRead, Bootstrap
<1>3. Listed(rows) \subseteq Names
  BY ConstantsAssumption DEF ConstantsAssumption, Listed, Aliases
<1> DEFINE m == [session EXCEPT !.aliases = Listed(rows)]
<1>4. /\ m \in Sessions /\ m.aliases = Listed(rows)
      /\ m.credential = session.credential /\ m.customer = session.customer
      /\ m.domains = session.domains /\ m.bound = session.bound /\ m.optional = session.optional
      /\ m.exchanges = session.exchanges /\ m.actedAs = session.actedAs
  BY <1>2, <1>3 DEF Sessions
<1>5. CASE ~Consistent(rows)
  <2>1. session' = Unbind(session)
    BY <1>1, <1>5
  <2> QED
    BY <1>2, <2>1, UnbindFacts, AnswerForgets
<1>6. CASE Consistent(rows) /\ ~Matched(rows)
  <2>1. session' = Unbind(m)
    BY <1>1, <1>6
  <2> HIDE DEF m
  <2>2. /\ Unbind(m) \in Sessions /\ Unbind(m).credential = m.credential
        /\ Unbind(m).customer = m.customer /\ Unbind(m).domains = m.domains
        /\ Unbind(m).exchanges = m.exchanges /\ Unbind(m).actedAs = m.actedAs
        /\ ~Unbind(m).bound /\ Unbind(m).optional = [f \in Surfaces |-> Fresh]
    BY <1>4, UnbindFacts
  <2> QED
    BY <1>2, <1>4, <2>1, <2>2, AnswerForgets
<1>7. CASE Consistent(rows) /\ Matched(rows)
  <2>1. session' = [session EXCEPT !.aliases = Listed(rows), !.bound = TRUE]
    BY <1>1, <1>7
  <2>2. /\ session' \in Sessions /\ session'.aliases = Listed(rows)
        /\ session'.credential = session.credential /\ session'.customer = session.customer
        /\ session'.domains = session.domains /\ session'.optional = session.optional
        /\ session'.exchanges = session.exchanges /\ session'.actedAs = session.actedAs
    BY <1>2, <1>3, <2>1 DEF Sessions
  <2>3. RootVerified(session')
    BY <1>7, <2>2 DEF Matched, RootVerified
  <2>4. SameToken(session')
    BY <1>2, <2>2, <2>3 DEF Sound, SameToken, Extends
  <2>5. Sound(session', now)
    BY <1>2, <2>2, <2>4 DEF Sound
  <2> QED
    BY <1>2, <2>2, <2>5, AnswerKept
<1> QED
  BY <1>5, <1>6, <1>7

LEMMA UnitsReadStep == ASSUME IInv, UnitsRead PROVE IInv'
<1>1. Answered /\ session \in Sessions /\ session' = [session EXCEPT !.units = TRUE]
  BY AnsweredFacts DEF UnitsRead
<1>2. /\ session' \in Sessions
      /\ session'.credential = session.credential /\ session'.customer = session.customer
      /\ session'.domains = session.domains /\ session'.aliases = session.aliases
      /\ session'.bound = session.bound /\ session'.optional = session.optional
      /\ session'.exchanges = session.exchanges /\ session'.actedAs = session.actedAs
  BY <1>1 DEF Sessions
<1> QED
  BY <1>1, <1>2, AnswerForgets

LEMMA UsersReadStep == ASSUME IInv, UsersRead PROVE IInv'
<1>1. Answered /\ session \in Sessions
  BY AnsweredFacts DEF UsersRead
<1> DEFINE l == session.list
           n == IF call.op = "users" THEN 1 ELSE l.page
           Seen(items) == [u \in Users |-> IF items[u] = "absent" THEN l.seen[u] ELSE items[u]]
<1>2. PICK items \in UserPages, next \in BOOLEAN, bad \in BOOLEAN, done \in BOOLEAN :
          session' = [session EXCEPT !.list = [seen |-> Seen(items), bad |-> bad, complete |-> done,
                                               page |-> PageAfter(next, n)],
                                     !.principal = IF done THEN @ ELSE None]
  <2>1. PICK items \in UserPages, next, spoilt \in BOOLEAN :
          LET conflict == \E u \in Users : "absent" \notin {l.seen[u], items[u]} /\ l.seen[u] # items[u]
              bad == l.bad \/ conflict \/ spoilt \/ (next /\ n = MaxPages)
              done == ~next /\ ~bad
          IN
          session' = [session EXCEPT !.list = [seen |-> Seen(items), bad |-> bad, complete |-> done,
                                               page |-> PageAfter(next, n)],
                                     !.principal = IF done THEN @ ELSE None]
    BY DEF UsersRead
  <2> QED
    BY <2>1
<1>3. /\ l.page \in 0 .. MaxPages /\ l.seen \in [Users -> Statuses] /\ MaxPages \in Nat \ {0}
      /\ items \in [Users -> Statuses]
  BY <1>1, ConstantsAssumption DEF Sessions, Lists, ConstantsAssumption
<1>4. PageAfter(next, n) \in 0 .. MaxPages
  BY <1>3 DEF PageAfter
<1>5. Seen(items) \in [Users -> Statuses]
  BY <1>3
<1> DEFINE list == [seen |-> Seen(items), bad |-> bad, complete |-> done, page |-> PageAfter(next, n)]
           p == IF done THEN session.principal ELSE None
<1>6. list \in Lists
  BY <1>2, <1>4, <1>5 DEF Lists
<1>7. p \in Users \cup {None}
  BY <1>1 DEF Sessions
<1>8. session' = [session EXCEPT !.list = list, !.principal = p]
  BY <1>1, <1>2 DEF Sessions
<1> HIDE DEF list, p
<1>9. /\ session' \in Sessions
      /\ session'.credential = session.credential /\ session'.customer = session.customer
      /\ session'.domains = session.domains /\ session'.aliases = session.aliases
      /\ session'.bound = session.bound /\ session'.optional = session.optional
      /\ session'.exchanges = session.exchanges /\ session'.actedAs = session.actedAs
  BY <1>1, <1>6, <1>7, <1>8 DEF Sessions
<1> QED
  BY <1>1, <1>9, AnswerForgets

LEMMA DetailReadStep == ASSUME IInv, DetailRead PROVE IInv'
<1>1. Answered /\ session \in Sessions /\ call \in Calls
  BY AnsweredFacts DEF DetailRead
<1>2. PICK p \in Users \cup {None} : session' = [session EXCEPT !.principal = p]
  BY <1>1 DEF DetailRead, Sessions, Calls
<1>3. /\ session' \in Sessions
      /\ session'.credential = session.credential /\ session'.customer = session.customer
      /\ session'.domains = session.domains /\ session'.aliases = session.aliases
      /\ session'.bound = session.bound /\ session'.optional = session.optional
      /\ session'.exchanges = session.exchanges /\ session'.actedAs = session.actedAs
  BY <1>1, <1>2 DEF Sessions
<1> QED
  BY <1>1, <1>3, AnswerForgets

LEMMA MailDisabledStep == ASSUME IInv, MailDisabled PROVE IInv'
<1>1. /\ Answered /\ call.op = "mail"
      /\ session' = [session EXCEPT !.optional["mail"].failure = "stopped",
                                    !.optional["mail"].ended = TRUE]
  BY DEF MailDisabled
<1>2. session \in Sessions /\ Sound(session, now) /\ From <= now /\ "mail" \in Surfaces
  BY <1>1, AnsweredFacts, SurfaceNames
<1>3. /\ Sound(session', now)
      /\ session'.exchanges = session.exchanges /\ session'.actedAs = session.actedAs
  BY <1>1, <1>2, EndedFacts
<1> QED
  BY <1>1, <1>3, AnswerKept

LEMMA TickStep == ASSUME IInv, Tick PROVE IInv'
<1>1. /\ now \in Nat /\ now' = now + 1 /\ now' \in Times /\ From \in Nat /\ Until \in Nat
      /\ session' = session /\ pc' = pc /\ call' = call /\ cred' = cred
      /\ auths' = auths /\ asked' = asked /\ signIns' = signIns
  BY StepBasics, ConstantsAssumption DEF Tick, Times, ConstantsAssumption
<1>2. \A f \in Surfaces : Kept(f, session.optional[f], now')
  BY <1>1, OptionalFacts DEF Kept
<1>3. Sound(session', now')
  BY <1>1, <1>2, StepBasics DEF Sound
<1>4. InCall'
  BY <1>1 DEF IInv, InCall
<1>5. Asking' = Asking
  BY <1>1 DEF Asking
<1>6. Budget'
  BY <1>1, <1>5, BudgetSame
<1> QED
  BY <1>1, <1>3, <1>4, <1>6 DEF IInv

LEMMA StutterStep == ASSUME IInv, UNCHANGED vars PROVE IInv'
<1>1. /\ now' = now /\ session' = session /\ pc' = pc /\ call' = call /\ cred' = cred
      /\ auths' = auths /\ asked' = asked /\ signIns' = signIns
  BY DEF vars
<1>2. InCall'
  BY <1>1 DEF IInv, InCall
<1>3. Asking' = Asking
  BY <1>1 DEF Asking
<1>4. Budget'
  BY <1>1, <1>3, BudgetSame
<1> QED
  BY <1>1, <1>2, <1>4 DEF IInv

-----------------------------------------------------------------------------
(* The theorems.                                                           *)

LEMMA InitStep == ASSUME Init PROVE IInv
<1>1. /\ session.credential = None /\ session.customer = None /\ session.domains = None
      /\ session.bound = FALSE /\ session.optional = [f \in Surfaces |-> Fresh]
      /\ session.exchanges = 0 /\ session.actedAs = {}
      /\ now = 0 /\ pc = "idle" /\ call = None /\ cred = None /\ auths = 0 /\ asked = {} /\ signIns = 0
  BY DEF Init
<1>2. session \in Sessions
  BY FreshKept, NoUsersTyped DEF Init, Sessions
<1>3. \A f \in Surfaces : Kept(f, session.optional[f], now)
  BY <1>1, FreshKept
<1>4. \A f \in Surfaces, k \in Users \cup {None} : Extends(session, session.optional[f].tokens[k])
  BY <1>1, FreshKept DEF Extends
<1>5. Sound(session, now)
  BY <1>1, <1>2, <1>3, <1>4 DEF Sound, SameToken
<1>6. InCall
  BY <1>1 DEF InCall
<1>7. Budget
  BY <1>1, ConstantsAssumption DEF Budget, Asking, ConstantsAssumption
<1>8. now \in Times /\ auths \in 0 .. MaxAuths
  BY <1>1, ConstantsAssumption DEF Times, ConstantsAssumption
<1> QED
  BY <1>5, <1>6, <1>7, <1>8 DEF IInv

LEMMA NextStep == ASSUME IInv, Next PROVE IInv'
<1>1. CASE Attaching
  <2>1. CASE AliasesTooSoon \/ Authenticate
    BY <2>1, AliasesTooSoonStep, AuthenticateStep
  <2>2. CASE \E o \in Ops, u \in Users \cup {None} : Expire(o, u) \/ Attach(o, u)
    BY <2>2, ExpireStep, AttachStep
  <2>3. CASE \E u \in Users : NotApproved(u) \/ CapReached(u)
    BY <2>3, NotApprovedStep, CapReachedStep
  <2>4. CASE \E f \in Surfaces, u \in Users : SurfaceHalts(f, u) \/ Cached(f, u) \/ Ask(f, u)
    BY <2>4, SurfaceHaltsStep, CachedStep, AskStep
  <2> QED
    BY <1>1, <2>1, <2>2, <2>3, <2>4 DEF Attaching
<1>2. CASE Exchanging
  BY <1>2, AuthenticatedStep, SurfaceTokenStep, SignInRefusedStep, SignedInStep DEF Exchanging
<1>3. CASE Answering
  BY <1>3, NoAnswerStep, UnauthorizedStep, CustomerReadStep, DomainsReadStep, AliasesReadStep,
     UnitsReadStep, UsersReadStep, DetailReadStep, MailDisabledStep DEF Answering
<1>4. CASE Tick
  BY <1>4, TickStep
<1> QED
  BY <1>1, <1>2, <1>3, <1>4 DEF Next

\* The inductive invariant holds of every behaviour of the session.
THEOREM WorkspaceInvariant == Spec => []IInv
<1>1. Init => IInv
  BY InitStep
<1>2. IInv /\ [Next]_vars => IInv'
  BY NextStep, StutterStep
<1> QED
  BY <1>1, <1>2, PTL DEF Spec

\* A binding is one authentication's: the customer and the domains were read
\* with the token held now, every read under it carries that token or one that
\* extends it, and no optional token outlives it, over any order of expiry, 401,
\* failed and repeated reads (workspace.go attachWorkspace, dropAuth, unbind).
THEOREM AlwaysOneAuthentication == Spec => []OneAuthentication
<1>1. ASSUME IInv PROVE OneAuthentication
  <2>1. Sound(session, now) /\ session \in Sessions /\ SameToken(session)
    BY <1>1, StepBasics DEF Sound
  <2>2. TypeOK
    <3>1. /\ session.credential \in [auth : Auths, expires : Nat] \cup {None}
          /\ session.expired \in BOOLEAN /\ session.bound \in BOOLEAN /\ session.units \in BOOLEAN
          /\ session.customer \in Auths \cup {None}
          /\ session.domains \in [rows : [Names -> States], by : Auths] \cup {None}
          /\ session.aliases \subseteq Names
          /\ session.list \in [seen : [Users -> Statuses], bad : BOOLEAN, complete : BOOLEAN, page : 0 .. MaxPages]
          /\ session.principal \in Users \cup {None} /\ session.actedAs \subseteq Users
      BY <2>1 DEF Sessions, Lists
    <3>2. ASSUME NEW f \in Surfaces
          PROVE  /\ \A k \in Users \cup {None} : session.optional[f].tokens[k] \in Tokens \cup {None}
                 /\ session.optional[f].failure \in {None, "authorization", "stopped"}
                 /\ session.optional[f].failedInARow \in 0 .. session.optional[f].attempts
      BY <1>1, OptionalFacts DEF Kept, Counts, Optionals
    <3>3. /\ pc \in {"idle", "exchange", "send"} /\ call \in Calls \cup {None} /\ cred \in Creds \cup {None}
      BY <1>1 DEF IInv, InCall
    <3> QED
      BY <1>1, <3>1, <3>2, <3>3 DEF TypeOK, IInv, Calls, Creds
  <2>3. BindingOneToken
    BY <2>1 DEF BindingOneToken, SameToken, RootVerified
  <2>4. ReadsBound
    BY <1>1 DEF ReadsBound, IInv, InCall
  <2>5. TokensExtend
    BY <2>1 DEF TokensExtend, SameToken, Extends
  <2> QED
    BY <2>2, <2>3, <2>4, <2>5 DEF OneAuthentication
<1> QED
  BY <1>1, WorkspaceInvariant, PTL

\* A mailbox is signed in as only under a current approval and for an account
\* of the current inventory, the sign-ins never pass the session's budget, and
\* none follows the breaker or whatever else ended the surface
\* (workspaceOptionalCredential, mailbox_auth.go mailboxOutcome).
THEOREM SignInsAlwaysHold == Spec => []SignInsHold
<1>1. ASSUME IInv PROVE SignInsHold
  <2>1. SignInAdmitted
    BY <1>1 DEF SignInAdmitted, IInv, InCall, Budget, AsMailbox
  <2>2. SignInsCounted
    BY <1>1, StepBasics DEF SignInsCounted, IInv, Budget
  <2>3. SurfaceStops
    <3>1. SUFFICES ASSUME pc = "exchange", call.op \in Surfaces
                   PROVE  LET opt == session.optional[call.op] IN
                          /\ ~opt.ended
                          /\ ~LastFailed(opt.tried, BreakerInARow)
                          /\ ~(Len(opt.tried) >= BreakerFirst /\ \A i \in 1 .. BreakerFirst : ~opt.tried[i])
      BY DEF SurfaceStops
    <3>2. ~session.optional[call.op].ended
      BY <1>1, <3>1 DEF IInv, InCall
    <3>3. ~Tripped(session.optional[call.op].tried)
      BY <1>1, <3>1, <3>2, OptionalFacts DEF Kept, Counts
    <3> QED
      BY <3>2, <3>3 DEF Tripped
  <2> QED
    BY <2>1, <2>2, <2>3 DEF SignInsHold
<1> QED
  BY <1>1, WorkspaceInvariant, PTL

\* Every mailbox a sign-in was sent for is among those scheck reports it acted
\* as, whatever became of the exchange (gate.go ActedAsMailbox).
THEOREM ActedAsAlwaysComplete == Spec => []ActedAsComplete
<1>1. IInv => ActedAsComplete
  BY DEF ActedAsComplete, IInv, Budget
<1> QED
  BY <1>1, WorkspaceInvariant, PTL

-----------------------------------------------------------------------------
(* GitHub's identity and repository rules, on a part of the listings.      *)
(* First what each rule fires on and is disproved by, as predicates of the *)
(* evidence; then that a cut collection is a part of the whole one, and    *)
(* that each predicate passes from the part to the whole.                  *)

AccessSpec == AccessInit /\ [][AccessNext]_accessVars

\* Whom a listing shows an account in, and which repositories' lists and
\* answers do.
Holding(e, a) == {p \in {e.members, e.owners, e.outside} : a \in p.items}
OnLists(e, a) == {r \in DOMAIN e.repos : a \in e.repos[r].list.items}
AnsweringRepos(e, a) == {r \in DOMAIN e.repos : InterpretPermission(e.perms[r][a], e.repos[r]) \in {"write", "read"}}
AnswersFor(e, a) == IF Holding(e, a) = {} /\ OnLists(e, a) = {} THEN AnsweringRepos(e, a) ELSE {}
ReadWhole(e) == ~e.unread /\ \A p \in Populations(e) : p.whole
Admins(e, r, a) == EffectiveAdmin(e.repos[r].roles[a]).known /\ EffectiveAdmin(e.repos[r].roles[a]).yes
Crowded(e) == OwnerCount(e).verdict = "fired"

\* When a rule fires of a subject of an asset.
FiresAt(e, id, x, a) ==
    \/ id = "mfa_required" /\ x = Org /\ a = "-" /\ ~e.mfa /\ e.authority /\ e.orgRead
    \/ id = "too_many" /\ x = Org /\ a = "-" /\ Crowded(e)
    \/ id = "owner_mfa" /\ x = Org /\ a \in e.owners.items /\ a \in e.ownersNoMFA.items /\ e.authority
    \/ /\ id = "unexpected" /\ x = Org /\ a \in e.owners.items /\ PersonFor(a) /\ ~People[a].owner
       /\ ~(People[a].left /\ e.owners.late)
    \/ id = "unattributed" /\ x = Org /\ a \in e.owners.items /\ ~PersonFor(a) /\ DOMAIN People # {}
    \/ /\ id = "unattributed" /\ x \in DOMAIN e.repos /\ x \in Production /\ a \in e.repos[x].list.items
       /\ Admins(e, x, a) /\ ~PersonFor(a) /\ DOMAIN People # {}
    \/ id = "external" /\ x = Org /\ a \in e.owners.items /\ PersonFor(a) /\ KindOf(a) = "contractor"
    \/ id = "shared" /\ x = Org /\ a \in e.owners.items /\ PersonFor(a) /\ KindOf(a) = "shared"
    \/ /\ id = "member_mfa" /\ x = Org /\ a \in e.members.items /\ a \notin e.owners.items /\ a \in e.membersNoMFA.items
       /\ e.authority /\ e.owners.whole
    \/ /\ id = "former" /\ PersonFor(a) /\ People[a].left
       /\ \/ x = Org /\ Holding(e, a) # {} /\ LeftPassed(a, Holding(e, a))
          \/ x \in OnLists(e, a) /\ LeftPassed(a, {e.repos[x].list})
          \/ x \in AnswersFor(e, a)
    \/ id = "invited" /\ x = Org /\ PersonFor(a) /\ LeftPassed(a, {e.invited}) /\ a \in e.invited.items
    \/ id = "public" /\ x \in DOMAIN e.repos /\ a = "-" /\ e.repos[x].public /\ ~e.repos[x].declaredPublic /\ e.repos[x].read
    \/ id = "public" /\ x \in e.listed.items /\ a = "-" /\ ~e.repos[x].read /\ ~e.repos[x].declaredPublic
    \/ id = "deploy_key" /\ x \in DOMAIN e.repos /\ a = "-" /\ "rw" \in e.repos[x].keys.items
    \/ /\ id = "outside_admin" /\ x \in DOMAIN e.repos /\ x \in Production /\ a \in e.repos[x].list.items
       /\ a \in e.outside.items /\ Admins(e, x, a)

\* When a rule is disproved of one, or of all of an asset.
DisprovedAt(e, id, x, a) ==
    \/ id = "mfa_required" /\ x = Org /\ a = "-" /\ e.mfa
    \/ id = "too_many" /\ x = Org /\ a = "-" /\ e.owners.whole /\ e.members.whole /\ ~Crowded(e)
    \/ /\ id = "owner_mfa" /\ x = Org /\ a \in e.owners.items /\ e.authority /\ a \notin e.ownersNoMFA.items /\ e.ownersNoMFA.whole
    \/ id = "unexpected" /\ x = Org /\ PersonFor(a) /\ People[a].owner /\ a \in e.owners.items
    \/ id = "unattributed" /\ PersonFor(a) /\ ((x = Org /\ a \in e.owners.items) \/ (x \in DOMAIN e.repos /\ e.repos[x].list.whole))
    \/ id = "external" /\ x = Org /\ PersonFor(a) /\ KindOf(a) # "contractor" /\ a \in e.owners.items
    \/ id = "shared" /\ x = Org /\ PersonFor(a) /\ KindOf(a) # "shared" /\ a \in e.owners.items
    \/ id = "member_mfa" /\ x = Org /\ a \in e.members.items /\ e.authority /\ a \notin e.membersNoMFA.items /\ e.membersNoMFA.whole
    \/ id = "former" /\ x = Org /\ PersonFor(a) /\ Holding(e, a) = {} /\ OnLists(e, a) = {} /\ AnswersFor(e, a) = {} /\ ReadWhole(e)
    \/ id = "invited" /\ x = Org /\ PersonFor(a) /\ a \notin e.invited.items /\ e.invited.whole
    \/ id = "public" /\ x \in DOMAIN e.repos /\ a = "-" /\ ~(e.repos[x].public /\ ~e.repos[x].declaredPublic)
    \/ id = "deploy_key" /\ x \in DOMAIN e.repos /\ a = "-" /\ "rw" \notin e.repos[x].keys.items /\ e.repos[x].keys.whole
    \/ id = "outside_admin" /\ x \in DOMAIN e.repos /\ e.repos[x].list.whole

\* When it is disproved for want of a subject.
NoneAt(e, id) ==
    \/ id = "owner_mfa" /\ e.owners.items = {} /\ e.owners.whole
    \/ id = "member_mfa" /\ e.members.items \subseteq e.owners.items /\ e.members.whole /\ e.owners.whole
    \/ id \in {"unexpected", "external", "shared"} /\ e.owners.items = {} /\ e.owners.whole
    \/ /\ id = "unattributed" /\ e.owners.items = {} /\ e.owners.whole
       /\ \A r \in Production \cap DOMAIN e.repos : e.repos[r].list.whole

\* A judgment says what the rules say.
Backed(e, j) ==
    /\ j.verdict = "fired" => FiresAt(e, j.id, j.asset, j.subject)
    /\ j.verdict = "disproved" => DisprovedAt(e, j.id, j.asset, j.subject)

LEMMA OwnerSound == ASSUME NEW e, NEW a \in e.owners.items, NEW j \in OwnerJudgments(e, a) PROVE Backed(e, j)
<1> DEFINE noMFA == a \in e.ownersNoMFA.items
           ofKind(k) == IF PersonFor(a) THEN Settle(KindOf(a) = k, KindOf(a) = k \/ e.owners.whole) ELSE "abstained"
           unexpected == CASE ~PersonFor(a) -> "abstained"
                           [] PersonFor(a) /\ People[a].left /\ e.owners.late -> "abstained"
                           [] OTHER -> Settle(~People[a].owner, ~People[a].owner \/ e.owners.whole)
<1>1. CASE j = Judgment("owner_mfa", Org, a, Settle(noMFA, e.authority /\ (noMFA \/ (e.owners.whole /\ e.ownersNoMFA.whole))))
  BY <1>1 DEF Judgment, Settle, Backed, FiresAt, DisprovedAt
<1>2. CASE j = Judgment("unexpected", Org, a, unexpected)
  <2>1. unexpected = "fired" => PersonFor(a) /\ ~People[a].owner /\ ~(People[a].left /\ e.owners.late)
    BY DEF Settle
  <2>2. unexpected = "disproved" => PersonFor(a) /\ People[a].owner
    BY DEF Settle
  <2> HIDE DEF unexpected
  <2> QED
    BY <1>2, <2>1, <2>2 DEF Judgment, Backed, FiresAt, DisprovedAt
<1>3. CASE j = Unattributed(Org, a, e.owners.whole)
  <2>1. /\ j.id = "unattributed" /\ j.asset = Org /\ j.subject = a
        /\ j.verdict = "fired" => ~PersonFor(a) /\ DOMAIN People # {}
        /\ j.verdict = "disproved" => PersonFor(a)
    BY <1>3 DEF Judgment, Settle, Unattributed
  <2> QED
    BY <2>1 DEF Backed, FiresAt, DisprovedAt
<1>4. CASE j = Judgment("external", Org, a, ofKind("contractor"))
  BY <1>4 DEF Judgment, Settle, Backed, FiresAt, DisprovedAt
<1>5. CASE j = Judgment("shared", Org, a, ofKind("shared"))
  BY <1>5 DEF Judgment, Settle, Backed, FiresAt, DisprovedAt
<1> QED
  BY <1>1, <1>2, <1>3, <1>4, <1>5 DEF OwnerJudgments

LEMMA MemberSound == ASSUME NEW e, NEW a \in e.members.items \ e.owners.items PROVE Backed(e, MemberJudgment(e, a))
BY DEF Judgment, Settle, Backed, FiresAt, DisprovedAt, MemberJudgment

LEMMA CountSound == ASSUME NEW e PROVE Backed(e, OwnerCount(e))
<1>1. /\ OwnerCount(e).id = "too_many" /\ OwnerCount(e).asset = Org /\ OwnerCount(e).subject = "-"
      /\ OwnerCount(e).verdict = "disproved" => e.owners.whole /\ e.members.whole
  BY DEF Judgment, Settle, OwnerCount
<1> QED
  BY <1>1 DEF Backed, FiresAt, DisprovedAt, Crowded

LEMMA FormerSound ==
    ASSUME NEW e, NEW a \in DOMAIN People, People[a].left, NEW j \in FormerJudgments(e, a)
    PROVE  Backed(e, j)
<1> DEFINE full == ~e.unread /\ \A p \in Populations(e) : p.whole
           access(x, present, at) ==
               Judgment("former", x, a, IF LeftPassed(a, at) THEN Settle(present, present \/ full) ELSE "abstained")
<1>a. PersonFor(a)
  BY DEF PersonFor
<1>1. CASE j = access(Org, TRUE, Holding(e, a)) /\ Holding(e, a) # {}
  BY <1>1, <1>a DEF Judgment, Settle, Backed, FiresAt
<1>2. CASE \E r \in OnLists(e, a) : j = access(r, TRUE, {e.repos[r].list})
  BY <1>2, <1>a DEF Judgment, Settle, Backed, FiresAt
<1>3. CASE \E r \in AnswersFor(e, a) : j = access(r, TRUE, {})
  BY <1>3, <1>a DEF Judgment, Settle, Backed, FiresAt
<1>4. CASE Holding(e, a) = {} /\ OnLists(e, a) = {} /\ AnswersFor(e, a) = {} /\ j = access(Org, FALSE, Populations(e))
  BY <1>4, <1>a DEF Judgment, Settle, Backed, DisprovedAt, ReadWhole
<1>5. CASE j = Judgment("invited", Org, a,
                    IF LeftPassed(a, {e.invited}) THEN Settle(a \in e.invited.items, a \in e.invited.items \/ e.invited.whole)
                    ELSE "abstained")
  BY <1>5, <1>a DEF Judgment, Settle, Backed, FiresAt, DisprovedAt
<1>b. AnswersFor(e, a) = {r \in DOMAIN e.repos : /\ Holding(e, a) = {} /\ OnLists(e, a) = {}
                                               /\ InterpretPermission(e.perms[r][a], e.repos[r]) \in {"write", "read"}}
  BY DEF AnswersFor, AnsweringRepos
<1>c. j \in (IF Holding(e, a) # {} THEN {access(Org, TRUE, Holding(e, a))} ELSE {})
          \cup {access(r, TRUE, {e.repos[r].list}) : r \in OnLists(e, a)}
          \cup {access(r, TRUE, {}) : r \in AnswersFor(e, a)}
          \cup (IF Holding(e, a) = {} /\ OnLists(e, a) = {} /\ AnswersFor(e, a) = {} THEN {access(Org, FALSE, Populations(e))} ELSE {})
          \cup {Judgment("invited", Org, a,
                    IF LeftPassed(a, {e.invited}) THEN Settle(a \in e.invited.items, a \in e.invited.items \/ e.invited.whole)
                    ELSE "abstained")}
  BY <1>b, Zenon DEF FormerJudgments, Holding, OnLists
<1> HIDE DEF access
<1> QED
  BY <1>1, <1>2, <1>3, <1>4, <1>5, <1>c

LEMMA RepositorySound ==
    ASSUME NEW e, NEW r \in DOMAIN e.repos, NEW j \in RepositoryJudgments(e, r)
    PROVE  Backed(e, j)
<1> DEFINE repo == e.repos[r]
           admin(a) == EffectiveAdmin(repo.roles[a])
           outside(a) == a \in e.outside.items
           fire(a) == outside(a) /\ admin(a).known /\ admin(a).yes /\ r \in Production
           negative(a) == outside(a) /\ repo.list.whole /\ e.outside.whole
                          /\ (r \notin Production \/ (admin(a).known /\ ~admin(a).yes))
<1>1. CASE j = Judgment("public", r, "-", Settle(repo.public /\ ~repo.declaredPublic, repo.read))
  BY <1>1 DEF Judgment, Settle, Backed, FiresAt, DisprovedAt
<1>2. CASE j = Judgment("deploy_key", r, "-", Settle("rw" \in repo.keys.items, "rw" \in repo.keys.items \/ repo.keys.whole))
  BY <1>2 DEF Judgment, Settle, Backed, FiresAt, DisprovedAt
<1>3. ASSUME NEW a \in repo.list.items, r \in Production, admin(a).known, admin(a).yes, j = Unattributed(r, a, repo.list.whole)
      PROVE  Backed(e, j)
  <2>1. /\ j.id = "unattributed" /\ j.asset = r /\ j.subject = a
        /\ j.verdict = "fired" => ~PersonFor(a) /\ DOMAIN People # {}
        /\ j.verdict = "disproved" => PersonFor(a) /\ repo.list.whole
    BY <1>3 DEF Judgment, Settle, Unattributed
  <2>2. Admins(e, r, a)
    BY <1>3 DEF Admins
  <2> QED
    BY <2>1, <2>2, <1>3 DEF Backed, FiresAt, DisprovedAt
<1>4. ASSUME NEW a \in repo.list.items, j = Judgment("outside_admin", r, a, Settle(fire(a), fire(a) \/ negative(a)))
      PROVE  Backed(e, j)
  <2>1. /\ j.id = "outside_admin" /\ j.asset = r /\ j.subject = a
        /\ j.verdict = "fired" => fire(a)
        /\ j.verdict = "disproved" => repo.list.whole
    BY <1>4 DEF Judgment, Settle
  <2>2. fire(a) => Admins(e, r, a)
    BY DEF Admins
  <2> QED
    BY <2>1, <2>2 DEF Backed, FiresAt, DisprovedAt
<1>5. \/ j = Judgment("public", r, "-", Settle(repo.public /\ ~repo.declaredPublic, repo.read))
      \/ j = Judgment("deploy_key", r, "-", Settle("rw" \in repo.keys.items, "rw" \in repo.keys.items \/ repo.keys.whole))
      \/ \E a \in {b \in repo.list.items : r \in Production /\ admin(b).known /\ admin(b).yes} :
             j = Unattributed(r, a, repo.list.whole)
      \/ \E a \in repo.list.items : j = Judgment("outside_admin", r, a, Settle(fire(a), fire(a) \/ negative(a)))
  BY Zenon DEF RepositoryJudgments
<1> HIDE DEF fire, negative, admin, repo
<1> QED
  BY <1>1, <1>2, <1>3, <1>4, <1>5

LEMMA InventorySound == ASSUME NEW e, NEW j \in InventoryPublic(e) PROVE Backed(e, j)
BY DEF InventoryPublic, Judgment, Backed, FiresAt

\* What is said of someone or something, and what of no one.
Said(e) ==
    {Judgment("mfa_required", Org, "-", Settle(~e.mfa, e.authority /\ e.orgRead)), OwnerCount(e)}
      \cup (UNION {OwnerJudgments(e, a) : a \in e.owners.items})
      \cup {MemberJudgment(e, a) : a \in e.members.items \ e.owners.items}
      \cup (UNION {FormerJudgments(e, a) : a \in {b \in DOMAIN People : People[b].left}})
      \cup (UNION {RepositoryJudgments(e, r) : r \in DOMAIN e.repos})
      \cup InventoryPublic(e)

LEMMA JudgeIs == ASSUME NEW raw PROVE JudgeAccess(raw) = Said(Merged(raw)) \cup Gaps(Merged(raw), Said(Merged(raw)))
BY Zenon DEF JudgeAccess, Said

LEMMA SaidSound == ASSUME NEW e, NEW j \in Said(e) PROVE Backed(e, j)
<1>1. CASE j = Judgment("mfa_required", Org, "-", Settle(~e.mfa, e.authority /\ e.orgRead))
  BY <1>1 DEF Judgment, Settle, Backed, FiresAt, DisprovedAt
<1>2. CASE j = OwnerCount(e)
  BY <1>2, CountSound
<1>3. CASE \E a \in e.owners.items : j \in OwnerJudgments(e, a)
  BY <1>3, OwnerSound
<1>4. CASE \E a \in e.members.items \ e.owners.items : j = MemberJudgment(e, a)
  BY <1>4, MemberSound
<1>5. CASE \E a \in {b \in DOMAIN People : People[b].left} : j \in FormerJudgments(e, a)
  BY <1>5, FormerSound
<1>6. CASE \E r \in DOMAIN e.repos : j \in RepositoryJudgments(e, r)
  BY <1>6, RepositorySound
<1>7. CASE j \in InventoryPublic(e)
  BY <1>7, InventorySound
<1> QED
  <2> DEFINE Of1 == {Judgment("mfa_required", Org, "-", Settle(~e.mfa, e.authority /\ e.orgRead)), OwnerCount(e)}
             Of2 == UNION {OwnerJudgments(e, a) : a \in e.owners.items}
             Of3 == {MemberJudgment(e, a) : a \in e.members.items \ e.owners.items}
             Of4 == UNION {FormerJudgments(e, a) : a \in {b \in DOMAIN People : People[b].left}}
             Of5 == UNION {RepositoryJudgments(e, r) : r \in DOMAIN e.repos}
  <2>1. j \in Of1 \/ j \in Of2 \/ j \in Of3 \/ j \in Of4 \/ j \in Of5 \/ j \in InventoryPublic(e)
    BY DEF Said
  <2>2. CASE j \in Of1
    BY <2>2, <1>1, <1>2, Zenon
  <2>3. CASE j \in Of2
    BY <2>3, <1>3, Zenon
  <2>4. CASE j \in Of3
    BY <2>4, <1>4, Zenon
  <2>5. CASE j \in Of4
    BY <2>5, <1>5, Zenon
  <2>6. CASE j \in Of5
    BY <2>6, <1>6, Zenon
  <2> HIDE DEF Of1, Of2, Of3, Of4, Of5
  <2> QED
    BY <2>1, <2>2, <2>3, <2>4, <2>5, <2>6, <1>7

\* A rule that has nobody to judge says so of the organization.
LEMMA SaidOfOwner ==
    ASSUME NEW e, NEW a \in e.owners.items
    PROVE  \A id \in {"owner_mfa", "unexpected", "unattributed", "external", "shared"} : \E j \in Said(e) : j.id = id
<1>1. OwnerJudgments(e, a) \subseteq Said(e)
  BY Zenon DEF Said
<1>2. \A id \in {"owner_mfa", "unexpected", "unattributed", "external", "shared"} : \E j \in OwnerJudgments(e, a) : j.id = id
  BY DEF OwnerJudgments, Unattributed, Judgment
<1> QED
  BY <1>1, <1>2

LEMMA SaidOfMember ==
    ASSUME NEW e, NEW a \in e.members.items \ e.owners.items
    PROVE  \E j \in Said(e) : j.id = "member_mfa"
<1>1. MemberJudgment(e, a) \in {MemberJudgment(e, b) : b \in e.members.items \ e.owners.items}
  OBVIOUS
<1>3. {MemberJudgment(e, b) : b \in e.members.items \ e.owners.items} \subseteq Said(e)
  BY DEF Said
<1>2. MemberJudgment(e, a).id = "member_mfa"
  BY DEF MemberJudgment, Judgment
<1> QED
  BY <1>1, <1>2, <1>3

LEMMA GapSound ==
    ASSUME NEW e, NEW j \in Gaps(e, Said(e))
    PROVE  j.asset = Org /\ j.subject = "-" /\ j.verdict # "fired" /\ (j.verdict = "disproved" => NoneAt(e, j.id))
<1> DEFINE gap(id, known) == IF \E k \in Said(e) : k.id = id THEN {} ELSE {Judgment(id, Org, "-", Settle(FALSE, known))}
<1>g. ASSUME NEW id, NEW known, NEW k \in gap(id, known)
      PROVE  /\ k.id = id /\ k.asset = Org /\ k.subject = "-" /\ k.verdict # "fired"
             /\ k.verdict = "disproved" => known
             /\ ~\E m \in Said(e) : m.id = id
  BY <1>g DEF Judgment, Settle
<1> HIDE DEF gap
<1>1. \/ j \in gap("owner_mfa", e.authority /\ e.owners.whole /\ e.ownersNoMFA.whole)
      \/ j \in gap("member_mfa", e.authority /\ e.members.whole /\ e.owners.whole /\ e.membersNoMFA.whole)
      \/ j \in gap("unexpected", e.owners.whole) \/ j \in gap("external", e.owners.whole) \/ j \in gap("shared", e.owners.whole)
      \/ j \in gap("unattributed", DOMAIN People # {} /\ e.owners.whole /\ ~e.unread
                               /\ \A r \in Production \cap DOMAIN e.repos : e.repos[r].list.whole)
  BY DEF Gaps, gap
<1>2. CASE j \in gap("owner_mfa", e.authority /\ e.owners.whole /\ e.ownersNoMFA.whole)
  <2>1. /\ j.id = "owner_mfa" /\ j.asset = Org /\ j.subject = "-" /\ j.verdict # "fired"
        /\ j.verdict = "disproved" => e.owners.whole
        /\ ~\E m \in Said(e) : m.id = "owner_mfa"
    BY <1>2 DEF gap, Judgment, Settle
  <2> QED
    BY <2>1, SaidOfOwner DEF NoneAt
<1>3. CASE j \in gap("member_mfa", e.authority /\ e.members.whole /\ e.owners.whole /\ e.membersNoMFA.whole)
  <2>1. /\ j.id = "member_mfa" /\ j.asset = Org /\ j.subject = "-" /\ j.verdict # "fired"
        /\ j.verdict = "disproved" => e.owners.whole /\ e.members.whole
        /\ ~\E m \in Said(e) : m.id = "member_mfa"
    BY <1>3 DEF gap, Judgment, Settle
  <2> QED
    BY <2>1, SaidOfMember DEF NoneAt
<1>4. CASE j \in gap("unexpected", e.owners.whole) \/ j \in gap("external", e.owners.whole) \/ j \in gap("shared", e.owners.whole)
  BY <1>4, <1>g, SaidOfOwner DEF NoneAt
<1>5. CASE j \in gap("unattributed", DOMAIN People # {} /\ e.owners.whole /\ ~e.unread
                               /\ \A r \in Production \cap DOMAIN e.repos : e.repos[r].list.whole)
  <2>1. /\ j.id = "unattributed" /\ j.asset = Org /\ j.subject = "-" /\ j.verdict # "fired"
        /\ j.verdict = "disproved" => e.owners.whole /\ \A r \in Production \cap DOMAIN e.repos : e.repos[r].list.whole
        /\ ~\E m \in Said(e) : m.id = "unattributed"
    BY <1>5 DEF gap, Judgment, Settle
  <2> QED
    BY <2>1, SaidOfOwner DEF NoneAt
<1> QED
  BY <1>1, <1>2, <1>3, <1>4, <1>5

\* What fires is said.
LEMMA OwnerSays ==
    ASSUME NEW e, NEW a \in e.owners.items, NEW id \in {"owner_mfa", "unexpected", "unattributed", "external", "shared"},
           FiresAt(e, id, Org, a), Org \notin DOMAIN e.repos
    PROVE  Judgment(id, Org, a, "fired") \in OwnerJudgments(e, a)
<1> DEFINE noMFA == a \in e.ownersNoMFA.items
           ofKind(k) == IF PersonFor(a) THEN Settle(KindOf(a) = k, KindOf(a) = k \/ e.owners.whole) ELSE "abstained"
           unexpected == CASE ~PersonFor(a) -> "abstained"
                           [] PersonFor(a) /\ People[a].left /\ e.owners.late -> "abstained"
                           [] OTHER -> Settle(~People[a].owner, ~People[a].owner \/ e.owners.whole)
<1>1. CASE id = "owner_mfa"
  <2>1. Settle(noMFA, e.authority /\ (noMFA \/ (e.owners.whole /\ e.ownersNoMFA.whole))) = "fired"
    BY <1>1 DEF Settle, FiresAt
  <2> QED
    BY <1>1, <2>1, Zenon DEF OwnerJudgments
<1>2. CASE id = "unexpected"
  <2>1. PersonFor(a) /\ ~People[a].owner /\ ~(People[a].left /\ e.owners.late)
    BY <1>2 DEF FiresAt
  <2>2. unexpected = "fired"
    BY <2>1 DEF Settle
  <2>3. Judgment("unexpected", Org, a, unexpected) \in OwnerJudgments(e, a)
    BY Zenon DEF OwnerJudgments
  <2> HIDE DEF unexpected
  <2> QED
    BY <1>2, <2>2, <2>3
<1>3. CASE id = "unattributed"
  <2>1. ~PersonFor(a) /\ DOMAIN People # {}
    BY <1>3 DEF FiresAt
  <2>2. Unattributed(Org, a, e.owners.whole) = Judgment("unattributed", Org, a, "fired")
    BY <2>1 DEF Unattributed, Settle
  <2>3. Unattributed(Org, a, e.owners.whole) \in OwnerJudgments(e, a)
    BY Zenon DEF OwnerJudgments
  <2> QED
    BY <1>3, <2>2, <2>3
<1>4. CASE id = "external"
  <2>1. PersonFor(a) /\ KindOf(a) = "contractor"
    BY <1>4 DEF FiresAt
  <2>2. ofKind("contractor") = "fired"
    BY <2>1 DEF Settle
  <2>3. Judgment("external", Org, a, ofKind("contractor")) \in OwnerJudgments(e, a)
    BY Zenon DEF OwnerJudgments
  <2> HIDE DEF ofKind
  <2> QED
    BY <1>4, <2>2, <2>3
<1>5. CASE id = "shared"
  <2>1. PersonFor(a) /\ KindOf(a) = "shared"
    BY <1>5 DEF FiresAt
  <2>2. ofKind("shared") = "fired"
    BY <2>1 DEF Settle
  <2>3. Judgment("shared", Org, a, ofKind("shared")) \in OwnerJudgments(e, a)
    BY Zenon DEF OwnerJudgments
  <2> HIDE DEF ofKind
  <2> QED
    BY <1>5, <2>2, <2>3
<1> QED
  BY <1>1, <1>2, <1>3, <1>4, <1>5

LEMMA FormerSays ==
    ASSUME NEW e, NEW x, NEW a \in DOMAIN People, People[a].left, FiresAt(e, "former", x, a)
    PROVE  Judgment("former", x, a, "fired") \in FormerJudgments(e, a)
<1> DEFINE full == ~e.unread /\ \A p \in Populations(e) : p.whole
           access(y, present, at) ==
               Judgment("former", y, a, IF LeftPassed(a, at) THEN Settle(present, present \/ full) ELSE "abstained")
<1>1. \A y, at : LeftPassed(a, at) => access(y, TRUE, at) = Judgment("former", y, a, "fired")
  BY DEF Settle
<1>b. AnswersFor(e, a) = {r \in DOMAIN e.repos : /\ Holding(e, a) = {} /\ OnLists(e, a) = {}
                                               /\ InterpretPermission(e.perms[r][a], e.repos[r]) \in {"write", "read"}}
  BY DEF AnswersFor, AnsweringRepos
<1>2. /\ Holding(e, a) # {} => access(Org, TRUE, Holding(e, a)) \in FormerJudgments(e, a)
      /\ \A r \in OnLists(e, a) : access(r, TRUE, {e.repos[r].list}) \in FormerJudgments(e, a)
      /\ \A r \in AnswersFor(e, a) : access(r, TRUE, {}) \in FormerJudgments(e, a)
  BY <1>b, Zenon DEF FormerJudgments, Holding, OnLists
<1>3. LeftPassed(a, {})
  BY DEF LeftPassed
<1> HIDE DEF access
<1> QED
  BY <1>1, <1>2, <1>3 DEF FiresAt

LEMMA InvitedSays ==
    ASSUME NEW e, NEW a \in DOMAIN People, People[a].left, LeftPassed(a, {e.invited}), a \in e.invited.items
    PROVE  Judgment("invited", Org, a, "fired") \in FormerJudgments(e, a)
<1>1. (IF LeftPassed(a, {e.invited}) THEN Settle(a \in e.invited.items, a \in e.invited.items \/ e.invited.whole)
       ELSE "abstained") = "fired"
  BY DEF Settle
<1> QED
  BY <1>1, Zenon DEF FormerJudgments

LEMMA RepositorySays ==
    ASSUME NEW e, NEW x \in DOMAIN e.repos, NEW id, NEW a, FiresAt(e, id, x, a), Org \notin DOMAIN e.repos,
           id \in {"unattributed", "deploy_key", "outside_admin"} \/ (id = "public" /\ e.repos[x].read)
    PROVE  Judgment(id, x, a, "fired") \in RepositoryJudgments(e, x)
<1> DEFINE repo == e.repos[x]
           admin(b) == EffectiveAdmin(repo.roles[b])
           outside(b) == b \in e.outside.items
           fire(b) == outside(b) /\ admin(b).known /\ admin(b).yes /\ x \in Production
           negative(b) == outside(b) /\ repo.list.whole /\ e.outside.whole
                          /\ (x \notin Production \/ (admin(b).known /\ ~admin(b).yes))
<1>0. x # Org
  OBVIOUS
<1>1. /\ Judgment("public", x, "-", Settle(repo.public /\ ~repo.declaredPublic, repo.read)) \in RepositoryJudgments(e, x)
      /\ Judgment("deploy_key", x, "-", Settle("rw" \in repo.keys.items, "rw" \in repo.keys.items \/ repo.keys.whole)) \in RepositoryJudgments(e, x)
      /\ \A b \in repo.list.items : Judgment("outside_admin", x, b, Settle(fire(b), fire(b) \/ negative(b))) \in RepositoryJudgments(e, x)
      /\ \A b \in {c \in repo.list.items : x \in Production /\ admin(c).known /\ admin(c).yes} :
            Unattributed(x, b, repo.list.whole) \in RepositoryJudgments(e, x)
  BY Zenon DEF RepositoryJudgments
<1>2. CASE id = "public" /\ e.repos[x].read
  <2>1. repo.public /\ ~repo.declaredPublic /\ a = "-"
    BY <1>2, <1>0 DEF FiresAt
  <2>2. Settle(repo.public /\ ~repo.declaredPublic, repo.read) = "fired"
    BY <1>2, <2>1 DEF Settle
  <2> QED
    BY <1>1, <1>2, <2>1, <2>2
<1>3. CASE id = "deploy_key"
  <2>1. "rw" \in repo.keys.items /\ a = "-"
    BY <1>3 DEF FiresAt
  <2>2. Settle("rw" \in repo.keys.items, "rw" \in repo.keys.items \/ repo.keys.whole) = "fired"
    BY <2>1 DEF Settle
  <2> QED
    BY <1>1, <1>3, <2>1, <2>2
<1>4. CASE id = "outside_admin"
  <2>1. a \in repo.list.items /\ fire(a)
    BY <1>4 DEF FiresAt, Admins
  <2>2. Settle(fire(a), fire(a) \/ negative(a)) = "fired"
    BY <2>1 DEF Settle
  <2> HIDE DEF fire, negative, admin, repo
  <2> QED
    BY <1>1, <1>4, <2>1, <2>2
<1>5. CASE id = "unattributed"
  <2>1. a \in repo.list.items /\ x \in Production /\ Admins(e, x, a) /\ ~PersonFor(a) /\ DOMAIN People # {}
    BY <1>5, <1>0 DEF FiresAt
  <2>2. Unattributed(x, a, repo.list.whole) = Judgment("unattributed", x, a, "fired")
    BY <2>1 DEF Settle, Unattributed
  <2>3. admin(a).known /\ admin(a).yes
    BY <2>1 DEF Admins
  <2> HIDE DEF fire, negative, admin, repo
  <2> QED
    BY <1>1, <1>5, <2>1, <2>2, <2>3
<1> QED
  BY <1>2, <1>3, <1>4, <1>5

LEMMA SaidParts ==
    ASSUME NEW e
    PROVE  /\ Judgment("mfa_required", Org, "-", Settle(~e.mfa, e.authority /\ e.orgRead)) \in Said(e)
           /\ OwnerCount(e) \in Said(e)
           /\ \A a \in e.owners.items : OwnerJudgments(e, a) \subseteq Said(e)
           /\ \A a \in e.members.items \ e.owners.items : MemberJudgment(e, a) \in Said(e)
           /\ \A a \in {b \in DOMAIN People : People[b].left} : FormerJudgments(e, a) \subseteq Said(e)
           /\ \A r \in DOMAIN e.repos : RepositoryJudgments(e, r) \subseteq Said(e)
           /\ InventoryPublic(e) \subseteq Said(e)
BY Zenon DEF Said

LEMMA FiresSaid ==
    ASSUME NEW e, NEW id, NEW x, NEW a, FiresAt(e, id, x, a), Org \notin DOMAIN e.repos, e.listed.items \subseteq DOMAIN e.repos
    PROVE  Judgment(id, x, a, "fired") \in Said(e)
<1>1. CASE id = "mfa_required"
  <2>1. x = Org /\ a = "-" /\ ~e.mfa /\ e.authority /\ e.orgRead
    BY <1>1 DEF FiresAt
  <2>2. Settle(~e.mfa, e.authority /\ e.orgRead) = "fired"
    BY <2>1 DEF Settle
  <2> QED
    BY <1>1, <2>1, <2>2, SaidParts
<1>2. CASE id = "too_many"
  <2>1. x = Org /\ a = "-" /\ OwnerCount(e).verdict = "fired"
    BY <1>2 DEF FiresAt, Crowded
  <2>2. OwnerCount(e) = Judgment("too_many", Org, "-", OwnerCount(e).verdict)
    BY DEF OwnerCount, Judgment
  <2> QED
    BY <1>2, <2>1, <2>2, SaidParts
<1>3. CASE id \in {"owner_mfa", "unexpected", "external", "shared"} \/ (id = "unattributed" /\ x = Org)
  <2>1. x = Org /\ a \in e.owners.items
    BY <1>3 DEF FiresAt
  <2> QED
    BY <1>3, <2>1, OwnerSays, SaidParts
<1>4. CASE id = "member_mfa"
  <2>1. /\ x = Org /\ a \in e.members.items \ e.owners.items /\ a \in e.membersNoMFA.items
        /\ e.authority /\ e.owners.whole
    BY <1>4 DEF FiresAt
  <2>2. MemberJudgment(e, a) = Judgment("member_mfa", Org, a, "fired")
    BY <2>1 DEF MemberJudgment, Settle
  <2> QED
    BY <1>4, <2>1, <2>2, SaidParts
<1>5. CASE id = "former"
  <2>1. a \in {b \in DOMAIN People : People[b].left}
    BY <1>5 DEF FiresAt, PersonFor
  <2> QED
    BY <1>5, <2>1, FormerSays, SaidParts
<1>6. CASE id = "invited"
  <2>1. x = Org /\ a \in {b \in DOMAIN People : People[b].left} /\ LeftPassed(a, {e.invited}) /\ a \in e.invited.items
    BY <1>6 DEF FiresAt, PersonFor, LeftPassed
  <2> QED
    BY <1>6, <2>1, InvitedSays, SaidParts
<1>7. CASE (id = "unattributed" /\ x # Org) \/ id \in {"deploy_key", "outside_admin"} \/ (id = "public" /\ e.repos[x].read)
  <2>1. x \in DOMAIN e.repos
    BY <1>7 DEF FiresAt
  <2> QED
    BY <1>7, <2>1, RepositorySays, SaidParts
<1>8. CASE id = "public" /\ ~e.repos[x].read
  <2>1. x \in {q \in e.listed.items : ~e.repos[q].read /\ ~e.repos[q].declaredPublic} /\ a = "-"
    BY <1>8 DEF FiresAt
  <2>2. Judgment("public", x, "-", "fired") \in InventoryPublic(e)
    BY <2>1, Zenon DEF InventoryPublic
  <2> QED
    BY <1>8, <2>1, <2>2, SaidParts
<1> QED
  BY <1>1, <1>2, <1>3, <1>4, <1>5, <1>6, <1>7, <1>8 DEF FiresAt

\* A rule that does not tell says so.
LEMMA FormerAbstains ==
    ASSUME NEW e, NEW a \in DOMAIN People, People[a].left, Holding(e, a) # {}, ~LeftPassed(a, Holding(e, a))
    PROVE  Judgment("former", Org, a, "abstained") \in Said(e)
<1> DEFINE full == ~e.unread /\ \A p \in Populations(e) : p.whole
           access(y, present, at) ==
               Judgment("former", y, a, IF LeftPassed(a, at) THEN Settle(present, present \/ full) ELSE "abstained")
<1>1. access(Org, TRUE, Holding(e, a)) \in FormerJudgments(e, a)
  BY Zenon DEF FormerJudgments, Holding
<1>2. access(Org, TRUE, Holding(e, a)) = Judgment("former", Org, a, "abstained")
  OBVIOUS
<1>3. a \in {b \in DOMAIN People : People[b].left}
  OBVIOUS
<1> HIDE DEF access
<1> QED
  BY <1>1, <1>2, <1>3, SaidParts

LEMMA UnexpectedAbstains ==
    ASSUME NEW e, NEW a \in e.owners.items, PersonFor(a), People[a].left, e.owners.late
    PROVE  Judgment("unexpected", Org, a, "abstained") \in Said(e)
<1> DEFINE unexpected == CASE ~PersonFor(a) -> "abstained"
                           [] PersonFor(a) /\ People[a].left /\ e.owners.late -> "abstained"
                           [] OTHER -> Settle(~People[a].owner, ~People[a].owner \/ e.owners.whole)
<1>1. unexpected = "abstained"
  OBVIOUS
<1>2. Judgment("unexpected", Org, a, unexpected) \in OwnerJudgments(e, a)
  BY Zenon DEF OwnerJudgments
<1> HIDE DEF unexpected
<1> QED
  BY <1>1, <1>2, SaidParts

-----------------------------------------------------------------------------
\* A listing that stopped early, and one read to its end.
Loses(p, q) == p.items \subseteq q.items /\ (p.whole => p.items = q.items)

\* What was read is part of what the organization holds; unless timely, a
\* listing of accounts or a filter of one came too early.
RepositoryPart(p, q) ==
    /\ p.list.items \subseteq q.list.items /\ ~p.list.whole /\ (p.list.late <=> q.list.late)
    /\ Loses(p.keys, q.keys) /\ q.read
    /\ p.public = q.public /\ p.declaredPublic = q.declaredPublic /\ p.roles = q.roles
    /\ \A answer : InterpretPermission(answer, p) = InterpretPermission(answer, q)
PartOf(e, w, timely) ==
    /\ w.authority /\ w.orgRead /\ (e.mfa <=> w.mfa)
    /\ Loses(e.owners, w.owners) /\ Loses(e.members, w.members) /\ Loses(e.outside, w.outside) /\ Loses(e.invited, w.invited)
    /\ Loses(e.ownersNoMFA, w.ownersNoMFA) /\ Loses(e.membersNoMFA, w.membersNoMFA)
    /\ w.owners.whole /\ w.members.whole /\ IsFiniteSet(w.owners.items) /\ IsFiniteSet(w.members.items)
    /\ (e.invited.late <=> w.invited.late)
    /\ timely => e.owners.late /\ w.owners.late /\ w.members.late /\ w.outside.late
    /\ DOMAIN e.repos = DOMAIN w.repos /\ Org \notin DOMAIN w.repos
    /\ \A r \in DOMAIN w.repos : RepositoryPart(e.repos[r], w.repos[r])
    /\ e.listed.items \subseteq {r \in DOMAIN w.repos : w.repos[r].public} /\ w.listed.items \subseteq DOMAIN w.repos
    /\ \/ \A r \in DOMAIN w.repos, a \in DOMAIN People : e.perms[r][a] = "unsent"
       \/ timely /\ e.perms = w.perms /\ \A r \in DOMAIN w.repos : w.repos[r].list.late
    /\ "-" \notin DOMAIN People \cup w.owners.items \cup w.members.items

\* More owners are no fewer of those that count.
Countable(S) == S \ {a \in S : KindOf(a) = "service"}
Glass(S) == {a \in S : KindOf(a) = "break_glass"}
Counting(S) == Cardinality(Countable(S)) - (IF Cardinality(Glass(S)) > 2 THEN 2 ELSE Cardinality(Glass(S)))

LEMMA MoreOwners ==
    ASSUME NEW T, IsFiniteSet(T), NEW S \in SUBSET T
    PROVE  Counting(S) \in Int /\ Counting(T) \in Int /\ Counting(S) <= Counting(T)
<1> DEFINE rest(U) == Countable(U) \ Glass(U)
<1>1. ASSUME NEW U, IsFiniteSet(U)
      PROVE  /\ Cardinality(Countable(U)) = Cardinality(Glass(U)) + Cardinality(rest(U))
             /\ Cardinality(Glass(U)) \in Nat /\ Cardinality(rest(U)) \in Nat
             /\ IsFiniteSet(Glass(U)) /\ IsFiniteSet(rest(U))
  <2>1. IsFiniteSet(Glass(U)) /\ IsFiniteSet(rest(U))
    <3>1. Glass(U) \subseteq U /\ rest(U) \subseteq U
      BY DEF Glass, Countable
    <3> QED
      BY <1>1, <3>1, FS_Subset
  <2>2. Glass(U) \cup rest(U) = Countable(U) /\ Glass(U) \cap rest(U) = {}
    BY DEF Glass, Countable
  <2>3. Cardinality(Glass(U) \cap rest(U)) = 0
    BY <2>2, FS_EmptySet
  <2>4. Cardinality(Glass(U)) \in Nat /\ Cardinality(rest(U)) \in Nat
    BY <2>1, FS_CardinalityType
  <2>5. Cardinality(Glass(U) \cup rest(U)) = Cardinality(Glass(U)) + Cardinality(rest(U)) - Cardinality(Glass(U) \cap rest(U))
    BY <2>1, FS_Union
  <2> HIDE DEF rest
  <2>6. Cardinality(Countable(U)) = Cardinality(Glass(U)) + Cardinality(rest(U)) - 0
    BY <2>2, <2>3, <2>5
  <2> QED
    BY <2>1, <2>4, <2>6
<1>2. IsFiniteSet(S)
  BY FS_Subset
<1>3. Glass(S) \subseteq Glass(T) /\ rest(S) \subseteq rest(T)
  BY DEF Glass, Countable
<1>4. Cardinality(Glass(S)) <= Cardinality(Glass(T)) /\ Cardinality(rest(S)) <= Cardinality(rest(T))
  BY <1>1, <1>3, FS_Subset
<1>5. /\ Cardinality(Glass(S)) \in Nat /\ Cardinality(rest(S)) \in Nat
      /\ Cardinality(Glass(T)) \in Nat /\ Cardinality(rest(T)) \in Nat
      /\ Cardinality(Countable(S)) = Cardinality(Glass(S)) + Cardinality(rest(S))
      /\ Cardinality(Countable(T)) = Cardinality(Glass(T)) + Cardinality(rest(T))
  BY <1>1, <1>2
<1> HIDE DEF rest
<1> QED
  BY <1>4, <1>5 DEF Counting

\* When there are too many.
LEMMA CrowdedIs ==
    ASSUME NEW e
    PROVE  Crowded(e) <=> \/ Counting(e.owners.items) > 3
                          \/ /\ e.owners.whole /\ e.members.whole /\ Counting(e.owners.items) >= 3
                             /\ Counting(e.owners.items) * 3 > Cardinality({a \in e.members.items : KindOf(a) # "service"})
<1> DEFINE n == Counting(e.owners.items)
           humans == Cardinality({a \in e.members.items : KindOf(a) # "service"})
           full == e.owners.whole /\ e.members.whole
<1>1. OwnerCount(e) = Judgment("too_many", Org, "-", Settle(n > 3 \/ (full /\ n >= 3 /\ n * 3 > humans), n > 3 \/ full))
  BY Zenon DEF OwnerCount, Counting, Countable, Glass
<1> HIDE DEF n, humans
<1>2. Crowded(e) <=> n > 3 \/ (full /\ n >= 3 /\ n * 3 > humans)
  BY <1>1 DEF Crowded, Judgment, Settle
<1> QED
  BY <1>2 DEF n, humans

LEMMA CountInWhole ==
    ASSUME NEW e, NEW w, Loses(e.owners, w.owners), Loses(e.members, w.members), IsFiniteSet(w.owners.items),
           w.owners.whole, w.members.whole
    PROVE  /\ Crowded(e) => Crowded(w)
           /\ e.owners.whole /\ e.members.whole /\ ~Crowded(e) => ~Crowded(w)
<1>1. /\ Counting(e.owners.items) \in Int /\ Counting(w.owners.items) \in Int
      /\ Counting(e.owners.items) <= Counting(w.owners.items)
  BY MoreOwners DEF Loses
<1>2. e.owners.whole /\ e.members.whole => e.owners.items = w.owners.items /\ e.members.items = w.members.items
  BY DEF Loses
<1>3. Counting(e.owners.items) > 3 => Counting(w.owners.items) > 3
  BY <1>1
<1> QED
  BY <1>2, <1>3, CrowdedIs

\* Who is where on the listings read is so on the whole ones.
LEMMA PlacesInWhole ==
    ASSUME NEW e, NEW w, NEW timely, PartOf(e, w, timely), NEW a
    PROVE  /\ Holding(e, a) # {} => Holding(w, a) # {}
           /\ OnLists(e, a) \subseteq OnLists(w, a)
           /\ timely => \A p \in Holding(w, a) : p.late
BY DEF PartOf, Loses, Holding, OnLists, RepositoryPart

\* A finding on what was read is one on the whole, or what came too early
\* for a leaving date leaves the whole without one.
LEMMA FormerInWhole ==
    ASSUME NEW e, NEW w, NEW timely, PartOf(e, w, timely), NEW x, NEW a, FiresAt(e, "former", x, a)
    PROVE  \/ \E y : FiresAt(w, "former", y, a)
           \/ ~timely /\ Judgment("former", Org, a, "abstained") \in Said(w)
<1>0. PersonFor(a) /\ People[a].left /\ a \in DOMAIN People
  BY DEF FiresAt, PersonFor
<1>1. CASE Holding(e, a) # {}
  <2>1. Holding(w, a) # {}
    BY <1>1, PlacesInWhole
  <2>2. CASE LeftPassed(a, Holding(w, a))
    BY <1>0, <2>1, <2>2 DEF FiresAt
  <2>3. CASE ~LeftPassed(a, Holding(w, a))
    BY <1>0, <2>1, <2>3, PlacesInWhole, FormerAbstains DEF LeftPassed
  <2> QED
    BY <2>2, <2>3
<1>2. CASE x \in OnLists(e, a) /\ LeftPassed(a, {e.repos[x].list})
  <2>1. x \in OnLists(w, a)
    BY <1>2, PlacesInWhole
  <2>2. e.repos[x].list.late /\ w.repos[x].list.late
    BY <1>2, <2>1 DEF LeftPassed, PartOf, RepositoryPart, OnLists
  <2>3. LeftPassed(a, {w.repos[x].list})
    BY <1>0, <2>2 DEF LeftPassed
  <2> QED
    BY <1>0, <2>1, <2>3 DEF FiresAt
<1>3. CASE x \in AnswersFor(e, a) /\ Holding(e, a) = {} /\ OnLists(e, a) = {}
  <2>1. x \in DOMAIN e.repos /\ InterpretPermission(e.perms[x][a], e.repos[x]) \in {"write", "read"}
    BY <1>3 DEF AnswersFor, AnsweringRepos
  <2>2. InterpretPermission("unsent", e.repos[x]) = "unknown"
    BY DEF InterpretPermission
  <2>3. timely /\ e.perms = w.perms /\ \A r \in DOMAIN w.repos : w.repos[r].list.late
    BY <1>0, <2>1, <2>2 DEF PartOf
  <2>4. CASE Holding(w, a) # {}
    <3>1. \A p \in Holding(w, a) : p.late
      BY <2>3, PlacesInWhole
    <3>2. LeftPassed(a, Holding(w, a))
      BY <1>0, <3>1 DEF LeftPassed
    <3> QED
      BY <1>0, <2>4, <3>2 DEF FiresAt
  <2>5. CASE Holding(w, a) = {} /\ OnLists(w, a) # {}
    <3>1. PICK y \in OnLists(w, a) : TRUE
      BY <2>5
    <3>2. LeftPassed(a, {w.repos[y].list})
      BY <1>0, <2>3, <3>1 DEF LeftPassed, OnLists
    <3> QED
      BY <1>0, <3>1, <3>2 DEF FiresAt
  <2>6. CASE Holding(w, a) = {} /\ OnLists(w, a) = {}
    <3>1. x \in DOMAIN w.repos /\ InterpretPermission(w.perms[x][a], w.repos[x]) \in {"write", "read"}
      <4>1. x \in DOMAIN w.repos /\ RepositoryPart(e.repos[x], w.repos[x])
        BY <2>1 DEF PartOf
      <4>2. InterpretPermission(e.perms[x][a], e.repos[x]) = InterpretPermission(e.perms[x][a], w.repos[x])
        BY <4>1, Zenon DEF RepositoryPart
      <4>3. e.perms[x][a] = w.perms[x][a]
        BY <2>3
      <4> QED
        BY <2>1, <4>1, <4>2, <4>3
    <3> QED
      BY <1>0, <2>6, <3>1 DEF FiresAt, AnswersFor, AnsweringRepos
  <2> QED
    BY <2>4, <2>5, <2>6
<1> QED
  BY <1>1, <1>2, <1>3 DEF FiresAt, AnswersFor

LEMMA UnexpectedInWhole ==
    ASSUME NEW e, NEW w, NEW timely, PartOf(e, w, timely), NEW x, NEW a, FiresAt(e, "unexpected", x, a)
    PROVE  \/ FiresAt(w, "unexpected", x, a)
           \/ ~timely /\ Judgment("unexpected", Org, a, "abstained") \in Said(w)
<1>1. x = Org /\ a \in e.owners.items /\ PersonFor(a) /\ ~People[a].owner /\ ~(People[a].left /\ e.owners.late)
  BY DEF FiresAt
<1>2. a \in w.owners.items /\ (timely => e.owners.late)
  BY <1>1 DEF PartOf, Loses
<1>3. CASE People[a].left /\ w.owners.late
  <2>1. Judgment("unexpected", Org, a, "abstained") \in Said(w)
    BY <1>1, <1>2, <1>3, UnexpectedAbstains
  <2> QED
    BY <1>1, <1>2, <1>3, <2>1
<1>4. CASE ~(People[a].left /\ w.owners.late)
  BY <1>1, <1>2, <1>4 DEF FiresAt
<1> QED
  BY <1>3, <1>4

LEMMA OthersInWhole ==
    ASSUME NEW e, NEW w, NEW timely, PartOf(e, w, timely), NEW id, NEW x, NEW a, FiresAt(e, id, x, a),
           id \notin {"former", "unexpected"}
    PROVE  FiresAt(w, id, x, a)
<1>0. /\ Loses(e.owners, w.owners) /\ Loses(e.members, w.members) /\ Loses(e.outside, w.outside)
      /\ Loses(e.invited, w.invited) /\ Loses(e.ownersNoMFA, w.ownersNoMFA) /\ Loses(e.membersNoMFA, w.membersNoMFA)
  BY DEF PartOf
<1>p. /\ e.owners.items \subseteq w.owners.items /\ e.members.items \subseteq w.members.items
      /\ e.outside.items \subseteq w.outside.items /\ e.invited.items \subseteq w.invited.items
      /\ e.ownersNoMFA.items \subseteq w.ownersNoMFA.items /\ e.membersNoMFA.items \subseteq w.membersNoMFA.items
      /\ e.owners.whole => e.owners.items = w.owners.items
  BY <1>0 DEF Loses
<1>r. ASSUME NEW r \in DOMAIN e.repos
      PROVE  /\ r \in DOMAIN w.repos /\ e.repos[r].list.items \subseteq w.repos[r].list.items
             /\ e.repos[r].keys.items \subseteq w.repos[r].keys.items /\ w.repos[r].read
             /\ e.repos[r].public = w.repos[r].public /\ e.repos[r].declaredPublic = w.repos[r].declaredPublic
             /\ \A b : Admins(e, r, b) <=> Admins(w, r, b)
  <2>1. r \in DOMAIN w.repos /\ RepositoryPart(e.repos[r], w.repos[r])
    BY DEF PartOf
  <2>2. e.repos[r].roles = w.repos[r].roles
    BY <2>1 DEF RepositoryPart
  <2>3. \A b : Admins(e, r, b) <=> Admins(w, r, b)
    BY <2>2, Zenon DEF Admins
  <2> QED
    BY <2>1, <2>3 DEF RepositoryPart, Loses
<1>1. CASE id = "mfa_required"
  <2>1. x = Org /\ a = "-" /\ ~e.mfa
    BY <1>1 DEF FiresAt
  <2>2. ~w.mfa /\ w.authority /\ w.orgRead
    BY <2>1 DEF PartOf
  <2> QED
    BY <1>1, <2>1, <2>2 DEF FiresAt
<1>2. CASE id = "too_many"
  <2>1. x = Org /\ a = "-" /\ Crowded(e)
    BY <1>2 DEF FiresAt
  <2>2. Crowded(w)
    BY <2>1, <1>0, CountInWhole DEF PartOf
  <2> QED
    BY <1>2, <2>1, <2>2 DEF FiresAt
<1>3. CASE id \in {"owner_mfa", "external", "shared"}
  <2>1. w.authority
    BY DEF PartOf
  <2> QED
    BY <1>3, <1>p, <2>1 DEF FiresAt
<1>4. CASE id = "member_mfa"
  <2>1. w.authority /\ w.owners.whole
    BY DEF PartOf
  <2> QED
    BY <1>4, <1>p, <2>1 DEF FiresAt
<1>5. CASE id = "unattributed"
  <2>1. CASE x = Org /\ a \in e.owners.items /\ ~PersonFor(a) /\ DOMAIN People # {}
    BY <1>5, <1>p, <2>1 DEF FiresAt
  <2>2. CASE /\ x \in DOMAIN e.repos /\ x \in Production /\ a \in e.repos[x].list.items
             /\ Admins(e, x, a) /\ ~PersonFor(a) /\ DOMAIN People # {}
    <3>1. x \in DOMAIN w.repos /\ a \in w.repos[x].list.items /\ Admins(w, x, a)
      BY <1>r, <2>2
    <3> QED
      BY <1>5, <2>2, <3>1 DEF FiresAt
  <2> QED
    BY <1>5, <2>1, <2>2 DEF FiresAt
<1>6. CASE id = "invited"
  <2>1. x = Org /\ PersonFor(a) /\ LeftPassed(a, {e.invited}) /\ a \in e.invited.items
    BY <1>6 DEF FiresAt
  <2>2. LeftPassed(a, {w.invited})
    BY <2>1 DEF LeftPassed, PartOf
  <2> QED
    BY <1>6, <1>p, <2>1, <2>2 DEF FiresAt
<1>7. CASE id = "public"
  <2>1. a = "-" /\ \/ x \in DOMAIN e.repos /\ e.repos[x].public /\ ~e.repos[x].declaredPublic
                   \/ x \in e.listed.items /\ ~e.repos[x].declaredPublic
    BY <1>7 DEF FiresAt
  <2>2. x \in DOMAIN w.repos /\ w.repos[x].public /\ ~w.repos[x].declaredPublic /\ w.repos[x].read
    <3>1. CASE x \in DOMAIN e.repos /\ e.repos[x].public /\ ~e.repos[x].declaredPublic
      BY <1>r, <3>1
    <3>2. CASE x \in e.listed.items /\ ~e.repos[x].declaredPublic
      <4>1. x \in DOMAIN w.repos /\ w.repos[x].public /\ x \in DOMAIN e.repos
        BY <3>2 DEF PartOf
      <4> QED
        BY <1>r, <3>2, <4>1
    <3> QED
      BY <2>1, <3>1, <3>2
  <2> QED
    BY <1>7, <2>1, <2>2 DEF FiresAt
<1>8. CASE id = "deploy_key"
  <2>1. x \in DOMAIN e.repos /\ a = "-" /\ "rw" \in e.repos[x].keys.items
    BY <1>8 DEF FiresAt
  <2>2. x \in DOMAIN w.repos /\ "rw" \in w.repos[x].keys.items
    BY <1>r, <2>1
  <2> QED
    BY <1>8, <2>1, <2>2 DEF FiresAt
<1>9. CASE id = "outside_admin"
  <2>1. x \in DOMAIN e.repos /\ x \in Production /\ a \in e.repos[x].list.items /\ a \in e.outside.items /\ Admins(e, x, a)
    BY <1>9 DEF FiresAt
  <2>2. x \in DOMAIN w.repos /\ a \in w.repos[x].list.items /\ Admins(w, x, a)
    BY <1>r, <2>1
  <2> QED
    BY <1>9, <1>p, <2>1, <2>2 DEF FiresAt
<1> QED
  BY <1>1, <1>2, <1>3, <1>4, <1>5, <1>6, <1>7, <1>8, <1>9 DEF FiresAt

\* What is disproved on the listings read does not fire on the whole ones.
LEMMA DisprovedInWhole ==
    ASSUME NEW e, NEW w, NEW timely, PartOf(e, w, timely), NEW id, NEW x, NEW a, DisprovedAt(e, id, x, a),
           NEW y, NEW b, FiresAt(w, id, y, b), a = "-" \/ a = b, x = Org \/ x = y
    PROVE  FALSE
<1>0. /\ Loses(e.owners, w.owners) /\ Loses(e.members, w.members) /\ Loses(e.outside, w.outside)
      /\ Loses(e.invited, w.invited) /\ Loses(e.ownersNoMFA, w.ownersNoMFA) /\ Loses(e.membersNoMFA, w.membersNoMFA)
      /\ "-" \notin DOMAIN People \cup w.owners.items \cup w.members.items
  BY DEF PartOf
<1>p. /\ "-" \notin e.owners.items /\ "-" \notin e.members.items /\ ~PersonFor("-")
      /\ e.ownersNoMFA.whole => e.ownersNoMFA.items = w.ownersNoMFA.items
      /\ e.membersNoMFA.whole => e.membersNoMFA.items = w.membersNoMFA.items
      /\ e.invited.whole => e.invited.items = w.invited.items
  BY <1>0 DEF Loses, PersonFor
<1>r. ASSUME NEW r \in DOMAIN e.repos
      PROVE  /\ r \in DOMAIN w.repos /\ ~e.repos[r].list.whole /\ w.repos[r].read /\ r # Org
             /\ e.repos[r].keys.whole => e.repos[r].keys.items = w.repos[r].keys.items
             /\ e.repos[r].public = w.repos[r].public /\ e.repos[r].declaredPublic = w.repos[r].declaredPublic
  BY DEF PartOf, RepositoryPart, Loses
<1>1. CASE id = "mfa_required"
  <2>1. e.mfa /\ ~w.mfa
    BY <1>1 DEF DisprovedAt, FiresAt
  <2> QED
    BY <2>1 DEF PartOf
<1>2. CASE id = "too_many"
  <2>1. e.owners.whole /\ e.members.whole /\ ~Crowded(e) /\ Crowded(w)
    BY <1>2 DEF DisprovedAt, FiresAt
  <2> QED
    BY <2>1, <1>0, CountInWhole DEF PartOf
<1>3. CASE id \in {"owner_mfa", "unexpected", "external", "shared", "member_mfa"}
  BY <1>3, <1>p DEF DisprovedAt, FiresAt
<1>4. CASE id = "unattributed"
  BY <1>4, <1>p, <1>r DEF DisprovedAt, FiresAt
<1>5. CASE id = "former"
  <2>1. PersonFor(a) /\ Holding(e, a) = {} /\ OnLists(e, a) = {} /\ ReadWhole(e)
    BY <1>5 DEF DisprovedAt
  <2>2. a = b
    BY <1>p, <2>1
  <2>3. e.owners.whole /\ e.members.whole /\ e.outside.whole /\ \A r \in DOMAIN e.repos : e.repos[r].list.whole
    BY <2>1 DEF ReadWhole, Populations
  <2>4. DOMAIN e.repos = {} /\ DOMAIN w.repos = {}
    BY <1>r, <2>3 DEF PartOf
  <2>5. e.owners.items = w.owners.items /\ e.members.items = w.members.items /\ e.outside.items = w.outside.items
    BY <1>0, <2>3 DEF Loses
  <2>6. Holding(w, a) = {}
    BY <2>1, <2>5 DEF Holding
  <2>7. OnLists(w, a) = {} /\ AnswersFor(w, a) = {}
    BY <2>4 DEF OnLists, AnswersFor, AnsweringRepos
  <2> QED
    BY <1>5, <2>2, <2>6, <2>7 DEF FiresAt
<1>6. CASE id = "invited"
  BY <1>6, <1>p DEF DisprovedAt, FiresAt
<1>7. CASE id = "public"
  <2>1. x \in DOMAIN e.repos /\ ~(e.repos[x].public /\ ~e.repos[x].declaredPublic)
    BY <1>7 DEF DisprovedAt
  <2>2. y = x
    BY <1>r, <2>1
  <2>3. \/ w.repos[x].public /\ ~w.repos[x].declaredPublic
        \/ ~w.repos[x].read
    BY <1>7, <2>2 DEF FiresAt
  <2> QED
    BY <1>r, <2>1, <2>3
<1>8. CASE id = "deploy_key"
  <2>1. x \in DOMAIN e.repos /\ "rw" \notin e.repos[x].keys.items /\ e.repos[x].keys.whole
    BY <1>8 DEF DisprovedAt
  <2>2. y = x
    BY <1>r, <2>1
  <2>3. "rw" \in w.repos[x].keys.items
    BY <1>8, <2>2 DEF FiresAt
  <2> QED
    BY <1>r, <2>1, <2>3
<1>9. CASE id = "outside_admin"
  BY <1>9, <1>r DEF DisprovedAt
<1> QED
  BY <1>1, <1>2, <1>3, <1>4, <1>5, <1>6, <1>7, <1>8, <1>9 DEF FiresAt

LEMMA NoneInWhole ==
    ASSUME NEW e, NEW w, NEW timely, PartOf(e, w, timely), NEW id, NoneAt(e, id), NEW y, NEW b, FiresAt(w, id, y, b)
    PROVE  FALSE
<1>0. /\ e.owners.whole => e.owners.items = w.owners.items
      /\ e.members.whole => e.members.items = w.members.items
  BY DEF PartOf, Loses
<1>1. CASE id = "unattributed"
  <2>1. DOMAIN e.repos = DOMAIN w.repos /\ \A r \in DOMAIN w.repos : ~e.repos[r].list.whole
    BY DEF PartOf, RepositoryPart
  <2> QED
    BY <1>0, <1>1, <2>1 DEF NoneAt, FiresAt
<1>2. CASE id # "unattributed"
  BY <1>0, <1>2 DEF NoneAt, FiresAt
<1> QED
  BY <1>1, <1>2

-----------------------------------------------------------------------------
\* What a listing returns, cut or not.
LEMMA PopulationIs ==
    ASSUME NEW items, NEW cut, NEW visible \in BOOLEAN, NEW name, NEW p, p = Population(items, cut, visible, name)
    PROVE  /\ p = [items |-> p.items, whole |-> p.whole, late |-> p.late]
           /\ p.items \subseteq items /\ p.whole \in BOOLEAN /\ (p.late <=> name \notin cut.early) /\ p.late \in BOOLEAN
           /\ p.whole => visible /\ p.items = items
BY DEF Population

LEMMA WholePopulation ==
    ASSUME NEW items, NEW cut, cut.at = {}, NEW name
    PROVE  Population(items, cut, TRUE, name) = [items |-> items, whole |-> TRUE, late |-> name \notin cut.early]
<1>1. name \notin cut.at
  OBVIOUS
<1> QED
  BY <1>1, Zenon DEF Population

LEMMA HiddenPopulation ==
    ASSUME NEW items, NEW cut, NEW name
    PROVE  Population(items, cut, FALSE, name) = [items |-> items \cap cut.kept, whole |-> FALSE, late |-> name \notin cut.early]
BY Zenon DEF Population

\* The disabled filter adds accounts the listing lacks.
LEMMA WithDisabledIs ==
    ASSUME NEW base, NEW disabled, base = [items |-> base.items, whole |-> base.whole, late |-> base.late],
           base.late \in BOOLEAN, disabled.late \in BOOLEAN
    PROVE  LET p == WithDisabled(base, disabled)
           IN  /\ p.items = base.items \cup disabled.items
               /\ disabled.items \subseteq base.items => p = base
               /\ ~(disabled.items \subseteq base.items) => ~p.whole /\ (p.late <=> base.late /\ disabled.late)
BY DEF WithDisabled

\* What a collection holds, under an authority.
IsCollection(c, authority, o, cut) ==
    LET member == authority \in {"member", "owner"}
        owner == authority = "owner"
    IN  /\ c.authority = owner /\ c.orgRead = ("organization" \notin cut.at) /\ c.mfa = o.mfa
        /\ c.owners = Population(o.owners, cut, member, "owners")
        /\ c.members = Population(o.members, cut, member, "members")
        /\ c.ownersNoMFA = Population(IF owner THEN o.owners \cap o.noMFA ELSE {}, cut, owner, "ownersNoMFA")
        /\ c.membersNoMFA = Population(IF owner THEN o.members \cap o.noMFA ELSE {}, cut, owner, "membersNoMFA")
        /\ c.outside = Population(o.outside, cut, owner, "outside")
        /\ c.invited = Population(o.invited, cut, owner, "invited")
        /\ c.listed = Population({r \in DOMAIN o.repos : o.repos[r].public}, cut, FALSE, "listed")
        /\ c.perms = [r \in DOMAIN o.repos |-> [a \in DOMAIN People |-> IF cut.early = {} THEN o.answers ELSE "unsent"]]
        /\ DOMAIN c.repos = DOMAIN o.repos
        /\ \A r \in DOMAIN o.repos :
              /\ c.repos[r].read = (r \notin cut.at) /\ c.repos[r].public = o.repos[r].public
              /\ c.repos[r].declaredPublic = o.repos[r].declaredPublic /\ c.repos[r].roles = o.repos[r].roles
              /\ c.repos[r].archived = o.repos[r].archived /\ c.repos[r].private = ~o.repos[r].public
              /\ c.repos[r].list = Population(IF r \in cut.at THEN {} ELSE DOMAIN o.repos[r].roles, cut, FALSE, "list")
              /\ c.repos[r].keys = Population(IF r \in cut.at THEN {} ELSE o.repos[r].keys, cut, r \notin cut.at, "keys")

LEMMA CollectedIs == ASSUME NEW authority, NEW o, NEW cut PROVE IsCollection(CollectedAs(authority, o, cut), authority, o, cut)
<1> DEFINE c == CollectedAs(authority, o, cut)
<1>1. /\ c.authority = (authority = "owner") /\ c.orgRead = ("organization" \notin cut.at) /\ c.mfa = o.mfa
      /\ c.owners = Population(o.owners, cut, authority \in {"member", "owner"}, "owners")
      /\ c.members = Population(o.members, cut, authority \in {"member", "owner"}, "members")
  BY Zenon DEF CollectedAs
<1> QED
  BY <1>1 DEF IsCollection, CollectedAs

\* With the disabled filters added, the rest is as it was.
LEMMA MergedIs ==
    ASSUME NEW authority, NEW o, NEW cut, NEW c, c = CollectedAs(authority, o, cut)
    PROVE  LET m == Merged(c)
           IN  /\ m.authority = c.authority /\ m.orgRead = c.orgRead /\ m.mfa = c.mfa
               /\ m.ownersNoMFA = c.ownersNoMFA /\ m.membersNoMFA = c.membersNoMFA
               /\ m.outside = c.outside /\ m.invited = c.invited /\ m.listed = c.listed
               /\ m.perms = c.perms /\ m.repos = c.repos
               /\ m.owners = c.owners \/ m.owners = WithDisabled(c.owners, c.ownersNoMFA)
               /\ m.members = c.members \/ m.members = WithDisabled(c.members, c.membersNoMFA)
<1>1. ASSUME NEW f1, NEW f2, NEW f3, NEW f4, NEW f5, NEW f6, NEW f7, NEW f8, NEW f9, NEW f10, NEW f11, NEW f12, NEW f13,
             NEW p, NEW q, NEW r,
             r = [authority |-> f1, orgRead |-> f2, mfa |-> f3, owners |-> f4, members |-> f5, ownersNoMFA |-> f6,
                  membersNoMFA |-> f7, outside |-> f8, invited |-> f9, listed |-> f10, unread |-> f11, repos |-> f12, perms |-> f13]
      PROVE  LET m == [r EXCEPT !.owners = p, !.members = q]
             IN  /\ m.authority = f1 /\ m.orgRead = f2 /\ m.mfa = f3 /\ m.owners = p /\ m.members = q
                 /\ m.ownersNoMFA = f6 /\ m.membersNoMFA = f7 /\ m.outside = f8 /\ m.invited = f9
                 /\ m.listed = f10 /\ m.repos = f12 /\ m.perms = f13
  BY <1>1
<1>2. c = [authority |-> c.authority, orgRead |-> c.orgRead, mfa |-> c.mfa, owners |-> c.owners, members |-> c.members,
           ownersNoMFA |-> c.ownersNoMFA, membersNoMFA |-> c.membersNoMFA, outside |-> c.outside, invited |-> c.invited,
           listed |-> c.listed, unread |-> c.unread, repos |-> c.repos, perms |-> c.perms]
  BY DEF CollectedAs
<1>3. CASE ~c.authority
  BY <1>3 DEF Merged
<1>4. CASE c.authority
  <2>1. Merged(c) = [c EXCEPT !.owners = WithDisabled(c.owners, c.ownersNoMFA), !.members = WithDisabled(c.members, c.membersNoMFA)]
    BY <1>4 DEF Merged
  <2> QED
    BY <1>1, <1>2, <2>1
<1> QED
  BY <1>3, <1>4

\* What a listing of accounts is, cut and whole.
LEMMA CutListings ==
    ASSUME NEW authority, NEW o, NEW cut, NEW c, IsCollection(c, authority, o, cut)
    PROVE  /\ c.owners.items \subseteq o.owners /\ (c.owners.whole => c.owners.items = o.owners)
           /\ c.members.items \subseteq o.members /\ (c.members.whole => c.members.items = o.members)
           /\ c.ownersNoMFA.items \subseteq o.owners \cap o.noMFA
           /\ c.ownersNoMFA.whole => c.ownersNoMFA.items = o.owners \cap o.noMFA
           /\ c.membersNoMFA.items \subseteq o.members \cap o.noMFA
           /\ c.membersNoMFA.whole => c.membersNoMFA.items = o.members \cap o.noMFA
           /\ c.listed.items \subseteq {r \in DOMAIN o.repos : o.repos[r].public}
           /\ (c.owners.late <=> "owners" \notin cut.early) /\ (c.members.late <=> "members" \notin cut.early)
           /\ (c.outside.late <=> "outside" \notin cut.early) /\ (c.invited.late <=> "invited" \notin cut.early)
           /\ (c.ownersNoMFA.late <=> "ownersNoMFA" \notin cut.early) /\ (c.membersNoMFA.late <=> "membersNoMFA" \notin cut.early)
           /\ c.owners.late \in BOOLEAN /\ c.members.late \in BOOLEAN /\ c.ownersNoMFA.late \in BOOLEAN /\ c.membersNoMFA.late \in BOOLEAN
           /\ c.owners = [items |-> c.owners.items, whole |-> c.owners.whole, late |-> c.owners.late]
           /\ c.members = [items |-> c.members.items, whole |-> c.members.whole, late |-> c.members.late]
<1> DEFINE member == authority \in {"member", "owner"}
           owner == authority = "owner"
<1>1. /\ c.owners = Population(o.owners, cut, member, "owners")
      /\ c.members = Population(o.members, cut, member, "members")
      /\ c.ownersNoMFA = Population(IF owner THEN o.owners \cap o.noMFA ELSE {}, cut, owner, "ownersNoMFA")
      /\ c.membersNoMFA = Population(IF owner THEN o.members \cap o.noMFA ELSE {}, cut, owner, "membersNoMFA")
      /\ c.outside = Population(o.outside, cut, owner, "outside")
      /\ c.invited = Population(o.invited, cut, owner, "invited")
      /\ c.listed = Population({r \in DOMAIN o.repos : o.repos[r].public}, cut, FALSE, "listed")
  BY Zenon DEF IsCollection
<1>2. member \in BOOLEAN /\ owner \in BOOLEAN
  OBVIOUS
<1>3. owner => (IF owner THEN o.owners \cap o.noMFA ELSE {}) = o.owners \cap o.noMFA
  OBVIOUS
<1>4. owner => (IF owner THEN o.members \cap o.noMFA ELSE {}) = o.members \cap o.noMFA
  OBVIOUS
<1>5. /\ (IF owner THEN o.owners \cap o.noMFA ELSE {}) \subseteq o.owners \cap o.noMFA
      /\ (IF owner THEN o.members \cap o.noMFA ELSE {}) \subseteq o.members \cap o.noMFA
  OBVIOUS
<1> HIDE DEF member, owner
<1>6. /\ c.owners.items \subseteq o.owners /\ (c.owners.whole => c.owners.items = o.owners)
      /\ (c.owners.late <=> "owners" \notin cut.early) /\ c.owners.late \in BOOLEAN
      /\ c.owners = [items |-> c.owners.items, whole |-> c.owners.whole, late |-> c.owners.late]
  <2>1. c.owners = Population(o.owners, cut, member, "owners")
    BY <1>1
  <2> QED
    BY <1>2, <2>1, PopulationIs
<1>7. /\ c.members.items \subseteq o.members /\ (c.members.whole => c.members.items = o.members)
      /\ (c.members.late <=> "members" \notin cut.early) /\ c.members.late \in BOOLEAN
      /\ c.members = [items |-> c.members.items, whole |-> c.members.whole, late |-> c.members.late]
  <2>1. c.members = Population(o.members, cut, member, "members")
    BY <1>1
  <2> QED
    BY <1>2, <2>1, PopulationIs
<1>8. /\ c.outside.items \subseteq o.outside /\ (c.outside.whole => c.outside.items = o.outside)
      /\ (c.outside.late <=> "outside" \notin cut.early)
      /\ c.outside = [items |-> c.outside.items, whole |-> c.outside.whole, late |-> c.outside.late]
  <2>1. c.outside = Population(o.outside, cut, owner, "outside")
    BY <1>1
  <2> QED
    BY <1>2, <2>1, PopulationIs
<1>9. /\ c.invited.items \subseteq o.invited /\ (c.invited.whole => c.invited.items = o.invited)
      /\ (c.invited.late <=> "invited" \notin cut.early)
      /\ c.invited = [items |-> c.invited.items, whole |-> c.invited.whole, late |-> c.invited.late]
  <2>1. c.invited = Population(o.invited, cut, owner, "invited")
    BY <1>1
  <2> QED
    BY <1>2, <2>1, PopulationIs
<1>10. /\ c.ownersNoMFA.items \subseteq o.owners \cap o.noMFA
       /\ c.ownersNoMFA.whole => c.ownersNoMFA.items = o.owners \cap o.noMFA
       /\ (c.ownersNoMFA.late <=> "ownersNoMFA" \notin cut.early) /\ c.ownersNoMFA.late \in BOOLEAN
  <2> DEFINE known == IF owner THEN o.owners \cap o.noMFA ELSE {}
  <2>1. c.ownersNoMFA = Population(known, cut, owner, "ownersNoMFA")
    BY <1>1
  <2>2. known \subseteq o.owners \cap o.noMFA /\ (owner => known = o.owners \cap o.noMFA)
    BY <1>3, <1>4, <1>5
  <2> HIDE DEF known
  <2>3. c.ownersNoMFA.items \subseteq known /\ (c.ownersNoMFA.late <=> "ownersNoMFA" \notin cut.early) /\ c.ownersNoMFA.late \in BOOLEAN
        /\ (c.ownersNoMFA.whole => owner /\ c.ownersNoMFA.items = known)
    BY <1>2, <2>1, PopulationIs
  <2> QED
    BY <2>2, <2>3
<1>11. /\ c.membersNoMFA.items \subseteq o.members \cap o.noMFA
       /\ c.membersNoMFA.whole => c.membersNoMFA.items = o.members \cap o.noMFA
       /\ (c.membersNoMFA.late <=> "membersNoMFA" \notin cut.early) /\ c.membersNoMFA.late \in BOOLEAN
  <2> DEFINE known == IF owner THEN o.members \cap o.noMFA ELSE {}
  <2>1. c.membersNoMFA = Population(known, cut, owner, "membersNoMFA")
    BY <1>1
  <2>2. known \subseteq o.members \cap o.noMFA /\ (owner => known = o.members \cap o.noMFA)
    BY <1>3, <1>4, <1>5
  <2> HIDE DEF known
  <2>3. c.membersNoMFA.items \subseteq known /\ (c.membersNoMFA.late <=> "membersNoMFA" \notin cut.early) /\ c.membersNoMFA.late \in BOOLEAN
        /\ (c.membersNoMFA.whole => owner /\ c.membersNoMFA.items = known)
    BY <1>2, <2>1, PopulationIs
  <2> QED
    BY <2>2, <2>3
<1>12. c.listed.items \subseteq {r \in DOMAIN o.repos : o.repos[r].public}
  <2>1. c.listed = Population({r \in DOMAIN o.repos : o.repos[r].public}, cut, FALSE, "listed")
    BY <1>1
  <2> QED
    BY <2>1 DEF Population
<1> QED
  BY <1>6, <1>7, <1>8, <1>9, <1>10, <1>11, <1>12

LEMMA CutOutside ==
    ASSUME NEW authority, NEW o, NEW cut, NEW c, IsCollection(c, authority, o, cut)
    PROVE  /\ c.outside.items \subseteq o.outside
           /\ c.outside.whole => c.outside.items = o.outside
           /\ c.invited.items \subseteq o.invited
           /\ c.invited.whole => c.invited.items = o.invited
<1> DEFINE owner == authority = "owner"
<1>1. /\ c.outside = Population(o.outside, cut, owner, "outside")
      /\ c.invited = Population(o.invited, cut, owner, "invited")
  BY Zenon DEF IsCollection
<1>2. owner \in BOOLEAN
  OBVIOUS
<1> HIDE DEF owner
<1>3. c.outside.items \subseteq o.outside /\ (c.outside.whole => c.outside.items = o.outside)
  BY <1>1, <1>2, PopulationIs
<1>4. c.invited.items \subseteq o.invited /\ (c.invited.whole => c.invited.items = o.invited)
  BY <1>1, <1>2, PopulationIs
<1> QED
  BY <1>3, <1>4

LEMMA WholeListings ==
    ASSUME NEW o, NEW cut, cut.at = {}, NEW c, IsCollection(c, "owner", o, cut)
    PROVE  /\ c.owners.items = o.owners /\ c.members.items = o.members /\ c.outside.items = o.outside /\ c.invited.items = o.invited
           /\ c.ownersNoMFA.items = o.owners \cap o.noMFA /\ c.membersNoMFA.items = o.members \cap o.noMFA
           /\ c.owners.whole /\ c.members.whole /\ c.authority /\ c.orgRead
<1>1. /\ c.owners = Population(o.owners, cut, TRUE, "owners")
      /\ c.members = Population(o.members, cut, TRUE, "members")
      /\ c.ownersNoMFA = Population(o.owners \cap o.noMFA, cut, TRUE, "ownersNoMFA")
      /\ c.membersNoMFA = Population(o.members \cap o.noMFA, cut, TRUE, "membersNoMFA")
      /\ c.outside = Population(o.outside, cut, TRUE, "outside")
      /\ c.invited = Population(o.invited, cut, TRUE, "invited")
      /\ c.authority /\ c.orgRead
  BY DEF IsCollection
<1>2. c.owners.items = o.owners /\ c.owners.whole
  <2>1. c.owners = Population(o.owners, cut, TRUE, "owners")
    BY <1>1
  <2>2. Population(o.owners, cut, TRUE, "owners") = [items |-> o.owners, whole |-> TRUE, late |-> "owners" \notin cut.early]
    BY WholePopulation, Zenon
  <2>3. c.owners = [items |-> o.owners, whole |-> TRUE, late |-> "owners" \notin cut.early]
    BY <2>1, <2>2, Zenon
  <2> QED
    BY <2>3
<1>3. c.members.items = o.members /\ c.members.whole
  <2>1. c.members = Population(o.members, cut, TRUE, "members")
    BY <1>1
  <2>2. Population(o.members, cut, TRUE, "members") = [items |-> o.members, whole |-> TRUE, late |-> "members" \notin cut.early]
    BY WholePopulation, Zenon
  <2>3. c.members = [items |-> o.members, whole |-> TRUE, late |-> "members" \notin cut.early]
    BY <2>1, <2>2, Zenon
  <2> QED
    BY <2>3
<1>4. c.outside.items = o.outside /\ c.outside.whole
  <2>1. c.outside = Population(o.outside, cut, TRUE, "outside")
    BY <1>1
  <2>2. Population(o.outside, cut, TRUE, "outside") = [items |-> o.outside, whole |-> TRUE, late |-> "outside" \notin cut.early]
    BY WholePopulation, Zenon
  <2>3. c.outside = [items |-> o.outside, whole |-> TRUE, late |-> "outside" \notin cut.early]
    BY <2>1, <2>2, Zenon
  <2> QED
    BY <2>3
<1>5. c.invited.items = o.invited /\ c.invited.whole
  <2>1. c.invited = Population(o.invited, cut, TRUE, "invited")
    BY <1>1
  <2>2. Population(o.invited, cut, TRUE, "invited") = [items |-> o.invited, whole |-> TRUE, late |-> "invited" \notin cut.early]
    BY WholePopulation, Zenon
  <2>3. c.invited = [items |-> o.invited, whole |-> TRUE, late |-> "invited" \notin cut.early]
    BY <2>1, <2>2, Zenon
  <2> QED
    BY <2>3
<1>6. c.ownersNoMFA.items = o.owners \cap o.noMFA /\ c.ownersNoMFA.whole
  <2>1. c.ownersNoMFA = Population(o.owners \cap o.noMFA, cut, TRUE, "ownersNoMFA")
    BY <1>1
  <2>2. Population(o.owners \cap o.noMFA, cut, TRUE, "ownersNoMFA") = [items |-> o.owners \cap o.noMFA, whole |-> TRUE, late |-> "ownersNoMFA" \notin cut.early]
    BY WholePopulation, Zenon
  <2>3. c.ownersNoMFA = [items |-> o.owners \cap o.noMFA, whole |-> TRUE, late |-> "ownersNoMFA" \notin cut.early]
    BY <2>1, <2>2, Zenon
  <2> QED
    BY <2>3
<1>7. c.membersNoMFA.items = o.members \cap o.noMFA /\ c.membersNoMFA.whole
  <2>1. c.membersNoMFA = Population(o.members \cap o.noMFA, cut, TRUE, "membersNoMFA")
    BY <1>1
  <2>2. Population(o.members \cap o.noMFA, cut, TRUE, "membersNoMFA") = [items |-> o.members \cap o.noMFA, whole |-> TRUE, late |-> "membersNoMFA" \notin cut.early]
    BY WholePopulation, Zenon
  <2>3. c.membersNoMFA = [items |-> o.members \cap o.noMFA, whole |-> TRUE, late |-> "membersNoMFA" \notin cut.early]
    BY <2>1, <2>2, Zenon
  <2> QED
    BY <2>3
<1> QED
  BY <1>1, <1>2, <1>3, <1>4, <1>5, <1>6, <1>7

\* The listings of accounts read are part of the whole ones.
LEMMA AccountsPart ==
    ASSUME NEW o, NEW cut, NEW full, full.at = {}, NEW s, s = Collected(o, cut), NEW W, W = CollectedAs("owner", o, full)
    PROVE  /\ Loses(Merged(s).owners, Merged(W).owners) /\ Loses(Merged(s).members, Merged(W).members)
           /\ Merged(W).owners = W.owners /\ Merged(W).members = W.members
           /\ Merged(s).owners.late => s.owners.late
           /\ s.owners.late /\ s.ownersNoMFA.late => Merged(s).owners.late
<1>1. IsCollection(s, o.authority, o, cut) /\ IsCollection(W, "owner", o, full)
  BY CollectedIs DEF Collected
<1>2. /\ W.owners.items = o.owners /\ W.members.items = o.members
      /\ W.ownersNoMFA.items = o.owners \cap o.noMFA /\ W.membersNoMFA.items = o.members \cap o.noMFA
  BY <1>1, WholeListings
<1>3. /\ s.owners.items \subseteq o.owners /\ (s.owners.whole => s.owners.items = o.owners)
      /\ s.members.items \subseteq o.members /\ (s.members.whole => s.members.items = o.members)
      /\ s.ownersNoMFA.items \subseteq o.owners \cap o.noMFA /\ s.membersNoMFA.items \subseteq o.members \cap o.noMFA
      /\ s.owners = [items |-> s.owners.items, whole |-> s.owners.whole, late |-> s.owners.late]
      /\ s.members = [items |-> s.members.items, whole |-> s.members.whole, late |-> s.members.late]
      /\ s.owners.late \in BOOLEAN /\ s.ownersNoMFA.late \in BOOLEAN /\ s.members.late \in BOOLEAN /\ s.membersNoMFA.late \in BOOLEAN
  BY <1>1, CutListings
<1>4. WithDisabled(W.owners, W.ownersNoMFA) = W.owners /\ WithDisabled(W.members, W.membersNoMFA) = W.members
  BY <1>2 DEF WithDisabled
<1>5. Merged(W).owners = W.owners /\ Merged(W).members = W.members
  BY <1>4, MergedIs
<1>6. /\ Merged(s).owners = s.owners \/ Merged(s).owners = WithDisabled(s.owners, s.ownersNoMFA)
      /\ Merged(s).members = s.members \/ Merged(s).members = WithDisabled(s.members, s.membersNoMFA)
  BY MergedIs DEF Collected
<1>7. Loses(s.owners, W.owners) /\ Loses(s.members, W.members)
  BY <1>2, <1>3 DEF Loses
<1>8. /\ Loses(WithDisabled(s.owners, s.ownersNoMFA), W.owners) /\ (WithDisabled(s.owners, s.ownersNoMFA).late => s.owners.late)
      /\ s.owners.late /\ s.ownersNoMFA.late => WithDisabled(s.owners, s.ownersNoMFA).late
  <2> DEFINE p == WithDisabled(s.owners, s.ownersNoMFA)
  <2>1. CASE s.ownersNoMFA.items \subseteq s.owners.items
    BY <1>7, <2>1 DEF WithDisabled
  <2>2. CASE ~(s.ownersNoMFA.items \subseteq s.owners.items)
    <3>1. p.items = s.owners.items \cup s.ownersNoMFA.items /\ ~p.whole /\ (p.late <=> s.owners.late /\ s.ownersNoMFA.late)
      BY <1>3, <2>2, WithDisabledIs
    <3> HIDE DEF p
    <3>2. p.items \subseteq W.owners.items
      BY <1>2, <1>3, <3>1
    <3> QED
      BY <3>1, <3>2 DEF Loses, p
  <2> QED
    BY <2>1, <2>2
<1>9. Loses(WithDisabled(s.members, s.membersNoMFA), W.members)
  <2> DEFINE p == WithDisabled(s.members, s.membersNoMFA)
  <2>1. CASE s.membersNoMFA.items \subseteq s.members.items
    BY <1>7, <2>1 DEF WithDisabled
  <2>2. CASE ~(s.membersNoMFA.items \subseteq s.members.items)
    <3>1. p.items = s.members.items \cup s.membersNoMFA.items /\ ~p.whole
      BY <1>3, <2>2, WithDisabledIs
    <3> HIDE DEF p
    <3>2. p.items \subseteq W.members.items
      BY <1>2, <1>3, <3>1
    <3> QED
      BY <3>1, <3>2 DEF Loses, p
  <2> QED
    BY <2>1, <2>2
<1> QED
  BY <1>5, <1>6, <1>7, <1>8, <1>9

\* A population is late in the whole when it was when read.
LEMMA LateInWhole ==
    ASSUME NEW o, NEW cut, NEW s, s = Collected(o, cut), NEW full, full.early = Early(s), NEW W, W = CollectedAs("owner", o, full)
    PROVE  /\ W.owners.late <=> s.owners.late
           /\ W.members.late <=> s.members.late
           /\ W.outside.late <=> s.outside.late
           /\ W.invited.late <=> s.invited.late
           /\ \A r \in DOMAIN o.repos : W.repos[r].list.late <=> s.repos[r].list.late
           /\ cut.early = {} => full.early = {} /\ Timely(s) /\ \A r \in DOMAIN o.repos : W.repos[r].list.late
<1>1. IsCollection(s, o.authority, o, cut) /\ IsCollection(W, "owner", o, full)
  BY CollectedIs DEF Collected
<1>2. /\ s.owners.late <=> "owners" \notin cut.early
      /\ s.members.late <=> "members" \notin cut.early
      /\ s.outside.late <=> "outside" \notin cut.early
      /\ s.invited.late <=> "invited" \notin cut.early
      /\ s.ownersNoMFA.late <=> "ownersNoMFA" \notin cut.early
      /\ s.membersNoMFA.late <=> "membersNoMFA" \notin cut.early
  BY <1>1, CutListings
<1>3. /\ W.owners.late <=> "owners" \notin full.early
      /\ W.members.late <=> "members" \notin full.early
      /\ W.outside.late <=> "outside" \notin full.early
      /\ W.invited.late <=> "invited" \notin full.early
  BY <1>1, CutListings
<1>4. \A c, authority, u : IsCollection(c, authority, o, u) =>
         DOMAIN c.repos = DOMAIN o.repos /\ \A r \in DOMAIN o.repos : c.repos[r].list.late <=> "list" \notin u.early
  <2> TAKE c, authority, u
  <2> HAVE IsCollection(c, authority, o, u)
  <2>1. DOMAIN c.repos = DOMAIN o.repos
    BY Zenon DEF IsCollection
  <2>2. ASSUME NEW r \in DOMAIN o.repos PROVE c.repos[r].list.late <=> "list" \notin u.early
    <3>1. c.repos[r].list = Population(IF r \in u.at THEN {} ELSE DOMAIN o.repos[r].roles, u, FALSE, "list")
      BY Zenon DEF IsCollection
    <3>2. \E visible \in BOOLEAN :
             c.repos[r].list = Population(IF r \in u.at THEN {} ELSE DOMAIN o.repos[r].roles, u, visible, "list")
      BY <3>1, Zenon
    <3> DEFINE p == c.repos[r].list
               known == IF r \in u.at THEN {} ELSE DOMAIN o.repos[r].roles
    <3>3. PICK visible \in BOOLEAN : p = Population(known, u, visible, "list")
      BY <3>2
    <3> HIDE DEF p, known
    <3>4. p.late <=> "list" \notin u.early
      BY <3>3, PopulationIs
    <3> QED
      BY <3>4 DEF p
  <2> QED
    BY <2>1, <2>2
<1>5. /\ DOMAIN s.repos = DOMAIN o.repos
      /\ \A r \in DOMAIN o.repos : s.repos[r].list.late <=> "list" \notin cut.early
      /\ \A r \in DOMAIN o.repos : W.repos[r].list.late <=> "list" \notin full.early
  BY <1>1, <1>4
<1>6. full.early = {n \in {"owners", "members", "outside", "invited"} : ~s[n].late}
                     \cup {"list" : r \in {q \in DOMAIN s.repos : ~s.repos[q].list.late}}
  BY DEF Early
<1>7. /\ "owners" \in full.early <=> ~s.owners.late
      /\ "members" \in full.early <=> ~s.members.late
      /\ "outside" \in full.early <=> ~s.outside.late
      /\ "invited" \in full.early <=> ~s.invited.late
      /\ "list" \in full.early <=> \E r \in DOMAIN s.repos : ~s.repos[r].list.late
  BY <1>6
<1>8. ASSUME cut.early = {}
      PROVE  full.early = {} /\ Timely(s) /\ \A r \in DOMAIN o.repos : W.repos[r].list.late
  <2>1. \A n \in {"owners", "members", "outside", "ownersNoMFA", "membersNoMFA"} : s[n].late
    BY <1>2, <1>8
  <2>2. s.invited.late
    BY <1>2, <1>8
  <2>3. \A r \in DOMAIN s.repos : s.repos[r].list.late
    BY <1>5, <1>8
  <2>4. full.early = {}
    BY <1>6, <2>1, <2>2, <2>3
  <2> QED
    BY <1>5, <2>1, <2>4 DEF Timely
<1> QED
  BY <1>3, <1>5, <1>7, <1>8

LEMMA RepositoriesPart ==
    ASSUME NEW o, NEW cut, NEW s, s = Collected(o, cut), NEW W, W = Whole(o, s), NEW r \in DOMAIN o.repos
    PROVE  RepositoryPart(s.repos[r], W.repos[r])
<1> DEFINE full == [at |-> {}, kept |-> Held(o), early |-> Early(s)]
           p == s.repos[r]
           q == W.repos[r]
<1>1. IsCollection(s, o.authority, o, cut) /\ IsCollection(W, "owner", o, full)
  BY CollectedIs DEF Collected, Whole
<1>2. /\ p.read = (r \notin cut.at) /\ p.public = o.repos[r].public
      /\ p.declaredPublic = o.repos[r].declaredPublic /\ p.roles = o.repos[r].roles
      /\ p.archived = o.repos[r].archived /\ p.private = ~o.repos[r].public
      /\ p.list = Population(IF r \in cut.at THEN {} ELSE DOMAIN o.repos[r].roles, cut, FALSE, "list")
      /\ p.keys = Population(IF r \in cut.at THEN {} ELSE o.repos[r].keys, cut, r \notin cut.at, "keys")
  BY <1>1 DEF IsCollection
<1>3. /\ q.read = (r \notin full.at) /\ q.public = o.repos[r].public
      /\ q.declaredPublic = o.repos[r].declaredPublic /\ q.roles = o.repos[r].roles
      /\ q.archived = o.repos[r].archived /\ q.private = ~o.repos[r].public
      /\ q.list = Population(IF r \in full.at THEN {} ELSE DOMAIN o.repos[r].roles, full, FALSE, "list")
      /\ q.keys = Population(IF r \in full.at THEN {} ELSE o.repos[r].keys, full, r \notin full.at, "keys")
  BY <1>1 DEF IsCollection
<1>4. DOMAIN o.repos[r].roles \subseteq full.kept /\ full.at = {}
  BY DEF Held
<1> HIDE DEF full, p, q
<1>5. p.list.items \subseteq DOMAIN o.repos[r].roles /\ ~p.list.whole
  <2>1. p.list = Population(IF r \in cut.at THEN {} ELSE DOMAIN o.repos[r].roles, cut, FALSE, "list")
    BY <1>2
  <2>2. p.list = [items |-> (IF r \in cut.at THEN {} ELSE DOMAIN o.repos[r].roles) \cap cut.kept, whole |-> FALSE,
                  late |-> "list" \notin cut.early]
    BY <2>1, HiddenPopulation, Zenon
  <2> QED
    BY <2>2
<1>6. q.list.items = DOMAIN o.repos[r].roles
  BY <1>3, <1>4 DEF Population
<1>7. p.keys.items \subseteq o.repos[r].keys /\ (p.keys.whole => p.keys.items = o.repos[r].keys)
  <2> DEFINE usable == r \notin cut.at
             known == IF r \in cut.at THEN {} ELSE o.repos[r].keys
  <2>1. p.keys = Population(known, cut, usable, "keys")
    BY <1>2
  <2>2. known \subseteq o.repos[r].keys /\ (usable => known = o.repos[r].keys) /\ usable \in BOOLEAN
    OBVIOUS
  <2> HIDE DEF usable, known
  <2>3. p.keys.items \subseteq known /\ (p.keys.whole => usable /\ p.keys.items = known)
    BY <2>1, <2>2, PopulationIs
  <2> QED
    BY <2>2, <2>3
<1>8. q.keys.items = o.repos[r].keys /\ q.read
  <2>1. q.keys = Population(IF r \in full.at THEN {} ELSE o.repos[r].keys, full, r \notin full.at, "keys")
    BY <1>3
  <2>2. q.keys.items = o.repos[r].keys
    BY <1>4, <2>1 DEF Population
  <2>3. q.read = (r \notin full.at)
    BY <1>3
  <2> QED
    BY <1>4, <2>2, <2>3
<1>9. p.list.late <=> q.list.late
  BY LateInWhole DEF Whole, p, q
<1>10. \A answer : InterpretPermission(answer, p) = InterpretPermission(answer, q)
  <2>1. p.archived = q.archived /\ p.private = q.private
    BY <1>2, <1>3
  <2> QED
    BY <2>1, Zenon DEF InterpretPermission
<1>11. p.public = q.public /\ p.declaredPublic = q.declaredPublic /\ p.roles = q.roles
  BY <1>2, <1>3
<1>12. RepositoryPart(p, q)
  BY <1>5, <1>6, <1>7, <1>8, <1>9, <1>10, <1>11 DEF RepositoryPart, Loses
<1> QED
  BY <1>12 DEF p, q

\* What was read is part of what the organization holds.
LEMMA OrgPart ==
    ASSUME NEW o \in Organizations, NEW cut, NEW s, s = Collected(o, cut)
    PROVE  PartOf(Merged(s), Merged(Whole(o, s)), Timely(s))
<1> DEFINE full == [at |-> {}, kept |-> Held(o), early |-> Early(s)]
           W == CollectedAs("owner", o, full)
           e == Merged(s)
           w == Merged(W)
<1>0. /\ o.mfa \in BOOLEAN /\ IsFiniteSet(o.owners) /\ IsFiniteSet(o.members)
      /\ "-" \notin DOMAIN People \cup o.owners \cup o.members /\ Org \notin DOMAIN o.repos
  BY AccessAssumption DEF Org
<1>1. IsCollection(s, o.authority, o, cut) /\ IsCollection(W, "owner", o, full)
  BY CollectedIs DEF Collected
<1>2. full.at = {} /\ full.early = Early(s) /\ Whole(o, s) = W
  BY DEF Whole
<1>3. /\ e.mfa = s.mfa /\ e.ownersNoMFA = s.ownersNoMFA /\ e.membersNoMFA = s.membersNoMFA
      /\ e.outside = s.outside /\ e.invited = s.invited /\ e.listed = s.listed /\ e.perms = s.perms /\ e.repos = s.repos
  BY MergedIs DEF Collected
<1>4. /\ w.mfa = W.mfa /\ w.ownersNoMFA = W.ownersNoMFA /\ w.membersNoMFA = W.membersNoMFA /\ w.authority = W.authority
      /\ w.outside = W.outside /\ w.invited = W.invited /\ w.listed = W.listed /\ w.perms = W.perms /\ w.repos = W.repos
      /\ w.orgRead = W.orgRead
  BY MergedIs
<1> HIDE DEF full, W, e, w
<1>5. /\ W.owners.items = o.owners /\ W.members.items = o.members /\ W.outside.items = o.outside /\ W.invited.items = o.invited
      /\ W.ownersNoMFA.items = o.owners \cap o.noMFA /\ W.membersNoMFA.items = o.members \cap o.noMFA
      /\ W.owners.whole /\ W.members.whole /\ W.authority /\ W.orgRead
  BY <1>1, <1>2, WholeListings
<1>6. /\ Loses(e.owners, w.owners) /\ Loses(e.members, w.members)
      /\ w.owners = W.owners /\ w.members = W.members
      /\ s.owners.late /\ s.ownersNoMFA.late => e.owners.late
  BY <1>2, AccountsPart DEF e, w, W
<1>7. /\ Loses(e.outside, w.outside) /\ Loses(e.invited, w.invited)
      /\ Loses(e.ownersNoMFA, w.ownersNoMFA) /\ Loses(e.membersNoMFA, w.membersNoMFA)
  <2>0. IsCollection(s, o.authority, o, cut)
    BY <1>1
  <2>1. s.outside.items \subseteq o.outside /\ (s.outside.whole => s.outside.items = o.outside)
    BY <2>0, CutOutside
  <2>4. s.invited.items \subseteq o.invited /\ (s.invited.whole => s.invited.items = o.invited)
    BY <2>0, CutOutside
  <2>2. /\ s.ownersNoMFA.items \subseteq o.owners \cap o.noMFA
        /\ s.ownersNoMFA.whole => s.ownersNoMFA.items = o.owners \cap o.noMFA
    BY <2>0, CutListings
  <2>3. /\ s.membersNoMFA.items \subseteq o.members \cap o.noMFA
        /\ s.membersNoMFA.whole => s.membersNoMFA.items = o.members \cap o.noMFA
    BY <2>0, CutListings
  <2> QED
    BY <1>3, <1>4, <1>5, <2>1, <2>2, <2>3, <2>4 DEF Loses
<1>8. /\ W.owners.late <=> s.owners.late
      /\ W.members.late <=> s.members.late
      /\ W.outside.late <=> s.outside.late
      /\ W.invited.late <=> s.invited.late
      /\ cut.early = {} => full.early = {} /\ Timely(s) /\ \A r \in DOMAIN o.repos : W.repos[r].list.late
  BY <1>2, LateInWhole DEF W
<1>9. /\ e.invited.late <=> w.invited.late
      /\ Timely(s) => e.owners.late /\ w.owners.late /\ w.members.late /\ w.outside.late
  <2>1. Timely(s) => s.owners.late /\ s.members.late /\ s.outside.late /\ s.ownersNoMFA.late
    BY DEF Timely
  <2> QED
    BY <1>3, <1>4, <1>6, <1>8, <2>1
<1>10. DOMAIN s.repos = DOMAIN o.repos /\ DOMAIN W.repos = DOMAIN o.repos
  BY <1>1, Zenon DEF IsCollection
<1>11. /\ DOMAIN e.repos = DOMAIN w.repos /\ Org \notin DOMAIN w.repos
       /\ \A r \in DOMAIN w.repos : RepositoryPart(e.repos[r], w.repos[r])
  <2>1. \A r \in DOMAIN o.repos : RepositoryPart(s.repos[r], W.repos[r])
    BY <1>2, RepositoriesPart
  <2> QED
    BY <1>0, <1>3, <1>4, <1>10, <2>1
<1>12. /\ e.listed.items \subseteq {r \in DOMAIN w.repos : w.repos[r].public} /\ w.listed.items \subseteq DOMAIN w.repos
  <2>1. \A r \in DOMAIN o.repos : W.repos[r].public = o.repos[r].public
    BY <1>1, Zenon DEF IsCollection
  <2>2. /\ s.listed.items \subseteq {r \in DOMAIN o.repos : o.repos[r].public}
        /\ W.listed.items \subseteq {r \in DOMAIN o.repos : o.repos[r].public}
    BY <1>1, CutListings
  <2> QED
    BY <1>3, <1>4, <1>10, <2>1, <2>2
<1>13. \/ \A r \in DOMAIN w.repos, a \in DOMAIN People : e.perms[r][a] = "unsent"
       \/ Timely(s) /\ e.perms = w.perms /\ \A r \in DOMAIN w.repos : w.repos[r].list.late
  <2>1. /\ s.perms = [r \in DOMAIN o.repos |-> [a \in DOMAIN People |-> IF cut.early = {} THEN o.answers ELSE "unsent"]]
        /\ W.perms = [r \in DOMAIN o.repos |-> [a \in DOMAIN People |-> IF full.early = {} THEN o.answers ELSE "unsent"]]
    BY <1>1, Zenon DEF IsCollection
  <2>2. CASE cut.early = {}
    <3>1. s.perms = [r \in DOMAIN o.repos |-> [a \in DOMAIN People |-> o.answers]]
      BY <2>1, <2>2
    <3>2. W.perms = [r \in DOMAIN o.repos |-> [a \in DOMAIN People |-> o.answers]]
      BY <1>8, <2>1, <2>2
    <3> QED
      BY <1>3, <1>4, <1>8, <1>10, <2>2, <3>1, <3>2
  <2>3. CASE cut.early # {}
    <3>1. s.perms = [r \in DOMAIN o.repos |-> [a \in DOMAIN People |-> "unsent"]]
      BY <2>1, <2>3
    <3> QED
      BY <1>3, <1>4, <1>10, <3>1
  <2> QED
    BY <2>2, <2>3
<1>14. e.mfa <=> w.mfa
  <2>1. s.mfa = o.mfa /\ W.mfa = o.mfa
    BY <1>1, Zenon DEF IsCollection
  <2> QED
    BY <1>3, <1>4, <2>1
<1>15. /\ w.authority /\ w.orgRead /\ w.owners.whole /\ w.members.whole
       /\ IsFiniteSet(w.owners.items) /\ IsFiniteSet(w.members.items)
       /\ "-" \notin DOMAIN People \cup w.owners.items \cup w.members.items
  BY <1>0, <1>4, <1>5, <1>6
<1>16. PartOf(e, w, Timely(s))
  BY <1>6, <1>7, <1>9, <1>11, <1>12, <1>13, <1>14, <1>15, Zenon DEF PartOf
<1> QED
  BY <1>2, <1>16 DEF e, w

\* Every judgment of what was read stands on the whole.
LEMMA AccessSafe == ASSUME NEW o \in Organizations, NEW cut, NEW s, s = Collected(o, cut)
                    PROVE  LET whole == JudgeAccess(Whole(o, s))
                           IN  \A j \in JudgeAccess(s) :
                                 /\ j.verdict = "fired" => Stands(j, whole, Timely(s))
                                 /\ j.verdict = "disproved" =>
                                      ~\E k \in whole : /\ k.id = j.id /\ k.verdict = "fired"
                                                        /\ (j.subject = "-" \/ j.subject = k.subject)
                                                        /\ (j.asset = Org \/ j.asset = k.asset)
<1> DEFINE whole == JudgeAccess(Whole(o, s))
           e == Merged(s)
           w == Merged(Whole(o, s))
<1>0. PartOf(e, w, Timely(s))
  BY OrgPart
<1>1. JudgeAccess(s) = Said(e) \cup Gaps(e, Said(e)) /\ whole = Said(w) \cup Gaps(w, Said(w))
  BY JudgeIs
<1> HIDE DEF whole, e, w
<1>2. Org \notin DOMAIN w.repos /\ w.listed.items \subseteq DOMAIN w.repos
  BY <1>0 DEF PartOf
<1>3. ASSUME NEW k \in whole, k.verdict = "fired" PROVE FiresAt(w, k.id, k.asset, k.subject)
  BY <1>1, <1>3, SaidSound, GapSound DEF Backed
<1>4. ASSUME NEW id, NEW x, NEW a, FiresAt(w, id, x, a)
      PROVE  Judgment(id, x, a, "fired") \in whole
  BY <1>1, <1>2, <1>4, FiresSaid
<1>5. ASSUME NEW j \in JudgeAccess(s), j.verdict = "fired" PROVE Stands(j, whole, Timely(s))
  <2>1. FiresAt(e, j.id, j.asset, j.subject)
    BY <1>1, <1>5, SaidSound, GapSound DEF Backed
  <2>2. ASSUME NEW y, FiresAt(w, j.id, y, j.subject), j.id = "former" \/ y = j.asset
        PROVE  Stands(j, whole, Timely(s))
    <3>1. Judgment(j.id, y, j.subject, "fired") \in whole
      BY <1>4, <2>2
    <3> QED
      BY <2>2, <3>1 DEF Stands, Judgment
  <2>3. ASSUME ~Timely(s), j.id \in {"former", "unexpected"}, NEW y, Judgment(j.id, y, j.subject, "abstained") \in Said(w),
               j.id = "former" \/ y = j.asset
        PROVE  Stands(j, whole, Timely(s))
    <3>1. Judgment(j.id, y, j.subject, "abstained") \in whole
      BY <1>1, <2>3
    <3> QED
      BY <2>3, <3>1 DEF Stands, Judgment
  <2>4. CASE j.id = "former"
    <3>1. \/ \E y : FiresAt(w, "former", y, j.subject)
          \/ ~Timely(s) /\ Judgment("former", Org, j.subject, "abstained") \in Said(w)
      BY <1>0, <2>1, <2>4, FormerInWhole
    <3> QED
      BY <2>2, <2>3, <2>4, <3>1
  <2>5. CASE j.id = "unexpected"
    <3>1. \/ FiresAt(w, "unexpected", j.asset, j.subject)
          \/ ~Timely(s) /\ Judgment("unexpected", Org, j.subject, "abstained") \in Said(w)
      BY <1>0, <2>1, <2>5, UnexpectedInWhole
    <3>2. j.asset = Org
      BY <2>1, <2>5 DEF FiresAt
    <3> QED
      BY <2>2, <2>3, <2>5, <3>1, <3>2
  <2>6. CASE j.id \notin {"former", "unexpected"}
    BY <1>0, <2>1, <2>2, <2>6, OthersInWhole
  <2> QED
    BY <2>4, <2>5, <2>6
<1>6. ASSUME NEW j \in JudgeAccess(s), j.verdict = "disproved",
             NEW k \in whole, k.id = j.id, k.verdict = "fired", j.subject = "-" \/ j.subject = k.subject, j.asset = Org \/ j.asset = k.asset
      PROVE  FALSE
  <2>1. FiresAt(w, j.id, k.asset, k.subject)
    BY <1>3, <1>6
  <2>2. CASE j \in Said(e)
    <3>1. DisprovedAt(e, j.id, j.asset, j.subject)
      BY <1>6, <2>2, SaidSound DEF Backed
    <3> QED
      BY <1>0, <1>6, <2>1, <3>1, DisprovedInWhole
  <2>3. CASE j \in Gaps(e, Said(e))
    <3>1. NoneAt(e, j.id)
      BY <1>6, <2>3, GapSound
    <3> QED
      BY <1>0, <2>1, <3>1, NoneInWhole
  <2> QED
    BY <1>1, <2>2, <2>3
<1> QED
  BY <1>5, <1>6 DEF whole

\* What was read is a collection of the organization.
AccessIInv == org \in Organizations /\ (seen = NotRead \/ \E cut \in Cuts : seen = Collected(org, cut))

LEMMA AccessInductive == AccessSpec => []AccessIInv
<1>1. AccessInit => AccessIInv
  BY DEF AccessInit, AccessIInv
<1>2. AccessIInv /\ [AccessNext]_accessVars => AccessIInv'
  BY DEF AccessIInv, AccessNext, accessVars
<1> QED
  BY <1>1, <1>2, PTL DEF AccessSpec

\* What the identity and repository rules conclude of listings that ended
\* early is what they conclude of the whole ones: a finding stands and a
\* disproved rule does not fire (collector/github/rules.go, JudgeAccess).
THEOREM AccessAlwaysLossSafe == AccessSpec => []AccessLossSafe
<1>1. AccessIInv => AccessLossSafe
  BY AccessSafe DEF AccessIInv, AccessLossSafe
<1> QED
  BY <1>1, AccessInductive, PTL

-----------------------------------------------------------------------------
(* The web collector.  A page that was read shows part of the page that is  *)
(* there; each rule over such pages is shown to keep to what it says of     *)
(* them all, and add to keep what its strongest verdict says.               *)

\* What a page that was read shows of the page that is there.
Shows(q, p) ==
    /\ q.n = p.n /\ q.scheme = p.scheme /\ q.path = p.path /\ q.from = p.from /\ q.expires = p.expires
    /\ q.headers = p.headers /\ q.location = p.location /\ q.txt = p.txt
    /\ (q.hsts <=> p.hsts) /\ (q.cookie <=> p.cookie) /\ (q.banner <=> p.banner) /\ (q.html <=> p.html) /\ (q.body <=> p.body)
    /\ (p.blocked => q.blocked) /\ (p.cut => q.cut) /\ (p.marked => q.marked) /\ (q.marker => p.marker)
    /\ p.marker => q.marker \/ q.blocked \/ q.cut
    /\ q.decision = p.decision \/ (q.decision \in {"refused", "timeout"} /\ q.status = 0)
    /\ q.status = p.status \/ q.status \in {0, 429} \/ (q.status = 403 /\ q.blocked)
    /\ q.status = 0 => q.status = p.status \/ q.decision # "sent"
    /\ q.tls = p.tls \/ q.tls = "inspected" \/ (q.tls = "none" /\ q.decision # "sent")
    /\ q.secret = p.secret \/ (q.secret = "none" /\ q.cut)

LEMMA SeenShows == ASSUME NEW p \in PageFacts, NEW how PROVE Shows(SeenPage(p, how), p)
<1> DEFINE q == SeenPage(p, how)
<1> SUFFICES Shows(q, p)
  OBVIOUS
<1>1. CASE how \in {"refused", "timeout"}
  BY <1>1 DEF SeenPage, Shows, PageFacts
<1>2. CASE how = "limited"
  BY <1>2 DEF SeenPage, Shows, PageFacts
<1>3. CASE how = "waf"
  <2>1. q = [p EXCEPT !.status = 403, !.blocked = TRUE, !.marker = FALSE]
    BY <1>3 DEF SeenPage
  <2>2. /\ q.status = 403 /\ q.blocked /\ ~q.marker
        /\ q.decision = p.decision /\ q.tls = p.tls /\ q.secret = p.secret
        /\ (p.cut => q.cut) /\ (p.marked => q.marked)
    BY <2>1 DEF PageFacts
  <2>3. /\ q.n = p.n /\ q.scheme = p.scheme /\ q.path = p.path /\ q.from = p.from /\ q.expires = p.expires
        /\ q.headers = p.headers /\ q.location = p.location /\ q.txt = p.txt
        /\ (q.hsts <=> p.hsts) /\ (q.cookie <=> p.cookie) /\ (q.banner <=> p.banner) /\ (q.html <=> p.html) /\ (q.body <=> p.body)
    BY <2>1 DEF PageFacts
  <2> HIDE DEF q
  <2> QED
    BY <2>2, <2>3 DEF Shows
<1>4. CASE how = "cut"
  <2>1. q = [p EXCEPT !.cut = TRUE, !.marker = FALSE, !.secret = IF @ = "late" THEN "none" ELSE @]
    BY <1>4 DEF SeenPage
  <2>2. /\ q.cut /\ ~q.marker /\ q.secret \in {p.secret, "none"}
        /\ q.decision = p.decision /\ q.tls = p.tls /\ q.status = p.status
        /\ (p.blocked => q.blocked) /\ (p.marked => q.marked)
    BY <2>1 DEF PageFacts
  <2>3. /\ q.n = p.n /\ q.scheme = p.scheme /\ q.path = p.path /\ q.from = p.from /\ q.expires = p.expires
        /\ q.headers = p.headers /\ q.location = p.location /\ q.txt = p.txt
        /\ (q.hsts <=> p.hsts) /\ (q.cookie <=> p.cookie) /\ (q.banner <=> p.banner) /\ (q.html <=> p.html) /\ (q.body <=> p.body)
    BY <2>1 DEF PageFacts
  <2> HIDE DEF q
  <2> QED
    BY <2>2, <2>3 DEF Shows
<1>5. CASE how = "marked"
  BY <1>5 DEF SeenPage, Shows, PageFacts
<1>6. CASE how = "inspected"
  BY <1>6 DEF SeenPage, Shows, PageFacts
<1>7. CASE how \notin {"refused", "timeout", "limited", "waf", "cut", "marked", "inspected"}
  BY <1>7 DEF SeenPage, Shows, PageFacts
<1> QED
  BY <1>1, <1>2, <1>3, <1>4, <1>5, <1>6, <1>7

\* What can be read of a page could be read of all of it.
LEMMA ReadableThere ==
    ASSUME NEW p, NEW q, Shows(q, p), Readable(q)
    PROVE  Readable(p) /\ q.status = p.status /\ q.decision = p.decision /\ q.decision = "sent"
BY DEF Shows, Readable, Answers, Verified

LEMMA VersionStands ==
    ASSUME NEW p, NEW q, Shows(q, p)
    PROVE  /\ Version(q).verdict = "fired" => Version(p).verdict = "fired"
           /\ Version(p).verdict = "fired" => Version(q).verdict # "disproved"
<1>1. ASSUME Readable(q) PROVE Readable(p)
  BY <1>1, ReadableThere
<1>2. (q.banner <=> p.banner) /\ (q.html <=> p.html) /\ (p.marked => q.marked)
  BY DEF Shows
<1>3. ASSUME NEW x
      PROVE  /\ Version(x).verdict = "fired" <=> Readable(x) /\ x.banner /\ ~x.marked
             /\ Version(x).verdict = "disproved" => Readable(x) /\ ~(x.banner /\ ~x.marked) /\ ~x.marked
  BY DEF Version, OnPage, J, Clean
<1> QED
  BY <1>1, <1>2, <1>3

LEMMA SecretsStand ==
    ASSUME NEW p, NEW q, Shows(q, p)
    PROVE  /\ Secrets(q).verdict = "fired" => Secrets(p).verdict = "fired"
           /\ Secrets(p).verdict = "fired" => Secrets(q).verdict # "disproved"
<1>1. ASSUME Readable(q) PROVE Readable(p)
  BY <1>1, ReadableThere
<1>2. q.secret = p.secret \/ (q.secret = "none" /\ q.cut)
  BY DEF Shows
<1>3. ASSUME NEW x
      PROVE  /\ Secrets(x).verdict = "fired" <=> Readable(x) /\ x.secret # "none"
             /\ Secrets(x).verdict = "disproved" => Readable(x) /\ x.secret = "none" /\ ~x.cut
  BY DEF Secrets, OnPage, J, Clean
<1> QED
  BY <1>1, <1>2, <1>3

LEMMA PlainStands ==
    ASSUME NEW p, NEW q, Shows(q, p)
    PROVE  /\ PlainPage(q) = "fired" => PlainPage(p) = "fired"
           /\ PlainPage(p) = "fired" => PlainPage(q) # "disproved" \/ q.decision = "timeout"
BY ReadableThere DEF PlainPage, Shows

LEMMA TxtStands ==
    ASSUME NEW p, NEW q, Shows(q, p), TxtPage(q) # "nothing"
    PROVE  TxtPage(p) = TxtPage(q) /\ p.status \notin 300..399
<1>1. ~q.blocked /\ ~p.blocked
  BY DEF TxtPage, Readable, Shows
<1>2. CASE q.decision = "sent" /\ q.status = 404 /\ q.tls = "verified"
  BY <1>1, <1>2 DEF TxtPage, Shows
<1>3. CASE ~(q.decision = "sent" /\ q.status = 404 /\ q.tls = "verified")
  <2>1. Readable(q) /\ ~(q.status >= 300) /\ Clean(q)
    BY <1>1, <1>3 DEF TxtPage, Readable, Clean
  <2>2. /\ Readable(p) /\ Clean(p) /\ q.status = p.status /\ q.txt = p.txt
        /\ ~(p.decision = "sent" /\ p.status = 404 /\ p.tls = "verified")
    BY <2>1, ReadableThere DEF Clean, Shows, Readable
  <2> QED
    BY <1>1, <1>3, <2>1, <2>2 DEF TxtPage, Readable
<1> QED
  BY <1>2, <1>3

LEMMA RestrictedStands ==
    ASSUME NEW p, NEW q, Shows(q, p)
    PROVE  RestrictedPage(q) = "fired" => RestrictedPage(p) = "fired"
BY DEF RestrictedPage, Shows, Verified

-----------------------------------------------------------------------------
\* What is said before the strongest verdict is taken.
Raw(s, e) ==
    (IF e.listed THEN {} ELSE {J(id, "unlisted", "abstained") : id \in DnsRules})
    \cup NameRules(e.name, e.pages, e.doubt) \cup Records(e.targets, e.complete)
    \cup SiteRules(s, e.pages, Taken(e.name, e.pages, e.doubt)) \cup Restricted(s, e.pages)
Same(j, k) == j.id = k.id /\ j.on = k.on

LEMMA StrongestIs ==
    ASSUME NEW vs, vs # {}
    PROVE  /\ Strongest(vs) \in vs
           /\ Strongest(vs) = "disproved" => vs = {"disproved"}
<1>1. \E v \in vs : /\ v = "disproved" => vs = {"disproved"}
                    /\ v = "abstained" => "fired" \notin vs
  <2>1. CASE "fired" \in vs
    BY <2>1
  <2>2. CASE "fired" \notin vs /\ "abstained" \in vs
    BY <2>2
  <2>3. CASE "fired" \notin vs /\ "abstained" \notin vs
    BY <2>3
  <2> QED
    BY <2>1, <2>2, <2>3
<1> QED
  BY <1>1 DEF Strongest

LEMMA AddSays ==
    ASSUME NEW js, NEW d, NEW x \in Add(js, d)
    PROVE  /\ \E j \in js : Same(j, x)
           /\ x.verdict = "fired" => \E j \in js : Same(j, x) /\ j.verdict = "fired"
           /\ x.verdict = "disproved" => \A j \in js : Same(j, x) => j.verdict = "disproved"
<1> DEFINE v(j) == IF d /\ j.id \in DnsRules THEN "abstained" ELSE j.verdict
           said == {J(j.id, j.on, v(j)) : j \in js}
           of(k) == {j.verdict : j \in {y \in said : <<y.id, y.on>> = k}}
<1>1. PICK k \in {<<y.id, y.on>> : y \in said} : x = J(k[1], k[2], Strongest(of(k)))
  BY DEF Add
<1>2. PICK i \in js : k = <<i.id, i.on>>
  BY <1>1 DEF J
<1>3. x.id = i.id /\ x.on = i.on /\ x.verdict = Strongest(of(k))
  BY <1>1, <1>2 DEF J
<1>4. ASSUME NEW j \in js, Same(j, x) PROVE v(j) \in of(k)
  <2>1. J(j.id, j.on, v(j)) \in said
    OBVIOUS
  <2>2. J(j.id, j.on, v(j)).verdict = v(j) /\ <<J(j.id, j.on, v(j)).id, J(j.id, j.on, v(j)).on>> = k
    BY <1>2, <1>3, <1>4 DEF J, Same
  <2> HIDE DEF said, v
  <2> QED
    BY <2>1, <2>2
<1>5. ASSUME NEW r \in of(k) PROVE \E j \in js : Same(j, x) /\ r = v(j)
  <2>1. PICK y \in said : <<y.id, y.on>> = k /\ r = y.verdict
    BY <1>5
  <2>2. PICK j \in js : y = J(j.id, j.on, v(j))
    BY <2>1
  <2> HIDE DEF v
  <2>3. y.id = j.id /\ y.on = j.on /\ y.verdict = v(j)
    BY <2>2 DEF J
  <2> QED
    BY <1>2, <1>3, <2>1, <2>3 DEF Same
<1>6. of(k) # {}
  BY <1>2, <1>3, <1>4 DEF Same
<1>7. Strongest(of(k)) \in of(k) /\ (Strongest(of(k)) = "disproved" => of(k) = {"disproved"})
  <2> HIDE DEF of
  <2> QED
    BY <1>6, StrongestIs
<1>8. \E j \in js : Same(j, x)
  BY <1>2, <1>3 DEF Same
<1>9. ASSUME x.verdict = "fired" PROVE \E j \in js : Same(j, x) /\ j.verdict = "fired"
  <2>1. "fired" \in of(k)
    BY <1>3, <1>7, <1>9
  <2>2. PICK j \in js : Same(j, x) /\ "fired" = v(j)
    BY <1>5, <2>1
  <2> QED
    BY <2>2
<1>10. ASSUME x.verdict = "disproved", NEW j \in js, Same(j, x) PROVE j.verdict = "disproved"
  <2>1. v(j) \in {"disproved"}
    BY <1>3, <1>4, <1>7, <1>10
  <2> QED
    BY <2>1
<1> QED
  BY <1>8, <1>9, <1>10

-----------------------------------------------------------------------------
(* The parts of what is said, by their ids.                                *)
VersionsOf(ps) == {Version(p) : p \in {q \in ToSet(ps) : IsEntry(q)}}
SecretsOf(ps) == {Secrets(p) : p \in ToSet(ps)}
PlainOf(ps) == PlainHTTP(Of(ToSet(ps), "http"))
HstsOf(ps) == {Hsts(Of(ToSet(ps), "https"))}
TxtOf(s, ps) == {SecurityTXT(s, ps)}
HeadersOf(ps) == {SecurityHeaders(o, Of(ToSet(ps), o)) : o \in {p.scheme : p \in ToSet(ps)}}
CookiesOf(ps) == {Cookies(o, Of(ToSet(ps), o)) : o \in {p.scheme : p \in ToSet(ps)}}
TlsIds == {"tls.legacy", "tls.invalid", "tls.expiring"}
\* What a page may not say of another's name.
Addressed(e) == \A t \in e.targets : t.name # "name"

LEMMA NameIds == ASSUME NEW n, NEW ps, NEW d, NEW x \in NameRules(n, ps, d) PROVE x.id \in DnsRules /\ x.on = "name"
BY DEF NameRules, Takeover, PrivateAddress, UnknownName, Dangling, J, DnsRules

LEMMA RecordIds ==
    ASSUME NEW e, Addressed(e), NEW x \in Records(e.targets, e.complete)
    PROVE  x.id = "dangling" /\ x.on # "name"
BY DEF Records, Addressed, J

LEMMA PageIds ==
    ASSUME NEW s, NEW ps, NEW taken
    PROVE  /\ \A x \in TlsRules(ps, taken) : x.id \in TlsIds
           /\ \A x \in VersionsOf(ps) : x.id = "version"
           /\ \A x \in SecretsOf(ps) : x.id = "secret"
           /\ \A x \in PlainOf(ps) : x.id = "plain"
           /\ \A x \in HstsOf(ps) : x.id = "hsts"
           /\ \A x \in TxtOf(s, ps) : x.id = "txt"
           /\ \A x \in HeadersOf(ps) : x.id = "headers"
           /\ \A x \in CookiesOf(ps) : x.id = "cookies"
           /\ \A x \in Restricted(s, ps) : x.id = "restricted"
<1>1. \A x \in TlsRules(ps, taken) : x.id \in TlsIds
  BY DEF TlsRules, TlsIds, J
<1>2. \A x \in VersionsOf(ps) : x.id = "version"
  BY DEF VersionsOf, Version, J
<1>3. \A x \in SecretsOf(ps) : x.id = "secret"
  BY DEF SecretsOf, Secrets, J
<1>4. \A x \in PlainOf(ps) : x.id = "plain"
  BY DEF PlainOf, PlainHTTP, J
<1>5. \A x \in HstsOf(ps) : x.id = "hsts"
  BY DEF HstsOf, Hsts, J
<1>6. \A x \in TxtOf(s, ps) : x.id = "txt"
  BY DEF TxtOf, SecurityTXT, J
<1>7. \A x \in HeadersOf(ps) : x.id = "headers"
  <2>1. \A o, es : SecurityHeaders(o, es).id = "headers"
    BY DEF SecurityHeaders, J
  <2> QED
    BY <2>1 DEF HeadersOf
<1>8. \A x \in CookiesOf(ps) : x.id = "cookies"
  <2>1. \A o, es : Cookies(o, es).id = "cookies"
    BY DEF Cookies, J
  <2> QED
    BY <2>1 DEF CookiesOf
<1>9. \A x \in Restricted(s, ps) : x.id = "restricted"
  BY DEF Restricted, J
<1> QED
  BY <1>1, <1>2, <1>3, <1>4, <1>5, <1>6, <1>7, <1>8, <1>9

LEMMA RawIs ==
    ASSUME NEW s, s.declared, NEW e, 1 \in DOMAIN e.pages, NEW x
    PROVE  LET ps == e.pages IN
           x \in Raw(s, e) <=>
              \/ ~e.listed /\ \E id \in DnsRules : x = J(id, "unlisted", "abstained")
              \/ x \in NameRules(e.name, ps, e.doubt)
              \/ x \in Records(e.targets, e.complete)
              \/ x \in TlsRules(ps, Taken(e.name, ps, e.doubt))
              \/ x \in VersionsOf(ps) \/ x \in SecretsOf(ps) \/ x \in PlainOf(ps) \/ x \in HstsOf(ps)
              \/ x \in TxtOf(s, ps) \/ x \in HeadersOf(ps) \/ x \in CookiesOf(ps)
              \/ x \in Restricted(s, ps)
<1> DEFINE ps == e.pages
           mine == {p \in ToSet(ps) : Judged(s, p)}
           taken == Taken(e.name, ps, e.doubt)
<1>1. mine = ToSet(ps) /\ mine # {}
  BY DEF Judged, ToSet
<1>2. SiteRules(s, ps, taken) =
          TlsRules(ps, taken) \cup VersionsOf(ps) \cup SecretsOf(ps) \cup PlainOf(ps) \cup HstsOf(ps)
          \cup TxtOf(s, ps) \cup HeadersOf(ps) \cup CookiesOf(ps)
  <2>1. SiteRules(s, ps, taken) =
           TlsRules(ps, taken)
           \cup VersionsOf(ps) \cup SecretsOf(ps)
           \cup (PlainHTTP(Of(mine, "http")) \cup {Hsts(Of(mine, "https")), SecurityTXT(s, ps)})
           \cup (UNION {{SecurityHeaders(o, Of(mine, o)), Cookies(o, Of(mine, o))} : o \in {p.scheme : p \in mine}})
    BY <1>1 DEF SiteRules, VersionsOf, SecretsOf
  <2>2. (UNION {{SecurityHeaders(o, Of(mine, o)), Cookies(o, Of(mine, o))} : o \in {p.scheme : p \in mine}})
           = HeadersOf(ps) \cup CookiesOf(ps)
    <3> HIDE DEF mine
    <3> QED
      BY <1>1 DEF HeadersOf, CookiesOf
  <2> HIDE DEF mine, taken
  <2> QED
    BY <1>1, <2>1, <2>2 DEF PlainOf, HstsOf, TxtOf
<1> HIDE DEF taken, mine, ps
<1> QED
  BY <1>2 DEF Raw, taken, ps

\* An unlisted name is a rule's only judgment on it.
LEMMA UnlistedIs ==
    ASSUME NEW id, NEW x, x = J(id, "unlisted", "abstained")
    PROVE  x.id = id /\ x.on = "unlisted" /\ x.verdict = "abstained"
BY DEF J

\* Two opposed judgments of one thing are of the same part.
LEMMA SamePart ==
    ASSUME NEW s, s.declared, NEW e, 1 \in DOMAIN e.pages, Addressed(e),
           NEW w, 1 \in DOMAIN w.pages, Addressed(w), w.listed,
           NEW j \in Raw(s, e), NEW k \in Raw(s, w), Same(j, k), j.verdict # "abstained"
    PROVE  LET ps == e.pages  qs == w.pages IN
           \/ j \in NameRules(e.name, ps, e.doubt) /\ k \in NameRules(w.name, qs, w.doubt)
           \/ j \in Records(e.targets, e.complete) /\ k \in Records(w.targets, w.complete)
           \/ j \in TlsRules(ps, Taken(e.name, ps, e.doubt)) /\ k \in TlsRules(qs, Taken(w.name, qs, w.doubt))
           \/ j \in VersionsOf(ps) /\ k \in VersionsOf(qs)
           \/ j \in SecretsOf(ps) /\ k \in SecretsOf(qs)
           \/ j \in PlainOf(ps) /\ k \in PlainOf(qs)
           \/ j \in HstsOf(ps) /\ k \in HstsOf(qs)
           \/ j \in TxtOf(s, ps) /\ k \in TxtOf(s, qs)
           \/ j \in HeadersOf(ps) /\ k \in HeadersOf(qs)
           \/ j \in CookiesOf(ps) /\ k \in CookiesOf(qs)
           \/ j \in Restricted(s, ps) /\ k \in Restricted(s, qs)
<1> DEFINE ps == e.pages
           qs == w.pages
           taken == Taken(e.name, ps, e.doubt)
           takenToo == Taken(w.name, qs, w.doubt)
<1>1. \/ j \in NameRules(e.name, ps, e.doubt)
      \/ j \in Records(e.targets, e.complete)
      \/ j \in TlsRules(ps, taken)
      \/ j \in VersionsOf(ps) \/ j \in SecretsOf(ps) \/ j \in PlainOf(ps) \/ j \in HstsOf(ps)
      \/ j \in TxtOf(s, ps) \/ j \in HeadersOf(ps) \/ j \in CookiesOf(ps)
      \/ j \in Restricted(s, ps)
  BY RawIs, UnlistedIs
<1>2. \/ k \in NameRules(w.name, qs, w.doubt)
      \/ k \in Records(w.targets, w.complete)
      \/ k \in TlsRules(qs, takenToo)
      \/ k \in VersionsOf(qs) \/ k \in SecretsOf(qs) \/ k \in PlainOf(qs) \/ k \in HstsOf(qs)
      \/ k \in TxtOf(s, qs) \/ k \in HeadersOf(qs) \/ k \in CookiesOf(qs)
      \/ k \in Restricted(s, qs)
  BY RawIs
<1> DEFINE Of1(x, n, r, t) ==
             /\ (x \in n => x.id \in DnsRules /\ x.on = "name")
             /\ (x \in r => x.id = "dangling" /\ x.on # "name")
             /\ (x \in t => x.id \in TlsIds)
<1>3. j.id = k.id /\ j.on = k.on
  BY DEF Same
<1>a. /\ j \in TlsRules(ps, taken) => j.id \in TlsIds
      /\ k \in TlsRules(qs, takenToo) => k.id \in TlsIds
  <2> HIDE DEF taken, takenToo
  <2> QED
    BY PageIds
<1>4. Of1(j, NameRules(e.name, ps, e.doubt), Records(e.targets, e.complete), TlsRules(ps, taken))
  <2>1. j \in NameRules(e.name, ps, e.doubt) => j.id \in DnsRules /\ j.on = "name"
    BY NameIds
  <2>2. j \in Records(e.targets, e.complete) => j.id = "dangling" /\ j.on # "name"
    BY RecordIds
  <2> QED
    BY <2>1, <2>2, <1>a
<1>5. Of1(k, NameRules(w.name, qs, w.doubt), Records(w.targets, w.complete), TlsRules(qs, takenToo))
  <2>1. k \in NameRules(w.name, qs, w.doubt) => k.id \in DnsRules /\ k.on = "name"
    BY NameIds
  <2>2. k \in Records(w.targets, w.complete) => k.id = "dangling" /\ k.on # "name"
    BY RecordIds
  <2> QED
    BY <2>1, <2>2, <1>a
<1>6. /\ (j \in VersionsOf(ps) => j.id = "version") /\ (j \in SecretsOf(ps) => j.id = "secret") /\ (j \in PlainOf(ps) => j.id = "plain")
      /\ (j \in HstsOf(ps) => j.id = "hsts") /\ (j \in TxtOf(s, ps) => j.id = "txt") /\ (j \in HeadersOf(ps) => j.id = "headers")
      /\ (j \in CookiesOf(ps) => j.id = "cookies") /\ (j \in Restricted(s, ps) => j.id = "restricted")
  BY PageIds
<1>7. /\ (k \in VersionsOf(qs) => k.id = "version") /\ (k \in SecretsOf(qs) => k.id = "secret") /\ (k \in PlainOf(qs) => k.id = "plain")
      /\ (k \in HstsOf(qs) => k.id = "hsts") /\ (k \in TxtOf(s, qs) => k.id = "txt") /\ (k \in HeadersOf(qs) => k.id = "headers")
      /\ (k \in CookiesOf(qs) => k.id = "cookies") /\ (k \in Restricted(s, qs) => k.id = "restricted")
  BY PageIds
<1> HIDE DEF ps, qs, taken, takenToo
<1>8. CASE j.id \in DnsRules
  BY <1>1, <1>2, <1>3, <1>4, <1>5, <1>6, <1>7, <1>8 DEF DnsRules, TlsIds, ps, qs, taken, takenToo
<1>9. CASE j.id \in TlsIds
  BY <1>1, <1>2, <1>3, <1>4, <1>5, <1>6, <1>7, <1>9 DEF DnsRules, TlsIds, ps, qs, taken, takenToo
<1>10. CASE j.id \notin DnsRules \cup TlsIds
  BY <1>1, <1>2, <1>3, <1>4, <1>5, <1>6, <1>7, <1>10 DEF DnsRules, TlsIds, ps, qs, taken, takenToo
<1> QED
  BY <1>8, <1>9, <1>10

-----------------------------------------------------------------------------
(* Each part over pages that show part of what is there.                   *)
PagesPart(ps, qs) == DOMAIN ps = DOMAIN qs /\ \A i \in DOMAIN qs : Shows(ps[i], qs[i])

LEMMA VersionsPart ==
    ASSUME NEW ps, NEW qs, PagesPart(ps, qs)
    PROVE  /\ \A j \in VersionsOf(ps) : j.verdict = "fired" => \E k \in VersionsOf(qs) : Same(j, k) /\ k.verdict = "fired"
           /\ \A k \in VersionsOf(qs) : k.verdict = "fired" => \E j \in VersionsOf(ps) : Same(j, k) /\ j.verdict # "disproved"
<1>1. ASSUME NEW i \in DOMAIN qs
      PROVE  /\ IsEntry(ps[i]) <=> IsEntry(qs[i])
             /\ Same(Version(ps[i]), Version(qs[i]))
             /\ Version(ps[i]).verdict = "fired" => Version(qs[i]).verdict = "fired"
             /\ Version(qs[i]).verdict = "fired" => Version(ps[i]).verdict # "disproved"
  <2>1. Shows(ps[i], qs[i])
    BY DEF PagesPart
  <2>2. ps[i].n = qs[i].n /\ ps[i].path = qs[i].path
    BY <2>1 DEF Shows
  <2>3. Same(Version(ps[i]), Version(qs[i]))
    BY <2>2 DEF Same, Version, J
  <2> QED
    BY <2>1, <2>2, <2>3, VersionStands DEF IsEntry
<1>2. /\ \A j \in VersionsOf(ps) : \E i \in DOMAIN qs : IsEntry(ps[i]) /\ j = Version(ps[i])
      /\ \A k \in VersionsOf(qs) : \E i \in DOMAIN qs : IsEntry(qs[i]) /\ k = Version(qs[i])
      /\ \A i \in DOMAIN qs : /\ IsEntry(ps[i]) => Version(ps[i]) \in VersionsOf(ps)
                              /\ IsEntry(qs[i]) => Version(qs[i]) \in VersionsOf(qs)
  BY DEF VersionsOf, ToSet, PagesPart
<1>3. ASSUME NEW j \in VersionsOf(ps), j.verdict = "fired" PROVE \E k \in VersionsOf(qs) : Same(j, k) /\ k.verdict = "fired"
  <2>1. PICK i \in DOMAIN qs : IsEntry(ps[i]) /\ j = Version(ps[i])
    BY <1>2
  <2> QED
    BY <1>1, <1>2, <1>3, <2>1
<1>4. ASSUME NEW k \in VersionsOf(qs), k.verdict = "fired" PROVE \E j \in VersionsOf(ps) : Same(j, k) /\ j.verdict # "disproved"
  <2>1. PICK i \in DOMAIN qs : IsEntry(qs[i]) /\ k = Version(qs[i])
    BY <1>2
  <2>a. IsEntry(ps[i])
    BY <1>1, <2>1 DEF IsEntry
  <2>2. Version(ps[i]) \in VersionsOf(ps)
    BY <2>1, <2>a DEF VersionsOf, ToSet, PagesPart
  <2>3. Same(Version(ps[i]), k) /\ Version(ps[i]).verdict # "disproved"
    BY <1>1, <1>4, <2>1
  <2> QED
    BY <2>2, <2>3
<1> QED
  BY <1>3, <1>4

LEMMA SecretsPart ==
    ASSUME NEW ps, NEW qs, PagesPart(ps, qs)
    PROVE  /\ \A j \in SecretsOf(ps) : j.verdict = "fired" => \E k \in SecretsOf(qs) : Same(j, k) /\ k.verdict = "fired"
           /\ \A k \in SecretsOf(qs) : k.verdict = "fired" => \E j \in SecretsOf(ps) : Same(j, k) /\ j.verdict # "disproved"
<1>1. ASSUME NEW i \in DOMAIN qs
      PROVE  /\ Same(Secrets(ps[i]), Secrets(qs[i]))
             /\ Secrets(ps[i]).verdict = "fired" => Secrets(qs[i]).verdict = "fired"
             /\ Secrets(qs[i]).verdict = "fired" => Secrets(ps[i]).verdict # "disproved"
  <2>1. Shows(ps[i], qs[i])
    BY DEF PagesPart
  <2>2. Same(Secrets(ps[i]), Secrets(qs[i]))
    BY <2>1 DEF Same, Secrets, J, Shows
  <2> QED
    BY <2>1, <2>2, SecretsStand
<1>2. /\ \A j \in SecretsOf(ps) : \E i \in DOMAIN qs : j = Secrets(ps[i])
      /\ \A k \in SecretsOf(qs) : \E i \in DOMAIN qs : k = Secrets(qs[i])
      /\ \A i \in DOMAIN qs : Secrets(ps[i]) \in SecretsOf(ps) /\ Secrets(qs[i]) \in SecretsOf(qs)
  BY DEF SecretsOf, ToSet, PagesPart
<1> QED
  BY <1>1, <1>2

\* The pages of an origin, by their places.
LEMMA OriginIs ==
    ASSUME NEW ps, NEW o
    PROVE  /\ \A p \in Entries(Of(ToSet(ps), o)) : \E i \in DOMAIN ps : p = ps[i] /\ p.scheme = o /\ IsEntry(p)
           /\ \A i \in DOMAIN ps : ps[i].scheme = o /\ IsEntry(ps[i]) => ps[i] \in Entries(Of(ToSet(ps), o))
BY DEF Entries, Of, ToSet

LEMMA OriginPart ==
    ASSUME NEW ps, NEW qs, PagesPart(ps, qs), NEW o
    PROVE  LET some == Entries(Of(ToSet(ps), o))
               all == Entries(Of(ToSet(qs), o))
           IN  /\ \A p \in some : \E q \in all : Shows(p, q)
               /\ \A q \in all : \E p \in some : Shows(p, q)
<1>1. ASSUME NEW i \in DOMAIN qs
      PROVE  i \in DOMAIN ps /\ Shows(ps[i], qs[i]) /\ ps[i].scheme = qs[i].scheme /\ (IsEntry(ps[i]) <=> IsEntry(qs[i]))
  BY DEF PagesPart, Shows, IsEntry
<1> QED
  BY <1>1, OriginIs DEF PagesPart

LEMMA PlainPart ==
    ASSUME NEW ps, NEW qs, PagesPart(ps, qs)
    PROVE  /\ \A j \in PlainOf(ps) : j.verdict = "fired" => \E k \in PlainOf(qs) : Same(j, k) /\ k.verdict = "fired"
           /\ \A k \in PlainOf(qs) : k.verdict = "fired" =>
                 TimedOut(ps) \/ \E j \in PlainOf(ps) : Same(j, k) /\ j.verdict # "disproved"
<1> DEFINE some == Of(ToSet(ps), "http")
           all == Of(ToSet(qs), "http")
           said(p) == J("plain", "http", PlainPage(p))
<1>1. /\ \A p \in Entries(some) : \E q \in Entries(all) : Shows(p, q)
      /\ \A q \in Entries(all) : \E p \in Entries(some) : Shows(p, q)
  BY OriginPart
<1>2. /\ \A j \in PlainOf(ps) : j.verdict = "fired" => \E p \in Entries(some) : j = said(p)
      /\ \A k \in PlainOf(qs) : k.verdict = "fired" => \E q \in Entries(all) : k = said(q)
      /\ \A p \in Entries(some) : said(p) \in PlainOf(ps)
      /\ \A q \in Entries(all) : said(q) \in PlainOf(qs)
  BY DEF PlainOf, PlainHTTP, Entries, J
<1>3. \A p : said(p).verdict = PlainPage(p) /\ said(p).id = "plain" /\ said(p).on = "http"
  BY DEF J
<1>4. \A p \in Entries(some) : p.decision = "timeout" => TimedOut(ps)
  BY OriginIs DEF TimedOut
<1> HIDE DEF some, all, said
<1>5. ASSUME NEW j \in PlainOf(ps), j.verdict = "fired" PROVE \E k \in PlainOf(qs) : Same(j, k) /\ k.verdict = "fired"
  <2>1. PICK p \in Entries(some) : j = said(p)
    BY <1>2, <1>5
  <2>2. PICK q \in Entries(all) : Shows(p, q)
    BY <1>1
  <2> QED
    BY <1>2, <1>3, <1>5, <2>1, <2>2, PlainStands DEF Same
<1>6. ASSUME NEW k \in PlainOf(qs), k.verdict = "fired"
      PROVE  TimedOut(ps) \/ \E j \in PlainOf(ps) : Same(j, k) /\ j.verdict # "disproved"
  <2>1. PICK q \in Entries(all) : k = said(q)
    BY <1>2, <1>6
  <2>2. PICK p \in Entries(some) : Shows(p, q)
    BY <1>1
  <2> QED
    BY <1>2, <1>3, <1>4, <1>6, <2>1, <2>2, PlainStands DEF Same
<1> QED
  BY <1>5, <1>6

LEMMA HstsPart ==
    ASSUME NEW ps, NEW qs, PagesPart(ps, qs), NEW j \in HstsOf(ps), NEW k \in HstsOf(qs)
    PROVE  /\ j.verdict = "fired" => k.verdict # "disproved"
           /\ k.verdict = "fired" => j.verdict # "disproved"
<1> DEFINE some == Entries(Of(ToSet(ps), "https"))
           all == Entries(Of(ToSet(qs), "https"))
<1>1. /\ \A p \in some : \E q \in all : Shows(p, q)
      /\ \A q \in all : \E p \in some : Shows(p, q)
  BY OriginPart
<1>2. /\ j.verdict = (IF HstsDisproved(some) THEN "disproved" ELSE Fire(HstsFires(some), "abstained"))
      /\ k.verdict = (IF HstsDisproved(all) THEN "disproved" ELSE Fire(HstsFires(all), "abstained"))
  BY DEF HstsOf, Hsts, J
<1> HIDE DEF some, all
<1>3. ASSUME HstsDisproved(some) PROVE HstsDisproved(all)
  <2>1. PICK p \in some : Readable(p) /\ ~p.marked /\ p.hsts
    BY <1>3 DEF HstsDisproved
  <2>2. PICK q \in all : Shows(p, q)
    BY <1>1
  <2>3. Readable(q) /\ ~q.marked /\ q.hsts
    BY <2>1, <2>2, ReadableThere DEF Shows
  <2> QED
    BY <2>3 DEF HstsDisproved
<1>4. ASSUME HstsFires(some), HstsDisproved(all) PROVE HstsDisproved(some)
  <2>1. PICK q \in all : Readable(q) /\ ~q.marked /\ q.hsts
    BY <1>4 DEF HstsDisproved
  <2>2. PICK p \in some : Shows(p, q)
    BY <1>1
  <2>3. Readable(p) /\ ~p.marked /\ p.hsts
    BY <1>4, <2>1, <2>2 DEF Shows, HstsFires
  <2> QED
    BY <2>3 DEF HstsDisproved
<1>5. ASSUME j.verdict = "fired" PROVE k.verdict # "disproved"
  <2>1. ~HstsDisproved(some) /\ HstsFires(some)
    BY <1>2, <1>5 DEF Fire, HstsFires, HstsDisproved
  <2>2. ~HstsDisproved(all)
    BY <1>4, <2>1
  <2> QED
    BY <1>2, <2>2 DEF Fire, HstsDisproved, HstsFires
<1>6. ASSUME k.verdict = "fired" PROVE j.verdict # "disproved"
  <2>1. ~HstsDisproved(all)
    BY <1>2, <1>6 DEF Fire, HstsFires, HstsDisproved
  <2>2. ~HstsDisproved(some)
    BY <1>3, <2>1
  <2> QED
    BY <1>2, <2>2 DEF Fire, HstsDisproved, HstsFires
<1> QED
  BY <1>5, <1>6

LEMMA HeadersPart ==
    ASSUME NEW ps, NEW qs, PagesPart(ps, qs), NEW j \in HeadersOf(ps), NEW k \in HeadersOf(qs), Same(j, k)
    PROVE  j.verdict \in {"abstained", k.verdict}
<1>1. PICK o : j = SecurityHeaders(o, Of(ToSet(ps), o))
  BY DEF HeadersOf
<1>2. PICK u : k = SecurityHeaders(u, Of(ToSet(qs), u))
  BY DEF HeadersOf
<1> DEFINE some == Entries(Of(ToSet(ps), o))
           all == Entries(Of(ToSet(qs), o))
           says(es) == IF ~HeadersKnown(es) THEN "abstained" ELSE Fire(\E p \in es : p.headers = "missing", "disproved")
<1>3. o = u
  BY <1>1, <1>2 DEF SecurityHeaders, J, Same
<1>4. j.verdict = says(some)
  BY <1>1 DEF SecurityHeaders, J
<1>5. k.verdict = says(all)
  BY <1>2, <1>3 DEF SecurityHeaders, J
<1>6. /\ \A p \in some : \E q \in all : Shows(p, q)
      /\ \A q \in all : \E p \in some : Shows(p, q)
  BY OriginPart
<1> HIDE DEF some, all
<1>7. ASSUME NEW es
      PROVE  /\ ~HeadersKnown(es) => says(es) = "abstained"
             /\ HeadersKnown(es) /\ (\E p \in es : p.headers = "missing") => says(es) = "fired"
             /\ HeadersKnown(es) /\ ~(\E p \in es : p.headers = "missing") => says(es) = "disproved"
  BY DEF Fire, HeadersKnown
<1>8. ASSUME HeadersKnown(some) PROVE HeadersKnown(all)
  <2>1. some # {} /\ \A p \in some : Readable(p) /\ ~p.marked /\ p.headers # "odd"
    BY <1>8 DEF HeadersKnown
  <2>2. \A q \in all : Readable(q) /\ ~q.marked /\ q.headers # "odd"
    BY <1>6, <2>1, ReadableThere DEF Shows
  <2>3. all # {}
    BY <1>6, <2>1
  <2> QED
    BY <2>2, <2>3 DEF HeadersKnown
<1>9. (\E p \in some : p.headers = "missing") <=> (\E q \in all : q.headers = "missing")
  BY <1>6 DEF Shows
<1> HIDE DEF says
<1> QED
  BY <1>4, <1>5, <1>7, <1>8, <1>9

LEMMA CookiesPart == ASSUME NEW ps, NEW j \in CookiesOf(ps) PROVE j.verdict # "disproved"
<1>1. \A o, es : Cookies(o, es).verdict # "disproved"
  BY DEF Cookies, Fire, J
<1> QED
  BY <1>1 DEF CookiesOf

LEMMA LatestOf == ASSUME NEW m \in Nat PROVE Latest({m}) = m
BY DEF Latest

LEMMA ReadOnce ==
    ASSUME NEW at, NEW D \in SUBSET Nat, at \subseteq D, at # {}, \A i, k \in at : i = k
    PROVE  \E m \in at : at = {m} /\ Latest(at) = m
<1>1. PICK m \in at : at = {m}
  OBVIOUS
<1> QED
  BY <1>1, LatestOf

LEMMA TxtPart ==
    ASSUME NEW s, s.declared, NEW ps, NEW qs, PagesPart(ps, qs), DOMAIN qs \in SUBSET Nat,
           \A i, k \in DOMAIN qs : (i # k /\ OfTxt(qs[i]) /\ OfTxt(qs[k])) => \E x \in {i, k} : qs[x].status \in 300..399,
           NEW j \in TxtOf(s, ps), NEW k \in TxtOf(s, qs)
    PROVE  j.verdict \in {"abstained", k.verdict}
<1> DEFINE some == TxtPages(s, ps)
           all == TxtPages(s, qs)
<1>1. /\ j.verdict = (IF some = {} THEN "abstained" ELSE TxtPage(ps[Latest(some)]))
      /\ k.verdict = (IF all = {} THEN "abstained" ELSE TxtPage(qs[Latest(all)]))
  BY DEF TxtOf, SecurityTXT, J
<1>2. \A p : Shows(p, p)
  BY DEF Shows
<1>3. ASSUME NEW x \in all, NEW y \in all PROVE x = y
  <2>1. /\ x \in DOMAIN qs /\ OfTxt(qs[x]) /\ TxtPage(qs[x]) # "nothing"
        /\ y \in DOMAIN qs /\ OfTxt(qs[y]) /\ TxtPage(qs[y]) # "nothing"
    BY DEF TxtPages
  <2>2. qs[x].status \notin 300..399 /\ qs[y].status \notin 300..399
    BY <1>2, <2>1, TxtStands
  <2> QED
    BY <2>1, <2>2
<1>4. ASSUME NEW x \in some PROVE x \in all /\ TxtPage(ps[x]) = TxtPage(qs[x])
  <2>1. x \in DOMAIN qs /\ Shows(ps[x], qs[x]) /\ OfTxt(ps[x]) /\ TxtPage(ps[x]) # "nothing"
    BY DEF TxtPages, PagesPart
  <2>2. TxtPage(qs[x]) = TxtPage(ps[x])
    BY <2>1, TxtStands
  <2>3. OfTxt(qs[x]) /\ Judged(s, qs[x])
    BY <2>1 DEF OfTxt, Shows, Judged
  <2> QED
    BY <2>1, <2>2, <2>3 DEF TxtPages
<1>5. all \subseteq DOMAIN qs
  BY DEF TxtPages
<1> HIDE DEF some, all
<1>6. CASE some = {}
  BY <1>1, <1>6
<1>7. CASE some # {}
  <2>1. PICK m \in all : all = {m} /\ Latest(all) = m
    BY <1>3, <1>4, <1>5, <1>7, ReadOnce
  <2>2. some = {m}
    BY <1>4, <1>7, <2>1
  <2> QED
    BY <1>1, <1>4, <2>1, <2>2
<1> QED
  BY <1>6, <1>7

LEMMA RestrictedPart ==
    ASSUME NEW s, NEW ps, NEW qs, PagesPart(ps, qs), DOMAIN qs \in SUBSET Nat,
           \A i, k \in DOMAIN qs : i # k =>
               \/ qs[i].n # s.restricted \/ qs[i].from # "none"
               \/ qs[k].n # s.restricted \/ qs[k].from # "none",
           NEW j \in Restricted(s, ps), NEW k \in Restricted(s, qs)
    PROVE  /\ j.verdict = "fired" => k.verdict = "fired"
           /\ j.verdict = "disproved" => TimedOut(ps)
<1> DEFINE some == RestrictedPages(s, ps)
           all == RestrictedPages(s, qs)
           own == {i \in DOMAIN qs : qs[i].n = s.restricted /\ qs[i].from = "none"}
<1>1. /\ j.verdict = (IF s.vantage # "internet" \/ some = {} THEN "abstained" ELSE RestrictedPage(ps[Latest(some)]))
      /\ k.verdict = (IF s.vantage # "internet" \/ all = {} THEN "abstained" ELSE RestrictedPage(qs[Latest(all)]))
  BY DEF Restricted, J
<1>2. some \subseteq own /\ all \subseteq own /\ own \subseteq DOMAIN qs
  BY DEF RestrictedPages, PagesPart, Shows
<1>3. \A x, y \in own : x = y
  OBVIOUS
<1>a. some \subseteq DOMAIN qs /\ (\A x, y \in some : x = y) /\ all \subseteq DOMAIN qs /\ (\A x, y \in all : x = y)
  <2> HIDE DEF some, all, own
  <2> QED
    BY <1>2, <1>3
<1>4. ASSUME NEW x \in own, RestrictedPage(ps[x]) = "fired" PROVE x \in all /\ RestrictedPage(qs[x]) = "fired"
  <2>1. Shows(ps[x], qs[x])
    BY DEF PagesPart
  <2>2. RestrictedPage(qs[x]) = "fired"
    BY <1>4, <2>1, RestrictedStands
  <2> QED
    BY <2>2 DEF RestrictedPages
<1>5. ASSUME NEW x \in own, RestrictedPage(ps[x]) = "disproved" PROVE TimedOut(ps)
  BY <1>5 DEF RestrictedPage, TimedOut, PagesPart
<1> HIDE DEF some, all, own
<1>6. CASE some = {}
  BY <1>1, <1>6
<1>7. CASE some # {}
  <2>1. PICK m \in some : some = {m} /\ Latest(some) = m
    BY <1>a, <1>7, ReadOnce
  <2>2. m \in own
    BY <1>2
  <2>3. ASSUME j.verdict = "fired" PROVE k.verdict = "fired"
    <3>1. RestrictedPage(ps[m]) = "fired" /\ s.vantage = "internet"
      BY <1>1, <2>1, <2>3
    <3>2. m \in all /\ RestrictedPage(qs[m]) = "fired"
      BY <1>4, <2>2, <3>1
    <3>3. all = {m} /\ Latest(all) = m
      <4>1. PICK x \in all : all = {x} /\ Latest(all) = x
        BY <1>a, <3>2, ReadOnce
      <4> QED
        BY <3>2, <4>1
    <3> QED
      BY <1>1, <3>1, <3>2, <3>3
  <2>4. ASSUME j.verdict = "disproved" PROVE TimedOut(ps)
    BY <1>1, <1>5, <2>1, <2>2, <2>4
  <2> QED
    BY <2>3, <2>4
<1> QED
  BY <1>6, <1>7

LEMMA FrontIsFirst ==
    ASSUME NEW ps, DOMAIN ps \in SUBSET (Nat \ {0}), 1 \in DOMAIN ps, ps[1].scheme = "https"
    PROVE  FirstHttps(ps) = ps[1]
<1> DEFINE at == CHOOSE i \in DOMAIN ps : ps[i].scheme = "https" /\ \A k \in 1 .. (i - 1) : ps[k].scheme # "https"
<1>1. /\ at \in DOMAIN ps /\ ps[at].scheme = "https"
      /\ \A k \in 1 .. (at - 1) : ps[k].scheme # "https"
  OBVIOUS
<1> HIDE DEF at
<1>2. at = 1
  <2>1. at \in Nat /\ at >= 1
    BY <1>1
  <2>2. CASE at > 1
    BY <1>1, <2>1, <2>2
  <2> QED
    BY <2>1, <2>2
<1> QED
  BY <1>2 DEF at, FirstHttps

LEMMA TlsPart ==
    ASSUME NEW ps, NEW qs, NEW t, NEW u, Shows(FirstHttps(ps), FirstHttps(qs)),
           NEW j \in TlsRules(ps, t), NEW k \in TlsRules(qs, u), Same(j, k)
    PROVE  "abstained" \in {j.verdict, k.verdict} \/ j.verdict = k.verdict
<1> DEFINE p == FirstHttps(ps)
           q == FirstHttps(qs)
           lost == p.blocked \/ t \/ p.tls \in {"none", "inspected"}
           unread == q.blocked \/ u \/ q.tls \in {"none", "inspected"}
<1>1. p.expires = q.expires /\ (p.tls = q.tls \/ p.tls \in {"none", "inspected"})
  BY DEF Shows
<1>2. /\ j.id = "tls.legacy" => j.verdict = IF lost THEN "abstained" ELSE IF p.tls = "old" THEN "fired" ELSE "disproved"
      /\ j.id = "tls.invalid" => j.verdict = IF lost \/ p.tls = "old" THEN "abstained" ELSE IF p.tls = "verified" THEN "disproved" ELSE "fired"
      /\ j.id = "tls.expiring" => j.verdict = IF lost \/ p.tls # "verified" \/ p.expires = "unknown" THEN "abstained"
                                             ELSE IF p.expires = "soon" THEN "fired" ELSE "disproved"
      /\ j.id \in TlsIds
  BY DEF TlsRules, J, TlsIds
<1>3. /\ k.id = "tls.legacy" => k.verdict = IF unread THEN "abstained" ELSE IF q.tls = "old" THEN "fired" ELSE "disproved"
      /\ k.id = "tls.invalid" => k.verdict = IF unread \/ q.tls = "old" THEN "abstained" ELSE IF q.tls = "verified" THEN "disproved" ELSE "fired"
      /\ k.id = "tls.expiring" => k.verdict = IF unread \/ q.tls # "verified" \/ q.expires = "unknown" THEN "abstained"
                                             ELSE IF q.expires = "soon" THEN "fired" ELSE "disproved"
  BY DEF TlsRules, J
<1>4. lost \/ p.tls = q.tls
  BY <1>1
<1>5. j.id = k.id
  BY DEF Same
<1> HIDE DEF p, q
<1> QED
  BY <1>1, <1>2, <1>3, <1>4, <1>5 DEF TlsIds

-----------------------------------------------------------------------------
(* The name and the records, and then all of what is said.                 *)
PartOfSite(e, w) ==
    /\ PagesPart(e.pages, w.pages) /\ DOMAIN w.pages \in SUBSET (Nat \ {0})
    /\ 1 \in DOMAIN w.pages /\ w.pages[1].scheme = "https"
    /\ e.name = w.name \/ e.name.status = "lost"
    /\ Addressed(e) /\ Addressed(w)
    /\ \A t \in e.targets : t \in w.targets \/ t.status = "lost"
    /\ \/ e.targets = {}
       \/ \A u \in w.targets : u \in e.targets \/ \E t \in e.targets : t.name = u.name /\ t.via = u.via /\ t.status = "lost"
    /\ w.listed /\ w.complete /\ ~w.doubt

LEMMA TakeoverPart ==
    ASSUME NEW n, n.status # "lost", NEW ps, NEW qs, PagesPart(ps, qs)
    PROVE  /\ TakeoverVerdict(n, ps) = "fired" => TakeoverVerdict(n, qs) = "fired"
           /\ TakeoverVerdict(n, qs) = "fired" => TakeoverVerdict(n, ps) # "disproved" \/ FrontLost(ps)
<1> DEFINE front(p) == Answers(p) /\ ~(n.httpOnly /\ p.scheme = "https")
           marked(rs) == \E i \in DOMAIN rs \cap {1, 2} : front(rs[i]) /\ rs[i].status = 404 /\ rs[i].marker
           nx == n.byNX /\ n.status = "nxdomain"
           empty == n.status \in {"nodata", "nxdomain"}
<1>1. ASSUME NEW rs
      PROVE  /\ TakeoverVerdict(n, rs) = "fired" <=> nx \/ (~empty /\ marked(rs))
             /\ TakeoverVerdict(n, rs) = "disproved" => ~nx /\ ~empty /\ ~marked(rs)
  BY DEF TakeoverVerdict
<1>2. ASSUME marked(ps) PROVE marked(qs)
  <2>1. PICK i \in DOMAIN ps \cap {1, 2} : front(ps[i]) /\ ps[i].status = 404 /\ ps[i].marker
    BY <1>2
  <2>2. i \in DOMAIN qs /\ Shows(ps[i], qs[i])
    BY DEF PagesPart
  <2>3. front(qs[i]) /\ qs[i].status = 404 /\ qs[i].marker
    BY <2>1, <2>2 DEF Shows, Answers
  <2> QED
    BY <2>1, <2>2, <2>3
<1>3. ASSUME marked(qs) PROVE marked(ps) \/ FrontLost(ps)
  <2>1. PICK i \in DOMAIN qs \cap {1, 2} : front(qs[i]) /\ qs[i].status = 404 /\ qs[i].marker
    BY <1>3
  <2>2. i \in DOMAIN ps /\ Shows(ps[i], qs[i])
    BY DEF PagesPart
  <2>3. CASE ~Answers(ps[i]) \/ ps[i].blocked \/ ps[i].cut
    BY <2>1, <2>2, <2>3 DEF FrontLost
  <2>4. CASE Answers(ps[i]) /\ ~ps[i].blocked /\ ~ps[i].cut
    <3>1. front(ps[i]) /\ ps[i].status = 404 /\ ps[i].marker
      BY <2>1, <2>2, <2>4 DEF Shows, Answers
    <3> QED
      BY <2>1, <2>2, <3>1
  <2> QED
    BY <2>3, <2>4
<1> HIDE DEF marked, nx, empty
<1> QED
  BY <1>1, <1>2, <1>3

LEMMA RecordsPart ==
    ASSUME NEW e, NEW w, PartOfSite(e, w),
           NEW j \in Records(e.targets, e.complete), NEW k \in Records(w.targets, w.complete), Same(j, k)
    PROVE  /\ j.verdict = "fired" => j \in Records(w.targets, w.complete)
           /\ j.verdict = "disproved" /\ k.verdict = "fired" =>
                 \E i \in Records(e.targets, e.complete) : Same(i, k) /\ i.verdict # "disproved"
<1> DEFINE says(t) == CASE t.status = "lost" -> "abstained"
                        [] t.status = "nxdomain" \/ (t.status = "nodata" /\ t.type # "TXT") -> "fired"
                        [] OTHER -> "disproved"
           of(t) == J("dangling", t.name, says(t))
           told(t) == t.status # "excluded" /\ t.via # "redirect"
<1>1. /\ \A t \in e.targets : told(t) => of(t) \in Records(e.targets, e.complete)
      /\ \A t \in w.targets : told(t) => of(t) \in Records(w.targets, w.complete)
  BY DEF Records
<1>2. /\ j = J("dangling", "owner", "abstained") \/ \E t \in e.targets : told(t) /\ j = of(t)
      /\ \E t \in w.targets : told(t) /\ k = of(t)
  BY DEF Records, PartOfSite
<1>3. \A t : of(t).id = "dangling" /\ of(t).on = t.name /\ of(t).verdict = says(t)
  BY DEF J
<1>4. J("dangling", "owner", "abstained").verdict = "abstained"
  BY DEF J
<1>5. \A t : t.status = "lost" => says(t) = "abstained"
  OBVIOUS
<1> HIDE DEF says, of
<1>6. ASSUME j.verdict = "fired" PROVE j \in Records(w.targets, w.complete)
  <2>1. PICK t \in e.targets : told(t) /\ j = of(t)
    BY <1>2, <1>4, <1>6
  <2>2. t \in w.targets
    BY <1>3, <1>5, <1>6, <2>1 DEF PartOfSite
  <2> QED
    BY <1>1, <2>1, <2>2
<1>7. ASSUME j.verdict = "disproved", k.verdict = "fired"
      PROVE  \E i \in Records(e.targets, e.complete) : Same(i, k) /\ i.verdict # "disproved"
  <2>1. PICK t \in e.targets : told(t) /\ j = of(t)
    BY <1>2, <1>4, <1>7
  <2>2. PICK u \in w.targets : told(u) /\ k = of(u)
    BY <1>2
  <2>3. CASE u \in e.targets
    BY <1>1, <1>7, <2>2, <2>3 DEF Same
  <2>4. CASE \E x \in e.targets : x.name = u.name /\ x.via = u.via /\ x.status = "lost"
    <3>1. PICK x \in e.targets : x.name = u.name /\ x.via = u.via /\ x.status = "lost"
      BY <2>4
    <3>2. of(x) \in Records(e.targets, e.complete) /\ Same(of(x), k) /\ of(x).verdict = "abstained"
      BY <1>1, <1>3, <1>5, <2>2, <3>1 DEF Same
    <3> QED
      BY <3>2
  <2> QED
    BY <2>1, <2>3, <2>4 DEF PartOfSite
<1> QED
  BY <1>6, <1>7

LEMMA NamePart ==
    ASSUME NEW n, NEW m, n = m \/ n.status = "lost", NEW ps, NEW qs, PagesPart(ps, qs), NEW d, NEW c,
           NEW j \in NameRules(n, ps, d), NEW k \in NameRules(m, qs, c), Same(j, k), "abstained" \notin {j.verdict, k.verdict}
    PROVE  j.verdict = k.verdict \/ (j.id = "takeover" /\ j.verdict # "fired" /\ FrontLost(ps))
<1>1. ASSUME n.status = "lost" PROVE FALSE
  BY <1>1 DEF NameRules, Takeover, TakeoverVerdict, PrivateAddress, UnknownName, J
<1>2. n = m /\ n.status # "lost"
  BY <1>1
<1>3. /\ j \in Takeover(n, ps) \/ j \in PrivateAddress(n) \/ j \in Dangling(n)
      /\ k \in Takeover(n, qs) \/ k \in PrivateAddress(n) \/ k \in Dangling(n)
  BY <1>2 DEF NameRules, UnknownName
<1>4. /\ \A rs, x : x \in Takeover(n, rs) => x.id = "takeover" /\ x.verdict = TakeoverVerdict(n, rs)
      /\ \A x \in PrivateAddress(n) : x.id = "private"
      /\ \A x \in Dangling(n) : x.id = "dangling"
  BY DEF Takeover, PrivateAddress, Dangling, J
<1>5. \A x, y : (x \in PrivateAddress(n) /\ y \in PrivateAddress(n)) => x = y
  BY DEF PrivateAddress
<1>6. \A x, y : (x \in Dangling(n) /\ y \in Dangling(n)) => x = y
  BY DEF Dangling
<1>7. \A rs : TakeoverVerdict(n, rs) \in {"fired", "abstained", "disproved"}
  BY DEF TakeoverVerdict
<1>8. CASE j.id = "takeover"
  <2>1. k.id = "takeover"
    BY <1>8 DEF Same
  <2>2. j.verdict = TakeoverVerdict(n, ps) /\ k.verdict = TakeoverVerdict(n, qs)
    BY <1>3, <1>4, <1>8, <2>1
  <2>3. /\ TakeoverVerdict(n, ps) = "fired" => TakeoverVerdict(n, qs) = "fired"
        /\ TakeoverVerdict(n, qs) = "fired" => TakeoverVerdict(n, ps) # "disproved" \/ FrontLost(ps)
    BY <1>2, TakeoverPart
  <2> QED
    BY <1>7, <1>8, <2>2, <2>3
<1>9. CASE j.id # "takeover"
  BY <1>3, <1>4, <1>5, <1>6, <1>9 DEF Same
<1> QED
  BY <1>8, <1>9

(* What was read of a site is a part of what is there.                     *)
LEMMA EvidencePart ==
    ASSUME NEW s \in Sites, NEW l
    PROVE  PartOfSite(Evidence(s, l), Evidence(s, Intact))
<1> DEFINE e == Evidence(s, l)
           w == Evidence(s, Intact)
<1>1. /\ s.name \in NameFacts /\ \A t \in s.targets : t \in TargetFacts
      /\ s.pages \in Seq(PageFacts) /\ 1 \in DOMAIN s.pages /\ s.pages[1].scheme = "https"
  BY WebAssumption
<1>2. DOMAIN s.pages \in SUBSET (Nat \ {0}) /\ \A i \in DOMAIN s.pages : s.pages[i] \in PageFacts
  BY <1>1
<1>3. w.name = s.name /\ w.targets = s.targets /\ w.complete /\ w.listed /\ ~w.doubt
  BY DEF Evidence, Intact
<1>4. w.pages = s.pages
  <2>1. w.pages = [i \in DOMAIN s.pages |-> SeenPage(s.pages[i], "ok")]
    BY DEF Evidence, Intact
  <2>2. \A p : SeenPage(p, "ok") = p
    BY DEF SeenPage
  <2> QED
    BY <1>1, <2>1, <2>2
<1>5. PagesPart(e.pages, s.pages)
  <2>1. e.pages = [i \in DOMAIN s.pages |-> SeenPage(s.pages[i], IF i \in DOMAIN l.pages THEN l.pages[i] ELSE "ok")]
    BY DEF Evidence
  <2> HIDE DEF e
  <2> QED
    BY <1>2, <2>1, SeenShows DEF PagesPart
<1>6. e.name = s.name \/ e.name.status = "lost"
  BY <1>1 DEF Evidence, NameFacts
<1> DEFINE returned(t) == IF t.name \in l.targets THEN [t EXCEPT !.status = "lost"] ELSE t
<1>7. e.targets = {} \/ e.targets = {returned(t) : t \in s.targets}
  BY DEF Evidence
<1>8. ASSUME NEW t \in s.targets
      PROVE  /\ t.name # "name" /\ returned(t).name = t.name /\ returned(t).via = t.via
             /\ returned(t) = t \/ returned(t).status = "lost"
  BY <1>1 DEF TargetFacts
<1>9. /\ Addressed(e) /\ Addressed(w)
      /\ \A t \in e.targets : t \in s.targets \/ t.status = "lost"
      /\ e.targets = {} \/ \A u \in s.targets : u \in e.targets \/ \E t \in e.targets : t.name = u.name /\ t.via = u.via /\ t.status = "lost"
  <2> HIDE DEF e, w, returned
  <2> QED
    BY <1>3, <1>7, <1>8 DEF Addressed
<1> HIDE DEF e, w
<1> QED
  BY <1>1, <1>2, <1>3, <1>4, <1>5, <1>6, <1>9 DEF PartOfSite, e, w

-----------------------------------------------------------------------------
Excused(j, ps) ==
    \/ j.id \in {"plain", "restricted"} /\ TimedOut(ps)
    \/ j.id = "takeover" /\ FrontLost(ps)
Opposed(j, k) == {j.verdict, k.verdict} = {"fired", "disproved"}

LEMMA RawStands ==
    ASSUME NEW s \in Sites, s.declared, NEW l,
           NEW j \in Raw(s, Evidence(s, l)), NEW k \in Raw(s, Evidence(s, Intact)), Same(j, k), Opposed(j, k)
    PROVE  /\ j.verdict = "fired" => \E x \in Raw(s, Evidence(s, Intact)) : Same(j, x) /\ x.verdict # "disproved"
           /\ k.verdict = "fired" => \/ Excused(j, Evidence(s, l).pages)
                                    \/ \E x \in Raw(s, Evidence(s, l)) : Same(x, k) /\ x.verdict # "disproved"
<1> DEFINE e == Evidence(s, l)
           w == Evidence(s, Intact)
           ps == e.pages
           qs == w.pages
           here == \E x \in Raw(s, w) : Same(j, x) /\ x.verdict # "disproved"
           there == Excused(j, ps) \/ \E x \in Raw(s, e) : Same(x, k) /\ x.verdict # "disproved"
<1> SUFFICES (j.verdict = "fired" => here) /\ (k.verdict = "fired" => there)
  OBVIOUS
<1>1. PartOfSite(e, w)
  BY EvidencePart
<1>2. w.pages = s.pages
  <2>1. w.pages = [i \in DOMAIN s.pages |-> SeenPage(s.pages[i], "ok")]
    BY DEF Evidence, Intact
  <2>2. \A p : SeenPage(p, "ok") = p
    BY DEF SeenPage
  <2>3. s.pages \in Seq(PageFacts)
    BY WebAssumption
  <2> QED
    BY <2>1, <2>2, <2>3
<1>3. /\ \A i, x \in DOMAIN qs : i # x =>
             \/ qs[i].n # s.restricted \/ qs[i].from # "none"
             \/ qs[x].n # s.restricted \/ qs[x].from # "none"
      /\ \A i, x \in DOMAIN qs : (i # x /\ OfTxt(qs[i]) /\ OfTxt(qs[x])) => \E y \in {i, x} : qs[y].status \in 300..399
  BY <1>2, WebAssumption
<1> HIDE DEF e, w
<1>4. /\ 1 \in DOMAIN ps /\ 1 \in DOMAIN qs /\ Addressed(e) /\ Addressed(w) /\ w.listed
      /\ PagesPart(ps, qs) /\ DOMAIN qs \in SUBSET (Nat \ {0}) /\ DOMAIN qs \in SUBSET Nat /\ DOMAIN ps = DOMAIN qs
      /\ e.name = w.name \/ e.name.status = "lost"
      /\ qs[1].scheme = "https" /\ ps[1].scheme = "https" /\ Shows(ps[1], qs[1])
  BY <1>1 DEF PartOfSite, PagesPart, Shows
<1>5. /\ j \in Raw(s, e) /\ k \in Raw(s, w)
      /\ Opposed(j, k) /\ Same(j, k) /\ j.verdict # "abstained" /\ k.verdict # "abstained" /\ j.verdict # k.verdict
      /\ j.verdict \in {"fired", "disproved"} /\ k.verdict \in {"fired", "disproved"}
  BY DEF Opposed, e, w
<1>6. /\ \A x \in VersionsOf(ps) : x \in Raw(s, e)
      /\ \A x \in SecretsOf(ps) : x \in Raw(s, e)
      /\ \A x \in PlainOf(ps) : x \in Raw(s, e)
      /\ \A x \in Records(e.targets, e.complete) : x \in Raw(s, e)
  BY <1>4, RawIs
<1>7. /\ \A x \in VersionsOf(qs) : x \in Raw(s, w)
      /\ \A x \in SecretsOf(qs) : x \in Raw(s, w)
      /\ \A x \in PlainOf(qs) : x \in Raw(s, w)
      /\ \A x \in Records(w.targets, w.complete) : x \in Raw(s, w)
  BY <1>4, RawIs
<1> DEFINE t == Taken(e.name, ps, e.doubt)
           u == Taken(w.name, qs, w.doubt)
<1>8. \/ j \in NameRules(e.name, ps, e.doubt) /\ k \in NameRules(w.name, qs, w.doubt)
      \/ j \in Records(e.targets, e.complete) /\ k \in Records(w.targets, w.complete)
      \/ j \in TlsRules(ps, t) /\ k \in TlsRules(qs, u)
      \/ j \in VersionsOf(ps) /\ k \in VersionsOf(qs)
      \/ j \in SecretsOf(ps) /\ k \in SecretsOf(qs)
      \/ j \in PlainOf(ps) /\ k \in PlainOf(qs)
      \/ j \in HstsOf(ps) /\ k \in HstsOf(qs)
      \/ j \in TxtOf(s, ps) /\ k \in TxtOf(s, qs)
      \/ j \in HeadersOf(ps) /\ k \in HeadersOf(qs)
      \/ j \in CookiesOf(ps) /\ k \in CookiesOf(qs)
      \/ j \in Restricted(s, ps) /\ k \in Restricted(s, qs)
  BY <1>4, <1>5, SamePart
<1> HIDE DEF t, u
<1>10. CASE j \in NameRules(e.name, ps, e.doubt) /\ k \in NameRules(w.name, qs, w.doubt)
  <2>1. j.id = "takeover" /\ j.verdict # "fired" /\ FrontLost(ps)
    BY <1>4, <1>5, <1>10, NamePart
  <2> QED
    BY <2>1 DEF Excused
<1>11. CASE j \in Records(e.targets, e.complete) /\ k \in Records(w.targets, w.complete)
  <2>1. /\ j.verdict = "fired" => j \in Records(w.targets, w.complete)
        /\ j.verdict = "disproved" /\ k.verdict = "fired" =>
              \E i \in Records(e.targets, e.complete) : Same(i, k) /\ i.verdict # "disproved"
    BY <1>1, <1>5, <1>11, RecordsPart
  <2>2. Same(j, j)
    BY DEF Same
  <2> QED
    BY <1>5, <1>6, <1>7, <2>1, <2>2
<1>12. CASE j \in TlsRules(ps, t) /\ k \in TlsRules(qs, u)
  <2>1. FirstHttps(ps) = ps[1] /\ FirstHttps(qs) = qs[1]
    BY <1>4, FrontIsFirst
  <2>2. "abstained" \in {j.verdict, k.verdict} \/ j.verdict = k.verdict
    BY <1>4, <1>5, <1>12, <2>1, TlsPart
  <2> QED
    BY <1>5, <2>2
<1>13. CASE j \in VersionsOf(ps) /\ k \in VersionsOf(qs)
  <2>1. /\ j.verdict = "fired" => \E x \in VersionsOf(qs) : Same(j, x) /\ x.verdict = "fired"
        /\ k.verdict = "fired" => \E x \in VersionsOf(ps) : Same(x, k) /\ x.verdict # "disproved"
    BY <1>4, <1>13, VersionsPart
  <2> QED
    BY <1>6, <1>7, <2>1
<1>14. CASE j \in SecretsOf(ps) /\ k \in SecretsOf(qs)
  <2>1. /\ j.verdict = "fired" => \E x \in SecretsOf(qs) : Same(j, x) /\ x.verdict = "fired"
        /\ k.verdict = "fired" => \E x \in SecretsOf(ps) : Same(x, k) /\ x.verdict # "disproved"
    BY <1>4, <1>14, SecretsPart
  <2> QED
    BY <1>6, <1>7, <2>1
<1>15. CASE j \in PlainOf(ps) /\ k \in PlainOf(qs)
  <2>1. /\ j.verdict = "fired" => \E x \in PlainOf(qs) : Same(j, x) /\ x.verdict = "fired"
        /\ k.verdict = "fired" => TimedOut(ps) \/ \E x \in PlainOf(ps) : Same(x, k) /\ x.verdict # "disproved"
    BY <1>4, <1>15, PlainPart
  <2>2. j.id = "plain"
    BY <1>15, PageIds
  <2>3. j.verdict = "fired" => here
    BY <1>7, <2>1
  <2>4. k.verdict = "fired" => there
    BY <1>6, <2>1, <2>2 DEF Excused
  <2> QED
    BY <2>3, <2>4
<1>16. CASE j \in HstsOf(ps) /\ k \in HstsOf(qs)
  BY <1>4, <1>5, <1>16, HstsPart
<1>17. CASE j \in TxtOf(s, ps) /\ k \in TxtOf(s, qs)
  <2>1. j.verdict \in {"abstained", k.verdict}
    BY <1>3, <1>4, <1>17, TxtPart
  <2> QED
    BY <1>5, <2>1
<1>18. CASE j \in HeadersOf(ps) /\ k \in HeadersOf(qs)
  BY <1>4, <1>5, <1>18, HeadersPart
<1>19. CASE j \in CookiesOf(ps) /\ k \in CookiesOf(qs)
  <2>1. j.verdict # "disproved" /\ k.verdict # "disproved"
    BY <1>19, CookiesPart
  <2> QED
    BY <1>5, <2>1
<1>20. CASE j \in Restricted(s, ps) /\ k \in Restricted(s, qs)
  <2>1. /\ j.verdict = "fired" => k.verdict = "fired"
        /\ j.verdict = "disproved" => TimedOut(ps)
    BY <1>3, <1>4, <1>20, RestrictedPart
  <2>2. j.id = "restricted"
    <3> HIDE DEF ps, qs
    <3> QED
      BY <1>20 DEF Restricted, J
  <2> QED
    BY <1>5, <2>1, <2>2 DEF Excused
<1> QED
  BY <1>8, <1>10, <1>11, <1>12, <1>13, <1>14, <1>15, <1>16, <1>17, <1>18, <1>19, <1>20

LEMMA JudgedStands ==
    ASSUME NEW s \in Sites, s.declared, NEW l,
           NEW x \in Judge(s, Evidence(s, l)), NEW y \in Judge(s, Evidence(s, Intact)), Same(x, y), Opposed(x, y)
    PROVE  x.verdict = "disproved" /\ Excused(x, Evidence(s, l).pages)
<1> DEFINE e == Evidence(s, l)
           w == Evidence(s, Intact)
<1>1. Judge(s, e) = Add(Raw(s, e), e.doubt) /\ Judge(s, w) = Add(Raw(s, w), w.doubt)
  BY DEF Judge, Raw
<1> HIDE DEF e, w
<1>2. /\ \E j \in Raw(s, e) : Same(j, x)
      /\ x.verdict = "fired" => \E j \in Raw(s, e) : Same(j, x) /\ j.verdict = "fired"
      /\ x.verdict = "disproved" => \A j \in Raw(s, e) : Same(j, x) => j.verdict = "disproved"
  BY <1>1, AddSays DEF e
<1>3. /\ \E k \in Raw(s, w) : Same(k, y)
      /\ y.verdict = "fired" => \E k \in Raw(s, w) : Same(k, y) /\ k.verdict = "fired"
      /\ y.verdict = "disproved" => \A k \in Raw(s, w) : Same(k, y) => k.verdict = "disproved"
  BY <1>1, AddSays DEF w
<1>4. \/ x.verdict = "fired" /\ y.verdict = "disproved"
      \/ x.verdict = "disproved" /\ y.verdict = "fired"
  BY DEF Opposed
<1>5. CASE x.verdict = "fired" /\ y.verdict = "disproved"
  <2>1. PICK j \in Raw(s, e) : Same(j, x) /\ j.verdict = "fired"
    BY <1>2, <1>5
  <2>2. PICK k \in Raw(s, w) : Same(k, y) /\ k.verdict = "disproved"
    BY <1>3, <1>5
  <2>3. Same(j, k) /\ Opposed(j, k)
    BY <2>1, <2>2 DEF Same, Opposed
  <2>4. PICK z \in Raw(s, w) : Same(j, z) /\ z.verdict # "disproved"
    BY <2>1, <2>3, RawStands DEF e, w
  <2>5. Same(z, y)
    BY <2>1, <2>4 DEF Same
  <2> QED
    BY <1>3, <1>5, <2>4, <2>5
<1>6. CASE x.verdict = "disproved" /\ y.verdict = "fired"
  <2>1. PICK j \in Raw(s, e) : Same(j, x) /\ j.verdict = "disproved"
    BY <1>2, <1>6
  <2>2. PICK k \in Raw(s, w) : Same(k, y) /\ k.verdict = "fired"
    BY <1>3, <1>6
  <2>3. Same(j, k) /\ Opposed(j, k)
    BY <2>1, <2>2 DEF Same, Opposed
  <2>4. \/ Excused(j, e.pages)
        \/ \E z \in Raw(s, e) : Same(z, k) /\ z.verdict # "disproved"
    BY <2>2, <2>3, RawStands DEF e, w
  <2>5. ~ \E z \in Raw(s, e) : Same(z, k) /\ z.verdict # "disproved"
    BY <1>2, <1>6, <2>2 DEF Same
  <2> QED
    BY <1>6, <2>1, <2>4, <2>5 DEF Excused, Same, e
<1> QED
  BY <1>4, <1>5, <1>6

WebSpec == WebInit /\ [][WebNext]_webVars

\* What was read is some loss of what a declared site answers.
WebIInv ==
    /\ site \in Sites
    /\ web = [read |-> FALSE] \/ \E l \in WebLosses : web = [read |-> TRUE, lost |-> l, evidence |-> Evidence(site, l)]

LEMMA WebInductive ==
    /\ WebInit => WebIInv
    /\ WebIInv /\ [WebNext]_webVars => WebIInv'
<1>1. WebInit => WebIInv
  BY DEF WebInit, WebIInv
<1>2. ASSUME WebIInv, WebNext PROVE WebIInv'
  <2>1. PICK l \in WebLosses : web' = [read |-> TRUE, lost |-> l, evidence |-> Evidence(site, l)] /\ site' = site
    BY <1>2 DEF WebNext
  <2> QED
    BY <1>2, <2>1 DEF WebIInv
<1>3. ASSUME WebIInv, UNCHANGED webVars PROVE WebIInv'
  BY <1>3 DEF WebIInv, webVars
<1> QED
  BY <1>1, <1>2, <1>3

LEMMA WebLossSafeHolds == WebIInv => WebLossSafe
<1> SUFFICES ASSUME WebIInv, web.read, site.declared,
                    NEW j \in Judge(site, web.evidence), NEW k \in Judge(site, Evidence(site, Intact)),
                    j.id = k.id /\ j.on = k.on /\ {j.verdict, k.verdict} = {"fired", "disproved"}
             PROVE  /\ j.verdict = "disproved"
                    /\ \/ j.id \in {"plain", "restricted"} /\ TimedOut(web.evidence.pages)
                       \/ j.id = "takeover" /\ FrontLost(web.evidence.pages)
  BY DEF WebLossSafe
<1>1. PICK l \in WebLosses : web = [read |-> TRUE, lost |-> l, evidence |-> Evidence(site, l)]
  BY DEF WebIInv
<1>2. web.evidence = Evidence(site, l) /\ site \in Sites
  BY <1>1 DEF WebIInv
<1>3. Same(j, k) /\ Opposed(j, k)
  BY DEF Same, Opposed
<1>4. j.verdict = "disproved" /\ Excused(j, Evidence(site, l).pages)
  BY <1>2, <1>3, JudgedStands
<1> QED
  BY <1>2, <1>4 DEF Excused

\* Nothing unread counts as nothing found: whatever lookups, records and pages
\* of a site are lost, refused, limited, blocked, cut, redacted or inspected, a
\* rule that fires says so of the whole site too, and one that is disproved does
\* not fire on it, but for the three the property names (collector/web/rules.go,
\* http_rules.go, tls_rules.go, takeover.go and restricted.go).
THEOREM WebAlwaysLossSafe == WebSpec => []WebLossSafe
<1>1. WebInit => WebIInv
  BY WebInductive
<1>2. WebIInv /\ [WebNext]_webVars => WebIInv'
  BY WebInductive
<1>3. WebIInv => WebLossSafe
  BY WebLossSafeHolds
<1> QED
  BY <1>1, <1>2, <1>3, PTL DEF WebSpec

=============================================================================
