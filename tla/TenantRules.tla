---------------------------- MODULE TenantRules ----------------------------
(***************************************************************************)
(* The rules of the Google Workspace collector (collector/workspace:       *)
(* rules.go, twostep.go, oauth.go, mail.go, inventory.go, access.go): what *)
(* each says of a tenant's accounts when a listing stopped early, a read   *)
(* failed, or the list and an account's fresh detail disagree.             *)
(*                                                                         *)
(* An account is known by its primary address; a flag is "t", "f" or "?"   *)
(* where Google left it out.  A judgment is [id, of, verdict].             *)
(***************************************************************************)
EXTENDS Naturals, FiniteSets

CONSTANTS
    Persons,        \* declared handle -> [addresses, kind, left, expected]
    Privileges,     \* role -> what its privileges are: subset of {"supported", "narrow", "parent", "odd"}
    Declared,       \* [admins, mfa, client]: who are administrators was declared, the 2-step answer, the assessment's own client
    Tenants,        \* what a tenant may hold: account -> user record, its id included
    TenantLosses    \* what may happen to the reads

UserFields == {"id", "aliases", "admin", "active", "suspended", "enforced", "enrolled", "mailbox", "unit", "login",
               "assigned", "grants", "auto", "filters"}
ASSUME TenantAssumption ==
    \A t \in Tenants : IsFiniteSet(DOMAIN t) /\ \A u \in DOMAIN t : t[u] = [f \in UserFields |-> t[u][f]]

VARIABLES
    tenant,   \* what the tenant holds
    held      \* the evidence read of it
tenantVars == <<tenant, held>>

Say(id, of, v) == [id |-> id, of |-> of, verdict |-> v]
Decided(known, fires) == IF ~known THEN "abstained" ELSE IF fires THEN "fired" ELSE "disproved"

-----------------------------------------------------------------------------
(* attribute: a person holds the account whose primary address they        *)
(* declare or, over a complete list, the one account with it as an alias;  *)
(* an account two people claim is nobody's.                                *)
HasAddress(u, a, e) == u = a \/ a \in e.users[u].aliases
TheOnly(s) == \E x \in s : s = {x}
Matches(a, e) == LET aliases == {u \in DOMAIN e.users : a \in e.users[u].aliases} IN
    IF a \in DOMAIN e.users THEN {a} ELSE IF e.complete /\ TheOnly(aliases) THEN aliases ELSE {}
Claims(u, e) == {h \in DOMAIN Persons : \E a \in Persons[h].addresses : u \in Matches(a, e)}
Known(u, e) == TheOnly(Claims(u, e))
Holder(u, e) == Persons[CHOOSE h \in Claims(u, e) : TRUE]
Kind(u, e) == IF Known(u, e) THEN Holder(u, e).kind ELSE "unknown"
Ambiguous(u, e) == ~Known(u, e) /\ \E h \in DOMAIN Persons : \E a \in Persons[h].addresses : HasAddress(u, a, e)
Exempt == {"service", "break_glass"}
PossibleExemption(u, e) ==
    ~Known(u, e) /\ \E h \in DOMAIN Persons : Persons[h].kind \in Exempt /\ \E a \in Persons[h].addresses : HasAddress(u, a, e)
(* leftAt: the leaving date against the times of the users reads.          *)
LeftAt(p, e) == IF p.left = "no" THEN "not" ELSE IF ~e.dated THEN "unknown" ELSE p.left

(* administrative: a super administrator, or the holder of a current       *)
(* assignment to a role with a supported privilege.  A "parent" privilege  *)
(* is one only through the privilege tree, and never known not to be.      *)
Current(x) == x.expiry \in {"none", "later"}
Grants(x, e) == x.role \in e.roles /\ ("supported" \in Privileges[x.role] \/ ("parent" \in Privileges[x.role] /\ e.tree))
Understood(x, e) == x.role \in e.roles /\ Privileges[x.role] \subseteq {"supported", "narrow"}
Conflict(u, e) == u \in e.conflicts
AdminYes(u, e) == ~Conflict(u, e) /\ (e.users[u].admin = "t" \/ \E x \in e.assigned[u].items : Current(x) /\ Grants(x, e))
AdminKnown(u, e) ==
    \/ AdminYes(u, e)
    \/ /\ ~Conflict(u, e) /\ e.users[u].admin = "f"
       /\ e.assigned[u].whole /\ e.rolesWhole /\ e.tree
       /\ \A x \in e.assigned[u].items : x.expiry # "odd" /\ (Current(x) => Understood(x, e))

-----------------------------------------------------------------------------
(* Judge, account by account.                                              *)
Super(u, e) == e.users[u].admin = "t"
SuperKnown(u, e) == e.users[u].admin # "?" /\ ~Conflict(u, e)
Left(u, e) == IF Known(u, e) THEN LeftAt(Holder(u, e), e) ELSE "not"
UnexpectedAdmin(u, e) ==
    Decided(SuperKnown(u, e) /\ (~Super(u, e) \/ (Declared.admins /\ Known(u, e) /\ Left(u, e) = "not")),
            Super(u, e) /\ Known(u, e) /\ ~Holder(u, e).expected)
UnattributedAdmin(u, e) ==
    Decided(Known(u, e) \/ (AdminKnown(u, e) /\ (~AdminYes(u, e) \/ (e.complete /\ ~Ambiguous(u, e)))),
            AdminYes(u, e) /\ ~Known(u, e))
SuspendedAdmin(u, e) ==
    Decided(~Conflict(u, e) /\ (e.users[u].suspended = "f" \/ (e.users[u].suspended = "t" /\ AdminKnown(u, e))),
            e.users[u].suspended = "t" /\ AdminYes(u, e))
AdminOfKind(k, u, e) == Decided(SuperKnown(u, e) /\ (~Super(u, e) \/ Known(u, e)), Super(u, e) /\ Kind(u, e) = k)
Former(u, e) ==
    LET signsIn == u \in Holder(u, e).addresses /\ e.users[u].active = "t"
    IN  Decided(Left(u, e) = "passed" /\ ~Conflict(u, e) /\ (e.users[u].active = "f" \/ signsIn), signsIn)
AccountRules(u, e) ==
    {Say("unexpected_admin", u, UnexpectedAdmin(u, e)), Say("unattributed_admin", u, UnattributedAdmin(u, e)),
     Say("suspended_admin", u, SuspendedAdmin(u, e)),
     Say("contractor_admin", u, AdminOfKind("contractor", u, e)), Say("shared_admin", u, AdminOfKind("shared", u, e))}
    \cup (IF Known(u, e) /\ Holder(u, e).left # "no" THEN {Say("former", u, Former(u, e))} ELSE {})
(* Declared leavers no account was attributed to: their absence needs the  *)
(* whole list.                                                             *)
Unheld(h, e) == {a \in Persons[h].addresses : ~\E u \in DOMAIN e.users : HasAddress(u, a, e) /\ Claims(u, e) = {h}}
Absent(h, a, e) == Decided(LeftAt(Persons[h], e) = "passed" /\ e.complete /\ ~\E u \in DOMAIN e.users : HasAddress(u, a, e), FALSE)
AbsentLeavers(e) ==
    UNION {{Say("former", a, Absent(h, a, e)) : a \in Unheld(h, e)} : h \in {g \in DOMAIN Persons : Persons[g].left # "no"}}
(* inactivity: judged from the fresh detail at its own time.               *)
Idle(id, u, e) ==
    LET who == e.users[u]
        unread == ~(u \in e.detailed) \/ who.active # "t" \/ ~e.dated
    IN  IF ~Conflict(u, e) /\ (who.active = "f" \/ Kind(u, e) \in Exempt) THEN "disproved"
        ELSE IF Conflict(u, e) \/ PossibleExemption(u, e) \/ unread \/ who.login = "?" THEN "abstained"
        ELSE IF who.login = "never" THEN Decided(id = "never", TRUE)
        ELSE IF who.login = "new" THEN Decided(id = "never", FALSE)
        ELSE Decided(TRUE, id = "stale" /\ who.login = "old")
Inactivity(u, e) == {Say(id, u, Idle(id, u, e)) : id \in {"stale", "never"}}
(* adminCount: too many super administrators, service accounts and the     *)
(* first two break-glass ones by id aside; a lower bound is enough to fire.*)
AdminCount(e) ==
    LET judged == {u \in DOMAIN e.users : ~Conflict(u, e) /\ ~PossibleExemption(u, e)}
        glass == {u \in judged : Kind(u, e) = "break_glass"}
        spared == {u \in glass : Cardinality({v \in glass : e.users[v].id < e.users[u].id}) < 2}
        count == Cardinality({u \in judged \ spared : e.users[u].admin = "t" /\ Kind(u, e) # "service"})
        humans == Cardinality({u \in judged : e.users[u].active = "t" /\ Kind(u, e) \notin Exempt})
        known == /\ e.complete /\ judged = DOMAIN e.users
                 /\ \A u \in judged : e.users[u].admin # "?" /\ e.users[u].active # "?"
    IN  Say("admins", "tenant", Decided((known /\ (count < 3 \/ humans > 0)) \/ count > 3,
                                        count > 3 \/ (known /\ humans > 0 /\ count >= 3 /\ count * 3 > humans)))

-----------------------------------------------------------------------------
(* twostep.go: per unit, any active account Google does not require 2-step *)
(* verification of fires; only a whole, fully known unit disproves.        *)
Steady(u, e) == ~Conflict(u, e) /\ u \notin e.flagConflicts
Affected(u, e) == Steady(u, e) /\ e.users[u].active = "t" /\ e.users[u].enforced = "f"
Protected(u, e) == Steady(u, e) /\ e.users[u].active = "t" /\ e.users[u].enforced = "t"
Inactive(u, e) == ~Conflict(u, e) /\ e.users[u].active = "f"
UnitRule(unit, e) ==
    LET us == {u \in DOMAIN e.users : e.users[u].unit = unit}
        unknown == {u \in us : ~Affected(u, e) /\ ~Protected(u, e) /\ ~Inactive(u, e)}
        active == {u \in us : ~Conflict(u, e) /\ e.users[u].active = "t"}
        whole == e.complete /\ e.units /\ unknown = {} /\ active # {}
    IN  IF \A u \in us : Inactive(u, e) THEN {}
        ELSE {Say("two_step", unit, IF \E u \in us : Affected(u, e) THEN "fired" ELSE Decided(whole, FALSE))}
(* adminTwoStep. *)
AdminTwoStep(u, e) ==
    Say("admin_two_step", u,
        IF ~Steady(u, e) THEN "abstained"
        ELSE IF e.users[u].enrolled = "t" \/ Inactive(u, e) \/ (AdminKnown(u, e) /\ ~AdminYes(u, e)) THEN "disproved"
        ELSE Decided(e.users[u].active = "t" /\ AdminYes(u, e) /\ e.users[u].enrolled = "f", TRUE))
(* twoStepView: whether the 2-step declaration is contradicted in a unit.  *)
AllOff(e) == LET active == {u \in DOMAIN e.users : ~Inactive(u, e)} IN e.complete /\ active # {} /\ \A u \in active : Affected(u, e)
Raised(unit, e) ==
    LET off == {u \in DOMAIN e.users : e.users[u].unit = unit /\ Affected(u, e)}
        super == \E u \in off : e.users[u].admin = "t"
    IN  off # {} /\ (Declared.mfa = "everyone" \/ (Declared.mfa = "admins" /\ super) \/ (Declared.mfa = "some" /\ AllOff(e)))

-----------------------------------------------------------------------------
(* oauth.go: each app by the scopes its grantors gave it.  The assessment  *)
(* client's own grant is set aside only when the whole list leaves one     *)
(* candidate.                                                              *)
GrantsWhole(e) == e.complete /\ DOMAIN e.grants = DOMAIN e.users
AllGrants(e) == UNION {{[app |-> g.app, scope |-> g.scope, by |-> u] : g \in e.grants[u]} : u \in DOMAIN e.grants}
SetAside(e) == LET own == {g \in AllGrants(e) : g.app = Declared.client /\ g.scope = "security"}
               IN  IF GrantsWhole(e) /\ TheOnly(own) THEN own ELSE {}
KeptGrants(e) == AllGrants(e) \ SetAside(e)
AppRule(app, e) ==
    LET used == {g \in KeptGrants(e) : g.app = app /\ ~Inactive(g.by, e)}
        broad == {g \in used : g.scope \in {"broad", "security"}}
    IN  Say("app", app, IF \E g \in broad : ~Conflict(g.by, e) /\ e.users[g.by].active = "t" THEN "fired"
                        ELSE Decided(GrantsWhole(e) /\ broad = {} /\ ~\E g \in used : g.scope = "unknown", FALSE))
OAuthRules(e) ==
    {AppRule(g.app, e) : g \in KeptGrants(e)}
    \cup (IF GrantsWhole(e) /\ KeptGrants(e) # {} THEN {} ELSE {Say("app", "tenant", Decided(GrantsWhole(e), FALSE))})

(* mail.go: each active mailbox's destinations against the tenant's        *)
(* verified domains.                                                       *)
DestClass(d, e) == IF d \in e.domains THEN "internal" ELSE IF ~e.domainsWhole THEN "unknown" ELSE IF d = "sub" THEN "subdomain" ELSE "external"
MailboxState(u, e) == IF Conflict(u, e) \/ e.users[u].active = "?" THEN "unknown"
                      ELSE IF e.users[u].active = "f" \/ e.users[u].mailbox = "f" THEN "closed" ELSE "read"
Destinations(box) == (IF box.auto \in {"off", "?"} THEN {} ELSE {box.auto}) \cup box.filters
DecideBox(u, e) ==
    LET box == e.boxes[u]
        dests == Destinations(box)
        classes == {DestClass(d, e) : d \in dests} \ {"internal"}
    IN  IF MailboxState(u, e) = "closed" THEN {}
        ELSE IF MailboxState(u, e) = "unknown" \/ u \notin DOMAIN e.boxes THEN {Say("forward", u, "abstained")}
        ELSE IF classes # {} THEN {Say("forward", u, Decided(c = "external", TRUE)) : c \in classes}
        ELSE {Say("forward", u, Decided(box.whole /\ box.auto # "?" /\ (dests = {} \/ e.domainsWhole), FALSE))}

(* mailJudgments: every account's mailbox, and one abstention for the      *)
(* tenant unless every mailbox of a whole list was read whole.             *)
BoxesUnread(e) ==
    LET eligible == {u \in DOMAIN e.users : MailboxState(u, e) # "closed"}
        whole == {u \in eligible \cap DOMAIN e.boxes : e.boxes[u].whole /\ e.boxes[u].auto # "?"}
    IN  IF e.complete /\ eligible # {} /\ whole = eligible THEN {} ELSE {Say("forward", "tenant", "abstained")}
BoxRules(e) == BoxesUnread(e) \cup UNION {DecideBox(u, e) : u \in DOMAIN e.users}

(* Judge. *)
JudgeTenant(e) ==
    AbsentLeavers(e) \cup {AdminCount(e)} \cup OAuthRules(e) \cup BoxRules(e)
    \cup (UNION {AccountRules(u, e) \cup Inactivity(u, e) \cup {AdminTwoStep(u, e)} : u \in DOMAIN e.users})
    \cup (UNION {UnitRule(n, e) : n \in {e.users[u].unit : u \in DOMAIN e.users}})

-----------------------------------------------------------------------------
(* Collect, collectAccess, collectGrants and collectMail: the listings may *)
(* end early, a read may fail, and a fresh detail may disagree.            *)
Part(s, lost) == [items |-> IF lost THEN {} ELSE s, whole |-> ~lost]
Keep(f, gone) == [x \in DOMAIN f \ gone |-> f[x]]
PopulationUsersUncut(t, l) == [users |-> Keep(t, l.users), complete |-> TRUE]
PopulationUsers(t, l) == [users |-> Keep(t, l.users), complete |-> l.users = {} /\ ~l.cut]
GrantsRead(t, seen, l) == [u \in seen \ l.details |-> t[u].grants]
Box(who, lost) == [auto |-> IF lost THEN "?" ELSE who.auto, filters |-> IF lost THEN {} ELSE who.filters, whole |-> ~lost]
BoxesRead(t, seen, l) == [u \in seen \ l.details |-> Box(t[u], u \in l.mail)]
Flagless(who) == [who EXCEPT !.admin = "?", !.enforced = "?"]
Collect(t, l) ==
    LET list == PopulationUsers(t, l)
        seen == DOMAIN list.users
    IN  [users |-> [u \in seen |-> IF u \in l.flags THEN Flagless(t[u]) ELSE t[u]],
         complete |-> list.complete, dated |-> ~l.undated,
         conflicts |-> l.conflicts \cap seen, flagConflicts |-> l.stepConflicts \cap seen, detailed |-> seen \ l.details,
         assigned |-> [u \in seen |-> Part(t[u].assigned, u \in l.details)],
         roles |-> IF l.roles THEN {} ELSE DOMAIN Privileges, rolesWhole |-> ~l.roles, tree |-> ~l.tree, units |-> ~l.units,
         grants |-> GrantsRead(t, seen, l), boxes |-> BoxesRead(t, seen, l),
         domains |-> IF l.domains THEN {} ELSE {"own"}, domainsWhole |-> ~l.domains]
NothingLost == [users |-> {}, cut |-> FALSE, undated |-> FALSE, conflicts |-> {}, stepConflicts |-> {}, details |-> {}, flags |-> {}, mail |-> {},
                roles |-> FALSE, tree |-> FALSE, units |-> FALSE, domains |-> FALSE]
TenantInit == tenant \in Tenants /\ held = [read |-> FALSE]
TenantNext == ~held.read /\ \E l \in TenantLosses : held' = [read |-> TRUE, evidence |-> Collect(tenant, l)] /\ UNCHANGED tenant

-----------------------------------------------------------------------------
(* Whatever of a tenant was not read, no rule says the opposite of what    *)
(* the whole evidence says: an incomplete population proves presence,      *)
(* never absence (docs/spec/scope.md:1158).  The assessment's own grant,   *)
(* told from another only by the whole list, and the contradiction of a    *)
(* 2-step declaration, which a part can only fail to show, are excepted    *)
(* and included respectively.                                              *)
TenantLossSafe ==
    held.read =>
        LET e == held.evidence
            whole == Collect(tenant, NothingLost)
            now == JudgeTenant(e)
            then == JudgeTenant(whole)
        IN  /\ \A j \in now : \A k \in then :
                 \/ <<j.id, j.of>> # <<k.id, k.of>> \/ "abstained" \in {j.verdict, k.verdict} \/ j.verdict = k.verdict
                 \/ (j.id = "app" /\ j.of = Declared.client)
            /\ \A u \in DOMAIN e.users : Raised(e.users[u].unit, e) => Raised(e.users[u].unit, whole)
=============================================================================
