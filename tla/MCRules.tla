------------------------------ MODULE MCRules ------------------------------
(***************************************************************************)
(* The mail domains the rules are run on: SPF trees two includes deep with *)
(* up to three terms a record, and a few DMARC, DKIM and MX publications.  *)
(***************************************************************************)
EXTENDS MailAuth, GitHubAccess, WebRules, TenantRules, HostRules

Term(name, positive) == [name |-> name, positive |-> positive, broad |-> FALSE, service |-> "none", child |-> NoNode]
Node(recs, terms) == [read |-> "ok", void |-> recs = 0, recs |-> recs, marked |-> FALSE, invalid |-> FALSE, terms |-> terms]
Plain == {Term("all", TRUE), Term("all", FALSE), Term("ip", TRUE), Term("a", TRUE), [Term("ip", TRUE) EXCEPT !.broad = TRUE]}
Leaves == {Node(0, <<>>), Node(2, <<>>), [Node(0, <<>>) EXCEPT !.marked = TRUE]}
            \cup {Node(1, <<t>>) : t \in Plain \cup {Term("macro", TRUE)}}
            \cup {Node(1, <<Term("a", TRUE), Term("all", FALSE)>>)}
Into(nodes, signs, names) == {[Term(n, b) EXCEPT !.child = c, !.service = v] :
                         n \in names, b \in signs, c \in nodes, v \in {"none", "svc"}}
Mid == {Node(1, <<t>>) : t \in Into(Leaves, {TRUE}, {"include"})}
Roots == Leaves \cup {Node(1, Parsed(<<t, u>>)) : t \in Into(Leaves \cup Mid, BOOLEAN, {"include", "redirect"}), u \in {Term("all", FALSE), Term("ip", TRUE), Term("a", TRUE)}}
           \cup {Node(1, <<t, u, v>>) : t \in Into(Leaves, {TRUE}, {"include"}),
                                        u \in Into(Leaves, {TRUE}, {"include"}), v \in {Term("all", TRUE), Term("a", TRUE)}}

Rec(p, sp, np, pct) == [p |-> p, sp |-> sp, np |-> np, pct |-> pct, marked |-> FALSE]
Policies == {<<>>, <<Rec("reject", "", "", 100)>>, <<Rec("reject", "none", "", 100)>>, <<Rec("none", "", "", 100)>>,
             <<Rec("quarantine", "", "reject", 50)>>, <<Rec("x", "", "", 100)>>,
             <<Rec("reject", "none", "none", 100), Rec("none", "", "", 100)>>, <<[Rec("none", "", "", 100) EXCEPT !.marked = TRUE]>>}
Base == [spf |-> Node(1, <<Term("all", FALSE)>>), mx |-> FALSE, dmarc |-> <<Rec("reject", "", "", 100)>>, parent |-> <<>>,
         keys |-> <<>>, absent |-> FALSE, org |-> TRUE, declared |-> "silent", senders |-> {}]
Decl == {<<"silent", {}>>, <<"none", {}>>, <<"sending", {"svc"}>>, <<"sending", {"other"}>>}
MCZones == {[Base EXCEPT !.spf = n, !.declared = d[1], !.senders = d[2]] : n \in Roots, d \in Decl}
     \cup {[Base EXCEPT !.spf = n, !.mx = x, !.dmarc = q, !.parent = p, !.org = o, !.absent = a, !.declared = d] :
             n \in {Base.spf, Node(0, <<>>)}, x \in BOOLEAN, q \in Policies, p \in Policies, o \in BOOLEAN,
             a \in {FALSE}, d \in {"silent", "none"}}
     \cup {[Base EXCEPT !.spf = Node(0, <<>>), !.dmarc = <<>>, !.parent = p, !.org = FALSE, !.absent = TRUE, !.declared = d] :
             p \in Policies, d \in {"silent", "none"}}
     \cup {[Base EXCEPT !.keys = k, !.declared = "sending"] :
             k \in {<<>>, <<"revoked">>, <<"weak">>, <<"k1024">>, <<"strong">>, <<"bad">>, <<"weak", "strong">>}}
MCLosses == {[NoLoss EXCEPT !.spf = n, !.mx = x] : n \in {0, 1, 2, 3, 99}, x \in BOOLEAN}
              \cup {[NoLoss EXCEPT !.spf = n, !.dmarc = d, !.parent = ~d] : n \in {0, 99}, d \in BOOLEAN}
              \cup {[NoLoss EXCEPT !.dmarc = TRUE, !.parent = TRUE], [NoLoss EXCEPT !.keys = TRUE]}

-----------------------------------------------------------------------------
(* Organizations: an expected owner a, a contractor b, a leaver c, an      *)
(* undeclared d and a service account e, over a production repository p    *)
(* and another q.                                                          *)
MCPeople == [a |-> [kind |-> "employee", left |-> FALSE, owner |-> TRUE], b |-> [kind |-> "contractor", left |-> FALSE, owner |-> FALSE],
             c |-> [kind |-> "employee", left |-> TRUE, owner |-> FALSE], e |-> [kind |-> "service", left |-> FALSE, owner |-> TRUE]]
Role(role, admin, push) == [role |-> role, admin |-> admin, push |-> push, maintain |-> admin, pull |-> "t"]
Roles == {Role("admin", "t", "t"), Role("write", "f", "t"), Role("read", "f", "f"), Role("read", "f", "t")}
Repo(roles, keys, public) == [roles |-> roles, keys |-> keys, public |-> public, declaredPublic |-> FALSE, archived |-> FALSE]
Nobody == [x \in {} |-> Role("read", "f", "f")]
NoRepos == [r \in {} |-> Repo(Nobody, {}, FALSE)]
Bare == [authority |-> "owner", mfa |-> TRUE, owners |-> {"a"}, members |-> {"a", "b"}, noMFA |-> {}, outside |-> {}, invited |-> {},
         answers |-> "none", repos |-> NoRepos]
MCOrganizations ==
    {[Bare EXCEPT !.owners = o, !.members = o \cup m, !.noMFA = n, !.mfa = n = {}] :
        o \in SUBSET {"a", "b", "c", "d"}, m \in SUBSET {"b", "e"}, n \in SUBSET {"a", "b"}}
    \cup {[Bare EXCEPT !.owners = {"a", "b", "d"} \cup x, !.members = {"a", "b", "d"} \cup x \cup y] :
        x \in SUBSET {"c", "e"}, y \in SUBSET {"x", "y", "z"}}
    \cup {[Bare EXCEPT !.authority = u, !.members = @ \cup m, !.outside = o \ m, !.invited = i, !.answers = w,
                       !.repos = [r \in {"p", "q"} |-> Repo(IF r = "p" THEN k ELSE Nobody, {}, FALSE)]] :
        u \in {"owner", "member", "none"}, m, i \in SUBSET {"c"}, o \in SUBSET {"c"}, w \in {"none", "read", "admin", "failed"},
        k \in {Nobody} \cup [{"c"} -> Roles]}
    \cup {[Bare EXCEPT !.outside = {"b"}, !.repos = [r \in {"p", "q"} |-> Repo(k, y, v)]] :
        k \in [{"b"} -> Roles] \cup [{"b", "d"} -> Roles], y \in SUBSET {"rw", "ro"}, v \in BOOLEAN}
Listings == {"organization", "owners", "members", "ownersNoMFA", "membersNoMFA", "outside", "invited", "listed", "p",
             "list", "keys"}
MCCuts == {[at |-> at, kept |-> k, early |-> {}] : at \in {x \in SUBSET Listings : Cardinality(x) <= 2}, k \in {{"a", "c", "ro"}, {"b", "d", "c", "rw", "q"}}}
            \cup {[at |-> at, kept |-> {"b", "rw"}, early |-> n] :
                     at \in {x \in SUBSET Listings : Cardinality(x) <= 1}, n \in {x \in SUBSET Listings : Cardinality(x) = 1}}
            \cup {[at |-> {}, kept |-> {}, early |-> n] : n \in {x \in SUBSET Listings : Cardinality(x) = 2}}

-----------------------------------------------------------------------------
(* Sites: a front page on each scheme, an entry the front redirects to and *)
(* the security.txt file.                                                  *)
Page(n, scheme, path) == [n |-> n, scheme |-> scheme, path |-> path, from |-> "none", decision |-> "sent", status |-> 200,
    blocked |-> FALSE, cut |-> FALSE, marked |-> FALSE, tls |-> IF scheme = "https" THEN "verified" ELSE "none", expires |-> "later",
    hsts |-> FALSE, headers |-> "present", cookie |-> FALSE, banner |-> FALSE, secret |-> "none", html |-> TRUE, body |-> TRUE,
    location |-> "none", marker |-> FALSE, txt |-> "ok"]
Fronts == <<Page("s", "https", "front"), Page("h", "http", "front")>>
Served == <<[Fronts[1] EXCEPT !.hsts = TRUE], [Fronts[2] EXCEPT !.status = 301, !.location = "https"]>>
Published == [status |-> "resolves", chain |-> {}, addrs |-> {"public"}, provider |-> FALSE, httpOnly |-> FALSE, byNX |-> FALSE]
Plainly == [name |-> Published, targets |-> {}, declared |-> TRUE, firstParty |-> TRUE, vantage |-> "internet", restricted |-> "no", pages |-> Served]
Txt(status, txt) == [Page("t", "https", "txt") EXCEPT !.status = status, !.txt = txt, !.html = FALSE]
Hop(from, status) == [Page("e", "https", "entry") EXCEPT !.from = from, !.status = status, !.txt = "none", !.html = FALSE]
MCSites ==
    {[Plainly EXCEPT !.name = [Published EXCEPT !.status = st, !.chain = c, !.addrs = a, !.provider = c = {"p"}, !.httpOnly = o, !.byNX = x],
                     !.pages = <<[Fronts[1] EXCEPT !.status = IF m THEN 404 ELSE 200, !.marker = m, !.secret = k],
                                 [Fronts[2] EXCEPT !.status = IF f THEN 404 ELSE 200, !.marker = f, !.secret = k]>>] :
        st \in {"resolves", "nxdomain", "nodata", "excluded"}, c \in {{}, {"p"}, {"q"}}, a \in {{"private"}, {"public", "private"}},
        o, x, m, f \in BOOLEAN, k \in {"none", "late"}}
    \cup {[Plainly EXCEPT !.declared = d, !.restricted = r, !.vantage = v,
                          !.pages = <<[Fronts[1] EXCEPT !.hsts = h, !.status = s, !.headers = q, !.tls = t, !.location = l],
                                      [Fronts[2] EXCEPT !.status = s, !.location = l, !.cookie = h],
                                      [Hop("front", 200) EXCEPT !.hsts = ~h, !.headers = "missing", !.banner = h]>>] :
        d, h \in BOOLEAN, r \in {"s", "h"}, v \in {"internet"}, s \in {200, 301, 401}, q \in {"present", "odd"},
        t \in {"verified", "expired", "old"}, l \in {"https", "http", "login"}}
    \cup {[Plainly EXCEPT !.targets = {[name |-> "mx", type |-> y, via |-> w, status |-> st]},
                          !.pages = <<[Fronts[1] EXCEPT !.expires = e], Fronts[2], Txt(s, x)>>
                                    \o (IF s = 301 THEN <<[Hop("txt", 200) EXCEPT !.txt = x]>> ELSE <<>>)] :
        y \in {"MX", "TXT"}, w \in {"mx"}, st \in {"resolves", "nxdomain", "nodata"},
        e \in {"soon", "unknown"}, s \in {200, 301, 404}, x \in {"ok", "none", "bad", "expired"}}
Hows == {"refused", "timeout", "limited", "waf", "cut", "marked", "inspected"}
MCWebLosses ==
    {[Intact EXCEPT !.pages = l] : l \in {<<a>> : a \in Hows} \cup {<<"ok", a>> : a \in Hows} \cup {<<a, a>> : a \in Hows}
                                       \cup {<<"ok", "ok", a, b>> : a \in Hows, b \in {"ok", "refused", "marked"}}
                                       \cup {<<"ok", "ok", "ok", a>> : a \in Hows}}
    \cup {[Intact EXCEPT !.lookup = k, !.targets = t, !.doubt = d] : k, d \in BOOLEAN, t \in {{}, {"mx"}, {"owner"}, {"ct"}}}

-----------------------------------------------------------------------------
(* Tenants: a declared administrator a, a contractor b who may have b as   *)
(* an alias, a leaver c, a service account s, a break-glass account g and  *)
(* an undeclared u, in one or two units.                                   *)
MCPersons == [a |-> [addresses |-> {"a"}, kind |-> "employee", left |-> "no", expected |-> TRUE],
              b |-> [addresses |-> {"b"}, kind |-> "contractor", left |-> "no", expected |-> FALSE],
              c |-> [addresses |-> {"c"}, kind |-> "employee", left |-> "passed", expected |-> FALSE],
              s |-> [addresses |-> {"s"}, kind |-> "service", left |-> "no", expected |-> TRUE],
              g |-> [addresses |-> {"g", "h", "i"}, kind |-> "break_glass", left |-> "no", expected |-> TRUE]]
MCDeclared == [admins |-> TRUE, mfa |-> "some", client |-> "own"]
MCPrivileges == [full |-> {"supported", "narrow"}, narrow |-> {"narrow"}, parent |-> {"parent"}, odd |-> {"odd"}]
User == [id |-> 0, aliases |-> {}, admin |-> "f", active |-> "t", suspended |-> "f", enforced |-> "t", enrolled |-> "t", mailbox |-> "t", unit |-> "x",
         login |-> "recent", assigned |-> {}, grants |-> {}, auto |-> "off", filters |-> {}]
Ids == [x \in {"a", "b", "c", "g", "h", "i", "s", "u", "v", "w", "y", "z"} |-> CASE x = "g" -> 1 [] x = "h" -> 2 [] x = "i" -> 3 [] OTHER -> 4]
Same(s, u) == [x \in s |-> [u EXCEPT !.id = Ids[x]]]
Grant(app, scope) == [app |-> app, scope |-> scope]
MCTenants ==
    {Same(o, [User EXCEPT !.admin = "t"]) @@ Same(m, User) : o \in SUBSET {"a", "b", "c", "u"}, m \in SUBSET {"b", "y"}}
    \cup {Same({"a", "u", "v"} \cup o, [User EXCEPT !.admin = "t"]) @@ Same(m, User) : o \in SUBSET {"g", "h", "i", "s"}, m \in {{}, {"y", "w"}}}
    \cup {("z" :> [User EXCEPT !.aliases = l, !.admin = d, !.active = x, !.suspended = y]) @@ Same({"a", w}, User) :
             l \in SUBSET {"b", "c"}, d, x, y \in {"t", "f"}, w \in {"b", "c", "u"}}
    \cup {(w :> [User EXCEPT !.assigned = {[role |-> r, expiry |-> p]}, !.enrolled = n, !.suspended = n, !.active = x, !.login = g]) @@ Same({"a"}, User) :
             w \in {"u", "g"}, r \in DOMAIN MCPrivileges, p \in {"none", "passed", "odd"}, n, x \in {"t", "f"},
             g \in {"recent", "old", "never", "new"}}
    \cup {("a" :> [User EXCEPT !.enforced = f, !.active = x, !.admin = d]) @@ ("b" :> [User EXCEPT !.enforced = k, !.unit = n]) :
             f, x, d, k \in {"t", "f"}, n \in {"x", "y"}}
    \cup {("a" :> [User EXCEPT !.grants = h, !.auto = t, !.filters = i, !.active = x, !.mailbox = m]) @@ ("b" :> [User EXCEPT !.grants = k]) :
             h, k \in SUBSET {Grant("own", "security"), Grant("app", "broad"), Grant("app", "narrow")},
             t \in {"off", "own", "ext"}, i \in {{}}, x \in {"t", "f"}, m \in {"t"}}
    \cup {("a" :> [User EXCEPT !.auto = t, !.filters = i, !.active = x, !.mailbox = m]) @@ ("b" :> User) :
             t \in {"off", "own", "ext"}, i \in {{}, {"sub"}, {"own", "ext"}}, x, m \in {"t", "f"}}
MCTenantLosses ==
    LET some == {{}, {"a"}, {"b", "u"}, {"c", "z", "g"}}
    IN  {[NothingLost EXCEPT !.users = s, !.cut = s # {}, !.undated = x] : s \in some, x \in BOOLEAN}
        \cup {[NothingLost EXCEPT !.conflicts = s, !.stepConflicts = x] : s \in some, x \in {{}, {"a"}}}
        \cup {[NothingLost EXCEPT !.details = s, !.flags = x, !.mail = x] : s \in some, x \in {{}, {"a"}}}
        \cup {[NothingLost EXCEPT !.roles = r, !.tree = ~r, !.units = r, !.domains = d, !.cut = d] : r, d \in BOOLEAN}

-----------------------------------------------------------------------------
(* Hosts: sockets on a database port 1, a declared localhost service 2, a  *)
(* declared LAN service 3 and SSH's 4, behind each kind of firewall; and   *)
(* accounts, sshd settings and single facts.                               *)
Ufw(status, incoming, rules) == [why |-> "", cut |-> FALSE, status |-> status, incoming |-> incoming, rules |-> rules]
Fact(items) == [why |-> "", cut |-> FALSE, items |-> items]
Socket(port, addr, owner) == [port |-> port, addr |-> addr, owner |-> owner]
Rule(action, v6, from, to, ports) == [action |-> action, v6 |-> v6, iface |-> FALSE, from |-> from, to |-> to, ports |-> ports]
Machine ==
    [ufw |-> Ufw("active", "deny", <<>>), firewalld |-> [why |-> "missing", cut |-> FALSE, state |-> ""],
     nft |-> [why |-> "", cut |-> FALSE, empty |-> TRUE], backend |-> [why |-> "", cut |-> FALSE, target |-> "none"],
     release |-> [why |-> "", cut |-> FALSE, alpine |-> FALSE],
     sockets |-> Fact({Socket(4, "0.0.0.0", "sshd")}), status |-> Fact({[name |-> "root", state |-> "P"]}),
     passwd |-> Fact(<<[name |-> "root", shell |-> "login"], [name |-> "u", shell |-> "login"]>>),
     sshd |-> [why |-> "", cut |-> FALSE, empty |-> "holds", password |-> "holds", methods |-> "holds", lists |-> FALSE, root |-> "yes", port |-> 4],
     posture |-> [why |-> "", cut |-> FALSE, shape |-> "kv", values |-> <<"other">>]]
Databases == {Socket(1, a, "postgres") : a \in {"lo", "0.0.0.0", "::", "priv4", "odd"}} \cup {Socket(1, "*", ""), Socket(1, "*", "docker-proxy")}
Others == {Socket(2, a, "app") : a \in {"lo", "*"}} \cup {Socket(3, "pub6", "app"), Socket(3, "priv4", "app"), Socket(3, "pub6", "docker-proxy")}
           \cup {Socket(0, "*", "app"), Socket(1, "::", "postgres")}
Filters == {Ufw("inactive", "deny", <<>>), Ufw("active", "allow", <<>>), Ufw("active", "deny", <<Rule("ALLOW", TRUE, "any", "any", {9})>>),
            Ufw("active", "deny", <<[Rule("ALLOW", FALSE, "any", "any", {1, 2}) EXCEPT !.iface = TRUE]>>)}
     \cup {Ufw("active", "allow", <<Rule("ALLOW", x, "source", "any", {1, 2, 3}), Rule(a, x, f, t, {1, 2, 3})>>) :
             x \in BOOLEAN, a \in {"ALLOW", "DENY"}, f \in {"any", "srcport"}, t \in {"any", "addr", "lo"}}
     \cup {[Ufw("inactive", "deny", <<>>) EXCEPT !.why = "missing"]}
\* A database on "::" of a port whose IPv4 wildcard another program holds.
TwinHosts == {[Machine EXCEPT !.ufw = Ufw("active", "deny", <<Rule("ALLOW", b, "any", "any", {1, 2}), Rule("ALLOW", TRUE, "any", "any", {9})>>),
                              !.sockets = Fact({Socket(p, "::", "postgres"), Socket(p, "0.0.0.0", o)})] :
                b \in BOOLEAN, p \in {1, 2}, o \in {"app", "postgres"}}
MCHosts ==
    TwinHosts
    \cup {[Machine EXCEPT !.ufw = u, !.sockets = Fact({a, b})] : u \in Filters, a \in Databases, b \in Others}
    \cup {[Machine EXCEPT !.ufw = Ufw("inactive", "deny", <<>>), !.sockets = Fact({Socket(1, "*", "postgres")}), !.nft.empty = n,
                           !.firewalld.why = "", !.firewalld.state = d, !.backend.target = t, !.release.alpine = p] :
             n, p \in BOOLEAN, d \in {"running", "not running"}, t \in {"none", "nft", "legacy"}}
    \cup {[Machine EXCEPT !.status = Fact({[name |-> "root", state |-> s], [name |-> "u", state |-> t]}), !.passwd.items[1].shell = x,
                           !.passwd.items[2].shell = y, !.sshd.empty = c, !.sshd.lists = l, !.sshd.root = r, !.sockets = Fact({k})] :
             s \in {"NP", "P"}, t \in {"NP", "odd"}, x, y \in {"login", "nologin"}, c \in {"holds", "disproves"}, l \in BOOLEAN,
             r \in {"yes", "no"}, k \in {Socket(4, "0.0.0.0", ""), Socket(4, "lo", "sshd"), Socket(5, "*", "sshd")}}
    \cup {[Machine EXCEPT !.posture.shape = h, !.posture.values = v] :
             h \in {"kv", "lines", "records", "any"}, v \in UNION {[1..n -> {"match", "other", "odd"}] : n \in 0..2}}
    \cup {[Machine EXCEPT !.posture.shape = "outside", !.posture.values = <<v>>] : v \in {"match", "other", "odd"}}
AllSockets == Databases \cup Others \cup {Socket(4, "0.0.0.0", ""), Socket(5, "*", "sshd")}
                \cup {Socket(p, a, o) : p \in {1, 2}, a \in {"::", "0.0.0.0"}, o \in {"app", "postgres"}}
SomeLost == {AllSockets, Databases, Others, {k \in AllSockets : k.addr = "0.0.0.0"}}
              \cup {[name : {n}, state : {"NP", "P", "odd"}] : n \in {"root", "u"}}
MCCaptures == {[fails |-> f, cuts |-> {}, keep |-> 0, lost |-> {}] : f \in {{c} : c \in DOMAIN Machine}}
          \cup {[fails |-> {}, cuts |-> c, keep |-> n, lost |-> {}] :
                  c \in {{x} : x \in DOMAIN Machine} \cup {{"ufw", "sockets"}, {"status", "passwd"}}, n \in 0..1}
          \cup {[fails |-> {}, cuts |-> c, keep |-> 1, lost |-> t] :
                  c \in {{"sockets"}, {"status"}, {"ufw", "sockets"}, {"status", "passwd"}}, t \in SomeLost}
MCServices == 2 :> "localhost" @@ 3 :> "lan" @@ 4 :> "internet"

-----------------------------------------------------------------------------
VARIABLE arm     \* which rules this behaviour runs
Unused == [off |-> TRUE]
Init == /\ arm \in {"mail", "github", "web", "tenant", "host"}
        /\ IF arm = "mail" THEN MailInit ELSE zone = Unused /\ mail = Unused
        /\ IF arm = "github" THEN AccessInit ELSE org = Unused /\ seen = NotRead
        /\ IF arm = "web" THEN WebInit ELSE site = Unused /\ web = [read |-> FALSE]
        /\ IF arm = "tenant" THEN TenantInit ELSE tenant = Unused /\ held = [read |-> FALSE]
        /\ IF arm = "host" THEN HostRulesInit ELSE machine = Unused /\ sheet = [read |-> FALSE]
Next == /\ UNCHANGED arm
        /\ \/ arm = "mail" /\ MailNext /\ UNCHANGED <<accessVars, webVars, tenantVars, hostRuleVars>>
           \/ arm = "github" /\ AccessNext /\ UNCHANGED <<mailVars, webVars, tenantVars, hostRuleVars>>
           \/ arm = "web" /\ WebNext /\ UNCHANGED <<mailVars, accessVars, tenantVars, hostRuleVars>>
           \/ arm = "tenant" /\ TenantNext /\ UNCHANGED <<mailVars, accessVars, webVars, hostRuleVars>>
           \/ arm = "host" /\ HostRulesNext /\ UNCHANGED <<mailVars, accessVars, webVars, tenantVars>>
Spec == Init /\ [][Next]_<<arm, mailVars, accessVars, webVars, tenantVars, hostRuleVars>>
=============================================================================
