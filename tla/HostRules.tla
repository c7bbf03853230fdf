----------------------------- MODULE HostRules -----------------------------
(***************************************************************************)
(* The rules over one host's facts: the posture rules' predicates          *)
(* (internal/finding: rule.go, join.go, evaluate.go) and the engagement's  *)
(* multi-fact rules (internal/engagement/rules): R1 databases listening    *)
(* unfiltered, R2 empty passwords SSH lets in, R3 services beyond their    *)
(* declared audience, with the reading of the host firewall they share.    *)
(*                                                                         *)
(* A fact is [why, cut, ...]: why is "" for a usable one and cut says the  *)
(* capture is known to be incomplete.  Text keeps its order; sockets and   *)
(* password states are records, of which only which ones there are counts. *)
(***************************************************************************)
EXTENDS Naturals, SequencesExt

CONSTANTS
    Hosts,       \* the facts a host may truly have
    Captures,    \* what may happen to the captures: [fails, cuts, keep, lost]
    Services,    \* expected_services: port -> audience
    Exposure,    \* the host's declared exposure
    DbPorts      \* the usual ports of the table's databases

(* The facts of a host that was read whole.  The one rule on a value       *)
(* outside a set is of a file's mode, which one line of output gives.      *)
Record(values) == [why : {"", "missing"}, cut : {FALSE}, items : SUBSET values]
UfwRules == [action : {"ALLOW", "DENY"}, v6 : BOOLEAN, iface : BOOLEAN, from : {"any", "source", "srcport"},
             to : {"any", "addr", "lo"}, ports : SUBSET Nat]
SocketRecords == [port : Nat, addr : STRING, owner : STRING]
Conditional == {"holds", "disproves", "unknown"}
HostFacts ==
    [ufw : [why : {"", "missing"}, cut : {FALSE}, status : STRING, incoming : STRING, rules : Seq(UfwRules)],
     firewalld : [why : {"", "missing"}, cut : {FALSE}, state : STRING],
     nft : [why : {"", "missing"}, cut : {FALSE}, empty : BOOLEAN],
     backend : [why : {"", "missing"}, cut : {FALSE}, target : STRING],
     release : [why : {"", "missing"}, cut : {FALSE}, alpine : BOOLEAN],
     sockets : Record(SocketRecords), status : Record([name : STRING, state : STRING]),
     passwd : [why : {"", "missing"}, cut : {FALSE}, items : Seq([name : STRING, shell : {"login", "nologin", "odd"}])],
     sshd : [why : {"", "missing"}, cut : {FALSE}, empty : Conditional, password : Conditional, methods : Conditional,
             lists : BOOLEAN, root : STRING, port : Nat],
     posture : [why : {"", "missing"}, cut : {FALSE}, shape : STRING, values : Seq({"match", "other", "odd", "marked"})]]
OneMode(f) == f.shape \notin {"kv", "lines", "records", "any"} => Len(f.values) <= 1
ASSUME HostAssumption ==
    /\ \A h \in Hosts : h \in HostFacts /\ OneMode(h.posture)
    /\ \A l \in Captures : l.keep \in Nat
    /\ 0 \notin DOMAIN Services

VARIABLES
    machine,   \* the host's facts, whole
    sheet      \* the facts as captured
hostRuleVars == <<machine, sheet>>

Ruled(id, of, verdict) == [id |-> id, of |-> of, verdict |-> verdict]

-----------------------------------------------------------------------------
(* The posture predicates over a fact whose values are "match", "other",   *)
(* "odd" (not understood) or "marked" (bytes removed).                     *)
KeyEquals(f) ==
    IF f.values = <<>> \/ Head(f.values) \in {"odd", "marked"} THEN "abstained"
    ELSE IF Head(f.values) = "match" THEN "fired"
    ELSE "disproved"
AnyLine(f) ==
    IF "match" \in ToSet(f.values) THEN "fired"
    ELSE IF f.cut \/ "marked" \in ToSet(f.values) THEN "abstained"
    ELSE "disproved"
FieldEquals(f) ==
    IF "match" \in ToSet(f.values) THEN "fired"
    ELSE IF f.cut \/ ToSet(f.values) \cap {"odd", "marked"} # {} THEN "abstained"
    ELSE "disproved"
AnyRecord(f) == IF f.values # <<>> THEN "fired" ELSE IF f.cut THEN "abstained" ELSE "disproved"
FieldOutside(f) ==
    LET at == SelectInSeq(f.values, LAMBDA v : v # "other") IN
    IF f.values = <<>> THEN "abstained"
    ELSE IF at = 0 THEN "disproved"
    ELSE IF f.values[at] = "match" THEN "fired" ELSE "abstained"
Predicate(f) ==
    CASE f.shape = "kv" -> KeyEquals(f)
      [] f.shape = "lines" -> AnyLine(f)
      [] f.shape = "records" -> FieldEquals(f)
      [] f.shape = "any" -> AnyRecord(f)
      [] OTHER -> FieldOutside(f)
EvalRule(f) == IF f.why # "" THEN "abstained" ELSE Predicate(f)

(* StatusWithLoginShell.Decide: each account without a password against    *)
(* its line of /etc/passwd.  The last line before a cut may be cut         *)
(* anywhere, so it decides nothing.                                        *)
LineCutIgnored(e, i) == FALSE
LineCut(e, i) == e.passwd.cut /\ i = Len(e.passwd.items)
ShellOf(e, name) ==
    LET i == SelectInSeq(e.passwd.items, LAMBDA a : a.name = name) IN
    IF e.passwd.why # "" \/ i = 0 \/ LineCut(e, i) THEN "unknown" ELSE e.passwd.items[i].shell
AccountOutcome(e, a) ==
    IF a.state \in {"odd", "marked"} THEN "abstained"
    ELSE IF a.state # "NP" THEN "none"
    ELSE IF ShellOf(e, a.name) = "login" THEN "fired"
    ELSE IF ShellOf(e, a.name) = "nologin" THEN "disproved"
    ELSE "abstained"
Accounts(e) ==
    LET all == {AccountOutcome(e, a) : a \in e.status.items} IN
    IF e.status.why # "" \/ e.status.items = {} THEN "abstained"
    ELSE IF "fired" \in all THEN "fired"
    ELSE IF e.status.cut \/ "abstained" \in all THEN "abstained"
    ELSE "disproved"

-----------------------------------------------------------------------------
(* listeners: what each socket's bind address reaches.  "::" alone takes   *)
(* IPv4 too, unless an IPv4 wildcard holds the same port.                  *)
Loopback(l) == l.addr = "lo"
Recognized(l) == l.addr # "odd"
Wildcard(l) == l.addr \in {"*", "0.0.0.0", "::"}
Global(l) == l.addr \in {"pub4", "pub6"}
V6(l) == l.addr \in {"*", "::", "pub6"}
V4(l, e) == \/ l.addr \in {"*", "0.0.0.0", "pub4", "priv4"}
            \/ l.addr = "::" /\ ~\E o \in e.sockets.items : o.addr = "0.0.0.0" /\ o.port = l.port
PortsRead(e) == \A l \in e.sockets.items : l.port # 0
Sockets(e) == {l \in e.sockets.items : l.port # 0}
Beyond(e, port) == {l \in Sockets(e) : l.port = port /\ ~Loopback(l)}
ListeningWhole(e) == ~e.sockets.cut /\ PortsRead(e) /\ \A l \in Sockets(e) : Loopback(l) \/ (Recognized(l) /\ l.owner # "")
ContainerOwner(l) == l.owner = "docker-proxy"
Database(l) == l.owner = "postgres"
MayHide(l) == l.port \in DbPorts /\ (l.owner = "" \/ ContainerOwner(l))

(* readFirewall: ufw when it is active, else nothing filters only when     *)
(* firewalld, nftables and the iptables backend all say so.  The asked     *)
(* checks are the facts the rule touched.                                  *)
UfwActive(e) == e.ufw.why = "" /\ e.ufw.status = "active"
UfwOff(e) == e.ufw.why = "missing" \/ (e.ufw.why = "" /\ e.ufw.status = "inactive")
FirewalldOff(e) == e.firewalld.why = "missing" \/ (e.firewalld.why = "" /\ e.firewalld.state = "not running")
NftEmpty(e) == e.nft.why = "" /\ ~e.nft.cut /\ e.nft.empty
Alpine(e) == e.release.why = "" /\ e.release.alpine
BackendPlain(e) == e.backend.why = "" /\ (e.backend.target = "nft" \/ (e.backend.target = "none" /\ ~Alpine(e)))
NoFirewall(e) == UfwOff(e) /\ FirewalldOff(e) /\ NftEmpty(e) /\ BackendPlain(e)
AskedOfFirewall(e) ==
    {"ufw"} \cup (IF UfwOff(e) THEN {"firewalld"} ELSE {})
            \cup (IF UfwOff(e) /\ FirewalldOff(e) THEN {"nft"} ELSE {})
            \cup (IF UfwOff(e) /\ FirewalldOff(e) /\ NftEmpty(e) THEN {"backend"} ELSE {})
            \cup (IF UfwOff(e) /\ FirewalldOff(e) /\ NftEmpty(e) /\ e.backend.why = "" /\ e.backend.target = "none" THEN {"release"} ELSE {})

(* ufwState.walk: the first rule of the family and port that decides for   *)
(* traffic from any source, then the default.                              *)
RuleAnswer(r) ==
    IF r.iface THEN "unknown"
    ELSE IF r.from = "source" THEN "pass"
    ELSE IF r.action = "DENY" /\ (r.from = "srcport" \/ r.to # "any") THEN "pass"
    ELSE IF r.to = "lo" THEN "pass"
    ELSE IF r.to = "addr" THEN "unknown"
    ELSE IF r.action = "ALLOW" THEN "open"
    ELSE "filtered"
WalkUFW(u, port, v6) ==
    LET at == SelectInSeq(u.rules, LAMBDA r : r.v6 = v6 /\ port \in r.ports /\ RuleAnswer(r) # "pass") IN
    IF v6 /\ ~\E r \in ToSet(u.rules) : r.v6 THEN "unknown"
    ELSE IF at # 0 THEN RuleAnswer(u.rules[at])
    ELSE IF u.cut THEN "unknown"
    ELSE IF u.incoming = "allow" THEN "open" ELSE "filtered"
OpenTo(e, port, v6) == IF UfwActive(e) THEN WalkUFW(e.ufw, port, v6) ELSE IF NoFirewall(e) THEN "open" ELSE "unknown"
(* firewallReader.reach: the families some listeners reach that are open,  *)
(* and whether any answer is unknown.                                      *)
Reached(v4, v6, ls) ==
    LET open == "open" \in {v4, v6} IN
    [open |-> open, v4 |-> v4 = "open", v6 |-> v6 = "open",
     unknown |-> "unknown" \in {v4, v6} \/ (~open /\ \E l \in ls : ~Recognized(l))]
Reach(e, port, ls) == Reached(IF \E l \in ls : V4(l, e) THEN OpenTo(e, port, FALSE) ELSE "none",
                              IF \E l \in ls : V6(l) THEN OpenTo(e, port, TRUE) ELSE "none", ls)
InOpen(e, r, ls) == {l \in ls : Recognized(l) /\ ((V4(l, e) /\ r.v4) \/ (V6(l) /\ r.v6))}

-----------------------------------------------------------------------------
(* run: a disproval resting on an incomplete fact the rule touched is      *)
(* withdrawn.                                                              *)
Withdraw(e, touched, js) ==
    {IF j.verdict = "disproved" /\ \E c \in touched : e[c].cut THEN [j EXCEPT !.verdict = "abstained"] ELSE j : j \in js}

Filed(js) == {j \in js : j.verdict # "none"}

(* R1, dbListensUnfiltered and dbSubject. *)
Ports(e) == {l.port : l \in Sockets(e)}
DbReached(dbs, doubt, r) ==
    IF dbs = {} THEN (IF doubt THEN "abstained" ELSE "none")
    ELSE IF r.open THEN "fired"
    ELSE IF r.unknown \/ doubt THEN "abstained"
    ELSE "disproved"
DbSubject(e, port) ==
    LET dbs == {l \in Beyond(e, port) : Database(l)}
    IN  DbReached(dbs, \E l \in Beyond(e, port) : ~Database(l) /\ MayHide(l), Reach(e, port, dbs))
DbHost(e, subjects) ==
    subjects \cup (IF ~ListeningWhole(e) THEN {Ruled("db", 0, "abstained")}
                   ELSE IF subjects = {} THEN {Ruled("db", 0, "disproved")}
                   ELSE {})
DbRule(e) ==
    LET asked == IF \E l \in Sockets(e) : Database(l) /\ ~Loopback(l) THEN AskedOfFirewall(e) ELSE {}
    IN  IF e.sockets.why # "" THEN {Ruled("db", 0, "abstained")}
        ELSE Withdraw(e, {"sockets"} \cup asked, DbHost(e, Filed({Ruled("db", p, DbSubject(e, p)) : p \in Ports(e)})))

(* R3, listensBeyondDeclared and judgeService. *)
JudgedPorts == {p \in DOMAIN Services : Services[p] \notin {"internet", ""}}
DbOwns(e, port) == \E l \in Beyond(e, port) : Database(l) \/ MayHide(l)
ServiceReached(e, port, out, r) ==
    LET open == InOpen(e, r, out)
        private == Services[port] # "localhost" /\ open # {} /\ ~\E l \in open : Wildcard(l) \/ Global(l)
    IN  IF out = {} THEN "disproved"
        ELSE IF \E l \in out : ContainerOwner(l) THEN "abstained"
        ELSE IF ~r.open THEN (IF r.unknown THEN "abstained" ELSE "disproved")
        ELSE IF Services[port] # "localhost" /\ Exposure # "internet" THEN "abstained"
        ELSE IF private THEN "abstained"
        ELSE "fired"
JudgeService(e, port) == ServiceReached(e, port, Beyond(e, port), Reach(e, port, Beyond(e, port)))
ServiceVerdict(e, port) ==
    LET seen == \E l \in Sockets(e) : l.port = port IN
    IF e.sockets.why # "" \/ (~PortsRead(e) /\ Beyond(e, port) = {}) THEN "abstained"
    ELSE IF ~seen \/ DbOwns(e, port) THEN "none"
    ELSE JudgeService(e, port)
OrDisproved(js) == IF js = {} THEN {Ruled("svc", 0, "disproved")} ELSE js
ServiceRule(e) ==
    LET asked == IF e.sockets.why = "" /\ \E p \in JudgedPorts : /\ Beyond(e, p) # {} /\ ~DbOwns(e, p)
                                                               /\ ~\E l \in Beyond(e, p) : ContainerOwner(l)
                 THEN AskedOfFirewall(e) ELSE {}
    IN  IF JudgedPorts = {} THEN {Ruled("svc", 0, "abstained")}
        ELSE Withdraw(e, {"sockets"} \cup asked,
                      OrDisproved(Filed({Ruled("svc", p, ServiceVerdict(e, p)) : p \in JudgedPorts})))

(* R2, emptyPasswordRemote: the conditions, any of which disproves. *)
SshListens(e) ==
    LET out == {l \in Sockets(e) : ~Loopback(l)} IN
    IF e.sockets.why # "" THEN "unknown"
    ELSE IF \E l \in out : Recognized(l) /\ (l.owner = "sshd" \/ (l.port = e.sshd.port /\ l.owner \in {"systemd", ""})) THEN "holds"
    ELSE IF e.sockets.cut \/ ~PortsRead(e) \/ \E l \in out : ~Recognized(l) \/ l.owner \in {"", "systemd"} THEN "unknown"
    ELSE "disproves"
Conditions(e) == {e.sshd.empty, e.sshd.password, e.sshd.methods, IF e.sshd.lists THEN "unknown" ELSE "holds", SshListens(e)}
RootHeld(e, a) == a.name = "root" /\ e.sshd.root # "yes"
EmptyPasswordRemote(e) ==
    LET found == {a \in e.status.items : AccountOutcome(e, a) = "fired"}
        fired == {a \in found : ~RootHeld(e, a)}
    IN  IF e.status.why # "" THEN "abstained"
        ELSE IF Accounts(e) = "disproved" THEN "disproved"
        ELSE IF found = {} \/ e.sshd.why # "" \/ e.sshd.cut THEN "abstained"
        ELSE IF "disproves" \in Conditions(e) THEN "disproved"
        ELSE IF "unknown" \in Conditions(e) THEN "abstained"
        ELSE IF fired # {} THEN "fired"
        ELSE IF e.sshd.root = "odd" \/ \E a \in e.status.items : AccountOutcome(e, a) = "abstained" THEN "abstained"
        ELSE "disproved"
SshRule(e) ==
    LET asked == {"status", "passwd"} \cup (IF Accounts(e) = "fired" THEN {"sshd"} ELSE {})
                   \cup (IF Accounts(e) = "fired" /\ e.sshd.why = "" /\ ~e.sshd.cut THEN {"sockets"} ELSE {})
    IN  Withdraw(e, asked, {Ruled("ssh", 0, EmptyPasswordRemote(e))})

(* Judge and Evaluate. *)
HostVerdicts(e) == DbRule(e) \cup ServiceRule(e) \cup SshRule(e)
                   \cup {Ruled("posture", 0, EvalRule(e.posture)), Ruled("accounts", 0, Accounts(e))}

-----------------------------------------------------------------------------
(* The captures: a check that fails gives no fact; text cut short keeps    *)
(* its beginning, the last line of a cut /etc/passwd reading as anything;  *)
(* and of records, any may be on lines that were redacted or not parsed.   *)
Failed(f) == [f EXCEPT !.why = "failed"]
Beginning(s, n) == SubSeq(s, 1, IF n < Len(s) THEN n ELSE Len(s))
Cut(c, f, l) ==
    CASE c = "ufw" -> [f EXCEPT !.cut = TRUE, !.rules = Beginning(f.rules, l.keep)]
      [] c = "posture" -> [f EXCEPT !.cut = TRUE, !.values = Beginning(f.values, l.keep)]
      [] c = "passwd" -> [f EXCEPT !.cut = TRUE, !.items = [i \in DOMAIN Beginning(f.items, l.keep) |->
                              IF i = l.keep THEN [f.items[i] EXCEPT !.shell = "login"] ELSE f.items[i]]]
      [] c \in {"sockets", "status"} -> [f EXCEPT !.cut = TRUE, !.items = f.items \ l.lost]
      [] c = "sshd" -> [f EXCEPT !.cut = TRUE, !.lists = FALSE]
      [] OTHER -> [f EXCEPT !.cut = TRUE]
Captured(h, l) ==
    [c \in DOMAIN h |-> IF c \in l.fails THEN Failed(h[c]) ELSE IF c \in l.cuts THEN Cut(c, h[c], l) ELSE h[c]]
HostRulesInit == machine \in Hosts /\ sheet = [read |-> FALSE]
HostRulesNext == ~sheet.read /\ \E l \in Captures : sheet' = [read |-> TRUE, facts |-> Captured(machine, l)] /\ UNCHANGED machine

-----------------------------------------------------------------------------
(* Two judgments contradict each other when one finds what the other rules *)
(* out, of the same subject or of the host it is on.  On a port that turns *)
(* out to be a database's the rule on declared services leaves the answer  *)
(* to the rule on databases, so its own word on the host excepts that port.*)
Opposed(j, k) ==
    /\ j.id = k.id /\ (j.of = k.of \/ 0 \in {j.of, k.of})
    /\ {j.verdict, k.verdict} = {"fired", "disproved"}
    /\ ~(j.id = "svc" /\ DbOwns(machine, j.of))

(* A database's "::" was taken to receive IPv4 as well, because the socket *)
(* that has it on this port is not among the ones read.                    *)
TwinLost(port) == \E l \in Beyond(sheet.facts, port) : Database(l) /\ V4(l, sheet.facts) /\ ~V4(l, machine)

(* Whatever captures failed or were cut short, no rule over a host says    *)
(* the opposite of what the whole facts say, of a subject or of the host   *)
(* it is on: a partial read may show presence, never absence (rules.go     *)
(* ReasonIncomplete; rule.go, Predicate).  A lost twin is excepted: there  *)
(* listeners infers from what is not in the list (listeners.go:95).        *)
HostLossSafe ==
    sheet.read => \A j \in HostVerdicts(sheet.facts), k \in HostVerdicts(machine) :
                      Opposed(j, k) => j.id = "db" /\ TwinLost(j.of)
=============================================================================
