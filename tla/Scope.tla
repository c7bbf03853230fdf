------------------------------- MODULE Scope -------------------------------
(***************************************************************************)
(* The scope decision (internal/engagement/scope.go, locator.go) as the    *)
(* gate asks it of one web request: the subject is placed against roots    *)
(* and excludes, the path against the site's entry points, the name is     *)
(* resolved, every name and address of the answer is placed, and a path    *)
(* that rests on where the name points is asked about again.  Meanwhile a  *)
(* collector may suspend the operator's confirmation of a name.            *)
(*                                                                         *)
(* A locator is [kind, host, net, scheme, port, path]; port 0 is the       *)
(* scheme's own, a path is [segs, slash], and net is the set of addresses  *)
(* a network, or an address literal, holds.  Reading locators from text,   *)
(* and the locators of providers, are left out.                            *)
(***************************************************************************)
EXTENDS Naturals, SequencesExt

CONSTANTS
    Above,     \* name -> the name and every domain above it
    Carries,   \* address -> the IPv4 address it carries, itself when none
    Class,     \* address -> "public", "not_public" or "never"
    Files,     \* engagement files: [roots, exclude, confirmed, declared, intent]
    Asks,      \* requests: [asset, url]
    Lookups    \* lookups of a name: [chain, addrs]

ASSUME ScopeAssumption ==
    /\ \A a \in DOMAIN Carries : Carries[Carries[a]] = Carries[a]
    /\ \A f \in Files : DOMAIN f.confirmed = 1..Len(f.confirmed) /\ Len(f.confirmed) \in Nat
    /\ \A f \in Files : \A x \in f.exclude : x.kind \in {"domain", "network", "host", "url"}
    /\ \A q \in Asks : q.url.kind = "url"

VARIABLES
    file,       \* the file of the run
    ask,        \* the request
    asked,      \* how far its admission is
    found,      \* the lookup, [chain, addrs]
    suspended,  \* names whose confirmation a provider's page undid
    granted     \* what the first Admits answered

scopeVars == <<file, ask, asked, found, suspended, granted>>

DomainUnder(n, d) == n \in DOMAIN Above /\ d \in Above[n]

Slash == [segs |-> <<>>, slash |-> TRUE]
PathUnder(p, q) ==
    \/ p = q
    \/ IsPrefix(q.segs, p.segs) /\ (Len(p.segs) > Len(q.segs) \/ (p.slash /\ ~q.slash))

SameOrigin(a, b) == a.scheme = b.scheme /\ a.host = b.host /\ a.port = b.port

Under(c, root) ==
    \/ c = root
    \/ root.kind = "domain" /\ c.kind \in {"domain", "url", "host"} /\ DomainUnder(c.host, root.host)
    \/ root.kind = "network" /\ c.net # {} /\ c.net \subseteq root.net
    \/ root.kind = "host" /\ c.kind = "url" /\ root.host = c.host
    \/ root.kind = "url" /\ c.kind = "url" /\ SameOrigin(c, root) /\ PathUnder(c.path, root.path)

(* The two files beside a first-party site's entry points.                 *)
WellKnown == {[segs |-> <<"robots">>, slash |-> FALSE]}
UnderRoot(c, root) == Under(c, root) \/ (root.kind = "url" /\ SameOrigin(c, root) /\ c.path \in WellKnown)

-----------------------------------------------------------------------------
(* Excludes, of a url as a request names it.                               *)

(* An address and the IPv4 address it carries are one machine; a network   *)
(* is inside the addresses that carry one, around all of them, or apart.   *)
FormsAsWritten(a) == {a}
Forms(a) == {a, Carries[a]}
Carried(net) == {Carries[a] : a \in {b \in net : Carries[b] # b}}
AddressExcluded(x, a) == x.kind \in {"network", "host"} /\ Forms(a) \cap (x.net \cup Carried(x.net)) # {}

UrlPort(u) == IF u.port # 0 THEN u.port ELSE IF u.scheme = "https" THEN 443 ELSE 80
Excludes(x, c) ==
    IF x.kind = "url" /\ c.kind = "url"
    THEN x.host = c.host /\ (x.port = c.port \/ UrlPort(x) = UrlPort(c)) /\ IsPrefix(x.path.segs, c.path.segs)
    ELSE Under(c, x) \/ \E a \in c.net : AddressExcluded(x, a)

ExcludesName(x, n) ==
    CASE x.kind = "domain" -> DomainUnder(n, x.host)
      [] x.kind = "host"   -> x.host = n
      [] x.kind = "url"    -> x.host = n /\ x.port = 0 /\ x.path.segs = <<>>
      [] OTHER             -> FALSE

(* placeSubject: under its asset and a root, and no exclude.               *)
Placed(asset, c) ==
    /\ UnderRoot(c, asset) /\ \E root \in file.roots : UnderRoot(c, root)
    /\ ~\E x \in file.exclude : Excludes(x, c)

InNetwork(a) == \E root \in file.roots : root.kind = "network" /\ Forms(a) \cap root.net # {}
AddressAdmitted(a) ==
    /\ Class[a] # "never"
    /\ ~\E x \in file.exclude : AddressExcluded(x, a)
    /\ Class[a] = "not_public" => InNetwork(a)

-----------------------------------------------------------------------------
(* First-party evidence and the paths it opens.                            *)

HostRoot(o) ==
    /\ o.port = 0
    /\ \E r \in file.roots : \/ r.kind = "host" /\ r.host = o.host
                             \/ r.kind = "network" /\ o.net # {} /\ o.net \subseteq r.net
UrlRoot(o) == \E r \in file.roots : r.kind = "url" /\ SameOrigin(r, o)

(* A declared url adds its path where a url root contains it, confirmed or *)
(* not; a current confirmation counts for its own origin, or, of a name or *)
(* an address, for the default ports.                                      *)
Contained(u) == \E r \in file.roots : r.kind = "url" /\ Under(u, r)
Confirms(c, o) ==
    /\ c.current /\ ~(c.ref.kind = "url" /\ SameOrigin(c.ref, o) /\ Contained(c.ref))
    /\ \/ c.ref.kind = "url" /\ SameOrigin(c.ref, o)
       \/ c.ref.kind \in {"domain", "host"} /\ o.port = 0 /\ c.ref.host = o.host
Confirming(o) == {i \in DOMAIN file.confirmed : Confirms(file.confirmed[i], o)}
Confirmations(o) == {file.confirmed[i] : i \in Confirming(o)}

(* evidence: a root first, then the first confirmation, unless suspended.  *)
FileEvidence(o) ==
    IF UrlRoot(o) \/ HostRoot(o) THEN "root"
    ELSE IF Confirmations(o) # {} /\ o.host \notin suspended THEN "operator" ELSE "none"

Entries(o) ==
    LET written == file.declared \cup {c.ref : c \in ToSet(file.confirmed)}
        mine == {u \in file.roots : u.kind = "url" /\ SameOrigin(u, o)}
                \cup {u \in written : u.kind = "url" /\ SameOrigin(u, o) /\ Contained(u)}
                \cup {u \in {c.ref : c \in Confirmations(o)} : u.kind = "url"}
    IN  {u.path : u \in mine}

FrontPage(o) ==
    /\ o.port = 0
    /\ \E r \in file.roots : \/ r.kind = "domain" /\ DomainUnder(o.host, r.host)
                             \/ r.kind = "network" /\ o.net # {} /\ o.net \subseteq r.net
                             \/ r.kind = "host" /\ r.host = o.host

Site(o) ==
    LET ev == FileEvidence(o)
        more == WellKnown \cup (IF ev = "none" THEN {} ELSE Entries(o)) \cup {u.path : u \in {i \in file.intent : SameOrigin(i, o)}}
        none == ~FrontPage(o) /\ ev = "none"
    IN  [paths     |-> IF none THEN {} ELSE (IF FrontPage(o) THEN {Slash} ELSE {}) \cup (IF ev = "root" THEN more ELSE {}),
         confirmed |-> IF ev = "operator" THEN more ELSE {},
         network   |-> IF ~none /\ ev # "root" /\ \E r \in file.roots : r.kind = "network" THEN more ELSE {}]

(* Where a name points: the chain's first name outside every root, else    *)
(* its addresses.                                                          *)
Target(l) ==
    LET out == SelectSeq(l.chain, LAMBDA n : ~\E r \in file.roots : r.kind = "domain" /\ DomainUnder(n, r.host))
    IN  IF out # <<>> THEN [name |-> Head(out), addrs |-> {}] ELSE [name |-> "", addrs |-> l.addrs]

EvidenceAtTarget(o, l) == file.confirmed[Min(Confirming(o))].target = Target(l)
ResolvedEvidenceUnmoved(confirmed, o, l) == confirmed \/ (l.addrs # {} /\ \A a \in l.addrs : InNetwork(a))
ResolvedEvidence(confirmed, o, l) ==
    (confirmed /\ EvidenceAtTarget(o, l)) \/ (l.addrs # {} /\ \A a \in l.addrs : InNetwork(a))

(* Admits, before the name is resolved and after.                          *)
AdmitsUnresolved(o) ==
    LET s == Site(o)
    IN  IF o.path \in s.paths THEN "yes" ELSE IF o.path \in s.network \cup s.confirmed THEN "resolve" ELSE "entry_point"
AdmitsResolved(o, l) ==
    LET s == Site(o)
    IN  IF o.path \in s.paths THEN "yes"
        ELSE IF o.path \notin s.network \cup s.confirmed THEN "entry_point"
        ELSE IF ResolvedEvidence(o.path \in s.confirmed, o, l) THEN "yes" ELSE "address_moved"

-----------------------------------------------------------------------------
Unresolved == [chain |-> <<>>, addrs |-> {}]

ScopeInit ==
    /\ file \in Files /\ ask \in Asks
    /\ asked = "subject" /\ found = Unresolved /\ suspended = {} /\ granted = "no"

AdmitSubject ==
    /\ asked = "subject"
    /\ asked' = IF Placed(ask.asset, ask.url) THEN "path" ELSE "refused"
    /\ UNCHANGED <<file, ask, found, suspended, granted>>

AdmitPath ==
    /\ asked = "path"
    /\ granted' = AdmitsUnresolved(ask.url)
    /\ asked' = IF granted' = "entry_point" THEN "refused" ELSE "lookup"
    /\ UNCHANGED <<file, ask, found, suspended>>

(* A literal is its own answer; a name whose chain enters an exclude, or   *)
(* one of whose addresses is not admitted, goes no further.                *)
Looked(l) ==
    /\ ~\E x \in file.exclude, n \in ToSet(l.chain) \cup {ask.url.host} : ExcludesName(x, n)
    /\ l.addrs # {} /\ \A a \in l.addrs : AddressAdmitted(a)
LookName ==
    /\ asked = "lookup"
    /\ \E l \in IF ask.url.net # {} THEN {[chain |-> <<>>, addrs |-> ask.url.net]} ELSE Lookups :
          found' = l /\ asked' = IF Looked(l) THEN "answered" ELSE "refused"
    /\ UNCHANGED <<file, ask, suspended, granted>>

AdmitAddresses ==
    /\ asked = "answered"
    /\ asked' = IF granted = "yes" \/ AdmitsResolved(ask.url, found) = "yes" THEN "sent" ELSE "refused"
    /\ UNCHANGED <<file, ask, found, suspended, granted>>

(* suspendConfirmations, from a page another request read.                 *)
Suspend ==
    /\ asked \in {"path", "lookup", "answered"} /\ ask.url.host \notin suspended
    /\ suspended' = suspended \cup {ask.url.host}
    /\ UNCHANGED <<file, ask, asked, found, granted>>

ScopeNext == AdmitSubject \/ AdmitPath \/ LookName \/ AdmitAddresses \/ Suspend

-----------------------------------------------------------------------------
(* Exclude always wins, however the place is spelled: nothing is sent to a *)
(* name, through a chain, to a machine or under a path that an exclude     *)
(* names over either scheme, in either address family, with or without a   *)
(* closing slash (locator.go Excludes, excludesName, addressExcluded).     *)
Machines(S) == {Carries[a] : a \in S}
ExcludeWins ==
    asked = "sent" =>
        LET u == ask.url
            names == ToSet(found.chain) \cup {u.host}
        IN  \A x \in file.exclude :
              CASE x.kind = "domain"  -> \A n \in names : ~DomainUnder(n, x.host)
                [] x.kind = "network" -> Machines(found.addrs) \cap Machines(x.net) = {}
                [] x.kind = "host"    -> x.host \notin names /\ Machines(found.addrs) \cap Machines(x.net) = {}
                [] x.kind = "url"     -> ~(x.host = u.host /\ (x.port = u.port \/ UrlPort(x) = UrlPort(u)) /\ IsPrefix(x.path.segs, u.path.segs))

(* Beyond the front page of a name under a domain root, a read rests on    *)
(* evidence that held for the answer dialled: a root on the origin, a      *)
(* confirmation nobody suspended before its last check whose target the    *)
(* name points at, or a network root around every address (scope.go        *)
(* Admits, site, resolvedEvidence).                                        *)
EvidenceHeld ==
    [][asked' = "sent" /\ ~(ask.url.path = Slash /\ FrontPage(ask.url)) =>
          \/ UrlRoot(ask.url) \/ HostRoot(ask.url)
          \/ \A a \in found.addrs : InNetwork(a)
          \/ /\ ask.url.host \notin suspended
             /\ \E c \in ToSet(file.confirmed) : Confirms(c, ask.url) /\ c.target = Target(found)]_scopeVars
=============================================================================
