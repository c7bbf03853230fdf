------------------------------ MODULE WebRules ------------------------------
(***************************************************************************)
(* The name, takeover, TLS and page rules of the web collector             *)
(* (collector/web: rules.go, takeover.go, http_rules.go, tls_rules.go,     *)
(* restricted.go, pages.go): what they say of one name and its site when   *)
(* any of the reads may have been lost, cut or redacted.                   *)
(*                                                                         *)
(* A judgment is [id, on, verdict]; pages are numbered in the order read,  *)
(* the https front page first and the http one second.                     *)
(***************************************************************************)
EXTENDS Naturals, Sequences, SequencesExt, FiniteSets

CONSTANTS
    Sites,       \* what a name publishes and its site answers
    WebLosses    \* what may happen to the reads: [lookup, target, doubt, pages]

(* The types of what is read, and of its pages: the https front page is    *)
(* the first; a URL is read once of its own; and of the pages security.txt *)
(* leads to all but one are redirects.                                     *)
PageFacts == [n : STRING, scheme : {"https", "http"}, path : STRING, from : STRING, decision : {"sent", "refused", "timeout"},
          status : Nat, blocked : BOOLEAN, cut : BOOLEAN, marked : BOOLEAN, tls : STRING, expires : STRING, hsts : BOOLEAN,
          headers : STRING, cookie : BOOLEAN, banner : BOOLEAN, secret : STRING, html : BOOLEAN, body : BOOLEAN,
          location : STRING, marker : BOOLEAN, txt : STRING]
NameFacts == [status : STRING, chain : SUBSET STRING, addrs : SUBSET STRING, provider : BOOLEAN, httpOnly : BOOLEAN, byNX : BOOLEAN]
TargetFacts == [name : STRING \ {"name"}, type : STRING, via : STRING, status : STRING]
OfTxt(p) == p.scheme = "https" /\ (p.path = "txt" \/ p.from = "txt")
ASSUME WebAssumption ==
    \A s \in Sites :
        /\ s.name \in NameFacts /\ \A t \in s.targets : t \in TargetFacts
        /\ s.pages \in Seq(PageFacts) /\ 1 \in DOMAIN s.pages /\ s.pages[1].scheme = "https"
        /\ \A i, k \in DOMAIN s.pages : i # k =>
              /\ \/ s.pages[i].n # s.restricted \/ s.pages[i].from # "none"
                 \/ s.pages[k].n # s.restricted \/ s.pages[k].from # "none"
              /\ (OfTxt(s.pages[i]) /\ OfTxt(s.pages[k])) => \E x \in {i, k} : s.pages[x].status \in 300..399

VARIABLES
    site,     \* what is there
    web       \* the evidence read, and what the rules are run on
webVars == <<site, web>>

J(id, on, v) == [id |-> id, on |-> on, verdict |-> v]
Fire(test, v) == IF test THEN "fired" ELSE v

-----------------------------------------------------------------------------
(* add: one verdict per id and subject, fired over abstained over          *)
(* disproved; a resolver in doubt leaves every DNS rule undecided.         *)
DnsRules == {"dangling", "private", "takeover"}
Strongest(verdicts) == CHOOSE v \in verdicts :
    /\ v = "disproved" => verdicts = {"disproved"}
    /\ v = "abstained" => "fired" \notin verdicts
Add(js, doubt) ==
    LET said == {J(j.id, j.on, IF doubt /\ j.id \in DnsRules THEN "abstained" ELSE j.verdict) : j \in js}
    IN  {J(k[1], k[2], Strongest({j.verdict : j \in {x \in said : <<x.id, x.on>> = k}})) : k \in {<<x.id, x.on>> : x \in said}}

(* name and records.  A name's status is what its lookup said: "resolves", *)
(* "nxdomain", "nodata", "lost" or "excluded".                             *)
Dangling(n) == IF n.chain = {} \/ n.status = "excluded" THEN {}
               ELSE {J("dangling", "name", CASE n.status = "lost" -> "abstained"
                                             [] n.status = "resolves" -> "disproved"
                                             [] OTHER -> "fired")}
UnknownName(n) == IF n.status = "lost" THEN {J(id, "name", "abstained") : id \in {"dangling", "takeover"}} ELSE {}
PrivateAddress(n) ==
    CASE n.status = "lost" -> {J("private", "name", "abstained")}
      [] n.status = "resolves" /\ n.addrs # {} -> {J("private", "name", IF "public" \in n.addrs THEN "disproved" ELSE "fired")}
      [] OTHER -> {}
Records(targets, complete) ==
    (IF complete THEN {} ELSE {J("dangling", "owner", "abstained")})
    \cup {J("dangling", t.name, CASE t.status = "lost" -> "abstained"
                                  [] t.status = "nxdomain" \/ (t.status = "nodata" /\ t.type # "TXT") -> "fired"
                                  [] OTHER -> "disproved") :
            t \in {x \in targets : x.status # "excluded" /\ x.via # "redirect"}}

-----------------------------------------------------------------------------
(* pageReason: a page rules may read.  A page is unread when its request   *)
(* was refused, failed, blocked by a firewall page or rate limited, when   *)
(* its certificate did not verify, or when its status is not 2xx or 3xx.   *)
Answers(p) == p.decision = "sent" /\ p.status # 429 /\ p.status < 500
Verified(p) == p.scheme = "http" \/ p.tls = "verified"
Readable(p) == ~p.blocked /\ Answers(p) /\ Verified(p) /\ p.status \in 200..399
Files == {"robots", "txt"}
IsEntry(p) == p.path \notin Files
Clean(p) == ~p.cut /\ ~p.marked

(* takeover and providerPages: at a fingerprinted provider, the NXDOMAIN   *)
(* evidence or an error page with its marker fires, a served page without  *)
(* it disproves; an https page says nothing of a provider known over http. *)
TakeoverVerdict(n, ps) ==
    LET fronts == {p \in {ps[i] : i \in DOMAIN ps \cap {1, 2}} : Answers(p) /\ ~(n.httpOnly /\ p.scheme = "https")} IN
    IF n.byNX /\ n.status = "nxdomain" THEN "fired"
    ELSE IF n.status \in {"lost", "nodata", "nxdomain"} THEN "abstained"
    ELSE IF \E p \in fronts : p.status = 404 /\ p.marker THEN "fired"
    ELSE IF \E p \in fronts : p.status \in 200..399 /\ ~p.marker /\ Clean(p) THEN "disproved"
    ELSE "abstained"
Takeover(n, ps) == IF n.provider /\ n.status # "excluded" THEN {J("takeover", "name", TakeoverVerdict(n, ps))} ELSE {}
Taken(n, ps, doubt) == ~doubt /\ J("takeover", "name", "fired") \in Takeover(n, ps)
NameRules(n, ps, doubt) ==
    Takeover(n, ps) \cup PrivateAddress(n)
    \cup (IF n.provider THEN {} ELSE UnknownName(n))
    \cup (IF n.status = "lost" THEN {J("dangling", "name", "abstained")}
          ELSE IF Taken(n, ps, doubt) THEN {} ELSE Dangling(n))

-----------------------------------------------------------------------------
(* tls: the first https page's connection, unless the name may be taken    *)
(* over or the connection was inspected on the way.                        *)
FirstHttps(ps) == ps[CHOOSE i \in DOMAIN ps : ps[i].scheme = "https" /\ \A k \in 1 .. (i - 1) : ps[k].scheme # "https"]
TlsRules(ps, taken) ==
    LET p == FirstHttps(ps)
        unread == p.blocked \/ taken \/ p.tls \in {"none", "inspected"}
        legacy == IF unread THEN "abstained" ELSE IF p.tls = "old" THEN "fired" ELSE "disproved"
        invalid == IF unread \/ p.tls = "old" THEN "abstained" ELSE IF p.tls = "verified" THEN "disproved" ELSE "fired"
        expiring == IF unread \/ p.tls # "verified" \/ p.expires = "unknown" THEN "abstained"
                    ELSE IF p.expires = "soon" THEN "fired" ELSE "disproved"
    IN  {J("tls.legacy", "name", legacy), J("tls.invalid", "name", invalid), J("tls.expiring", "name", expiring)}

(* The rules of an origin, over its pages: those of a declared site, and   *)
(* those whose response says they were admitted on first-party evidence.   *)
Judged(s, p) == s.declared \/ (p.decision = "sent" /\ s.firstParty)
Of(ps, scheme) == {p \in ps : p.scheme = scheme}
Entries(ps) == {p \in ps : IsEntry(p)}
HstsDisproved(es) == \E p \in es : Readable(p) /\ ~p.marked /\ p.hsts
HstsFiresOnRead(es) == \E p \in es : Readable(p)
HstsFires(es) == es # {} /\ \A p \in es : Readable(p) /\ ~p.marked
Hsts(ps) == LET es == Entries(ps) IN
    J("hsts", "https", IF HstsDisproved(es) THEN "disproved" ELSE Fire(HstsFires(es), "abstained"))
HeadersKnown(es) == es # {} /\ \A p \in es : Readable(p) /\ ~p.marked /\ p.headers # "odd"
SecurityHeaders(o, ps) == LET es == Entries(ps) IN
    J("headers", o, IF ~HeadersKnown(es) THEN "abstained" ELSE Fire(\E p \in es : p.headers = "missing", "disproved"))
Cookies(o, ps) == J("cookies", o, Fire(\E p \in ps : Readable(p) /\ ~p.marked /\ p.cookie, "abstained"))
PlainPage(p) ==
    IF p.decision = "timeout" THEN "disproved"
    ELSE IF ~Readable(p) THEN "abstained"
    ELSE IF p.status \in 300..399 /\ p.location = "https" THEN "disproved"
    ELSE IF (p.status \in 300..399 /\ p.location = "http") \/ (p.status \in 200..299 /\ p.body) THEN "fired"
    ELSE "abstained"
PlainHTTP(ps) == IF ps = {} THEN {J("plain", "http", "abstained")}
                 ELSE {J("plain", "http", PlainPage(p)) : p \in Entries(ps)}

(* securityTXT: the file's own page and what it redirected to, the last    *)
(* page that settles anything deciding.                                    *)
Latest(at) == CHOOSE i \in at : \A k \in at : k <= i
TxtPage(p) ==
    IF ~p.blocked /\ p.decision = "sent" /\ p.status = 404 /\ p.tls = "verified" THEN "fired"
    ELSE IF ~Readable(p) \/ p.status >= 300 \/ ~Clean(p) \/ p.txt = "bad" THEN "nothing"
    ELSE IF p.txt \in {"none", "expired"} THEN "fired" ELSE "disproved"
TxtPages(s, ps) == {i \in DOMAIN ps : Judged(s, ps[i]) /\ OfTxt(ps[i]) /\ TxtPage(ps[i]) # "nothing"}
SecurityTXT(s, ps) ==
    LET at == TxtPages(s, ps)
    IN  J("txt", "https", IF at = {} THEN "abstained" ELSE TxtPage(ps[Latest(at)]))

(* version and secrets: each page by itself, on every site.                *)
OnPage(p, shown) == IF ~Readable(p) THEN "abstained" ELSE IF shown THEN "fired"
                    ELSE IF p.html /\ Clean(p) THEN "disproved" ELSE "abstained"
Version(p) == J("version", p.n, OnPage(p, p.banner /\ ~p.marked))
Secrets(p) == J("secret", p.n, OnPage(p, p.secret # "none"))

(* sites: every rule over one site's pages.                                *)
SiteRules(s, ps, taken) ==
    LET mine == {p \in ToSet(ps) : Judged(s, p)}
    IN  TlsRules(ps, taken)
        \cup {Version(p) : p \in {q \in ToSet(ps) : IsEntry(q)}} \cup {Secrets(p) : p \in ToSet(ps)}
        \cup (IF mine = {} THEN {} ELSE PlainHTTP(Of(mine, "http")) \cup {Hsts(Of(mine, "https")), SecurityTXT(s, ps)})
        \cup (UNION {{SecurityHeaders(o, Of(mine, o)), Cookies(o, Of(mine, o))} : o \in {p.scheme : p \in mine}})

(* restricted: a URL declared restricted, judged on the answers to its own *)
(* request and not on what redirected to it, again the last that settles.  *)
RestrictedPage(p) ==
    IF p.decision = "timeout" THEN "disproved"
    ELSE IF p.decision = "sent" /\ ~p.blocked /\ Verified(p) /\ (p.status \in 200..299 \cup {401} \/ (p.status \in 300..399 /\ p.location = "login")) THEN "fired"
    ELSE "nothing"
RestrictedPages(s, ps) == {i \in DOMAIN ps : ps[i].n = s.restricted /\ ps[i].from = "none" /\ RestrictedPage(ps[i]) # "nothing"}
Restricted(s, ps) ==
    LET at == RestrictedPages(s, ps)
        v == IF s.vantage # "internet" \/ at = {} THEN "abstained" ELSE RestrictedPage(ps[Latest(at)])
    IN  IF s.restricted = "no" THEN {} ELSE {J("restricted", s.restricted, v)}

Judge(s, e) ==
    LET taken == Taken(e.name, e.pages, e.doubt)
    IN  Add((IF e.listed THEN {} ELSE {J(id, "unlisted", "abstained") : id \in DnsRules})
            \cup NameRules(e.name, e.pages, e.doubt) \cup Records(e.targets, e.complete)
            \cup SiteRules(s, e.pages, taken) \cup Restricted(s, e.pages), e.doubt)

-----------------------------------------------------------------------------
(* Collect and Enrich, as one step: what the reads return, each of which   *)
(* may be refused, time out, be limited, blocked, cut, redacted or         *)
(* inspected.                                                              *)
SeenPage(p, how) ==
    CASE how \in {"refused", "timeout"} -> [p EXCEPT !.decision = how, !.status = 0, !.tls = "none"]
      [] how = "limited" -> [p EXCEPT !.status = 429]
      [] how = "waf" -> [p EXCEPT !.status = 403, !.blocked = TRUE, !.marker = FALSE]
      [] how = "cut" -> [p EXCEPT !.cut = TRUE, !.marker = FALSE, !.secret = IF @ = "late" THEN "none" ELSE @]
      [] how = "marked" -> [p EXCEPT !.marked = TRUE]
      [] how = "inspected" -> IF p.scheme = "https" THEN [p EXCEPT !.tls = "inspected"] ELSE p
      [] OTHER -> p
Evidence(s, l) ==
    [name |-> IF l.lookup THEN [s.name EXCEPT !.status = "lost"] ELSE s.name,
     targets |-> {IF t.name \in l.targets THEN [t EXCEPT !.status = "lost"] ELSE t : t \in IF "owner" \in l.targets THEN {} ELSE s.targets},
     complete |-> "owner" \notin l.targets, listed |-> "ct" \notin l.targets, doubt |-> l.doubt,
     pages |-> [i \in DOMAIN s.pages |-> SeenPage(s.pages[i], IF i \in DOMAIN l.pages THEN l.pages[i] ELSE "ok")]]
Intact == [lookup |-> FALSE, targets |-> {}, doubt |-> FALSE, pages |-> <<>>]
WebInit == site \in Sites /\ web = [read |-> FALSE]
WebNext == ~web.read /\ \E l \in WebLosses : web' = [read |-> TRUE, lost |-> l, evidence |-> Evidence(site, l)] /\ UNCHANGED site

-----------------------------------------------------------------------------
(* What the property sets aside: a page that timed out, and a front page   *)
(* that was not seen whole.                                                *)
TimedOut(ps) == "timeout" \in {ps[i].decision : i \in DOMAIN ps}
FrontLost(ps) == \E i \in DOMAIN ps \cap {1, 2} : ~Answers(ps[i]) \/ ps[i].blocked \/ ps[i].cut

(* Nothing unread counts as nothing found (docs/spec/web-collector.md,     *)
(* "Name rules"): whatever reads were lost, cut, redacted or inspected, a  *)
(* rule that is disproved, or that fires because something was missing,    *)
(* says what it would say of the whole evidence, for every declared site.  *)
(* A timed-out page is an answer to the two rules that take it for one,    *)
(* and one front page without its marker is enough to disprove a takeover. *)
WebLossSafe ==
    (web.read /\ site.declared) =>
        LET part == Judge(site, web.evidence)
            whole == Judge(site, Evidence(site, Intact))
        IN  \A j \in part, k \in whole :
                (j.id = k.id /\ j.on = k.on /\ {j.verdict, k.verdict} = {"fired", "disproved"}) =>
                    /\ j.verdict = "disproved"
                    /\ \/ j.id \in {"plain", "restricted"} /\ TimedOut(web.evidence.pages)
                       \/ j.id = "takeover" /\ FrontLost(web.evidence.pages)
=============================================================================
