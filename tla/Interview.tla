----------------------------- MODULE Interview -----------------------------
(***************************************************************************)
(* scheck init: the interview (engagement/interview.go,                    *)
(* interview_matters.go) asks what a file does not answer, applies each    *)
(* answer to the file, takes a refused answer back and asks again, and     *)
(* writes the file only when the whole of it validates                     *)
(* (cmd/scheck/init.go, engagement/validate.go).                           *)
(*                                                                         *)
(* An answer typed is a sequence of entries.  Some questions read a line   *)
(* at a time, and a line that does not parse refuses the answer: an entry  *)
(* is then a block, or Malformed.  The others read paragraphs: an entry is *)
(* a sequence of lines [field, value], and BlocksOf makes a block of it as *)
(* the parser does, silently: a line it finds no field in ("", no colon)   *)
(* and a field it does not know are passed over, and the last line of a    *)
(* field counts.  A place is a locator; Over[p] holds the places p equals  *)
(* or falls under.  Wording, comment lines, defaults, and settings one     *)
(* assignment checks (dates, jump hosts, mail services) are left out.      *)
(***************************************************************************)
EXTENDS Naturals, FiniteSets, SequencesExt

CONSTANTS
    PlaceKind,   \* place -> domain, url, host, repo, workspace, github or cloud
    Over,        \* place -> places
    Malformed,   \* what the value of a line that does not parse is
    Interviews   \* [found, replies, terminal]: the file found, question -> answers typed

VARIABLES
    talk,      \* the interview held
    draft,     \* the file in memory
    disk,      \* the file on disk
    at,        \* the index of the question, 0 once init returned
    accepted,  \* history: the blocks of accepted answers, in order: [q, b]
    typed      \* history: the accepted answers as typed, in order: [q, t]

interviewVars == <<talk, draft, disk, at, accepted, typed>>

HeadQuestions == {"trigger", "name", "operator", "timezone"}
Questions ==
    <<"trigger", "name", "operator", "timezone", "roots", "exclude", "mail", "people", "left", "admins", "deploys",
      "mfa", "mfa_sign_in", "exposed", "restricted", "reach", "context", "matters_most", "not_used">>

None == "none"
Places == DOMAIN PlaceKind
NoAsset == [host |-> None, repo |-> None, deploys |-> None, exposure |-> None, ports |-> {}]
AssetOf(f, n) == IF n \in DOMAIN f.assets THEN f.assets[n] ELSE NoAsset
Put(g, k, v) == [x \in DOMAIN g \cup {k} |-> IF x = k THEN v ELSE g[x]]

DeployTargets == {"production", "staging", "development"}
Exposures == {"internet", "vpn", "lan", "airgapped"}
SignIns == {"google", "another_provider", "unknown"}

(* The blocks a question's fields make, and the files the interview edits. *)
Blocks(q) ==
    CASE q \in HeadQuestions             -> [v : STRING]
      [] q \in {"roots", "exclude"}      -> [place : Places]
      [] q = "mail"                      -> [sends : BOOLEAN, domain : Places]
      [] q = "people"                    -> [handle : STRING, kind : STRING, usedBy : SUBSET STRING, workspace : STRING, github : STRING]
      [] q = "left"                      -> [handle : STRING]
      [] q = "admins"                    -> [where : Places, handles : SUBSET STRING]
      [] q = "deploys"                   -> [name : STRING, repo : Places, to : DeployTargets]
      [] q = "mfa"                       -> [where : Places, enforced : STRING]
      [] q = "mfa_sign_in"               -> [where : Places, signIn : SignIns]
      [] q \in {"exposed", "restricted"} -> [url : Places]
      [] q = "reach"                     -> [name : STRING, host : Places]
      [] q = "context"                   -> [name : STRING, exposure : Exposures \cup {None}, ports : SUBSET Nat]
      [] q = "matters_most"              -> [new : {FALSE}, asset : STRING] \cup [new : {TRUE}, asset : STRING, repo : Places]
      [] OTHER                           -> [area : STRING]

(* blocksOf and servicesOf: the block of a paragraph p.                    *)
BlockFields ==
    [people |-> {"handle", "kind", "usedBy", "workspace", "github"}, left |-> {"handle"}, admins |-> {"where", "handles"},
     deploys |-> {"name", "repo", "to"}, mfa |-> {"where", "enforced"}, mfa_sign_in |-> {"where", "signIn"},
     exposed |-> {"url"}, restricted |-> {"url"}, reach |-> {"name", "host"}, context |-> {"name", "exposure", "ports"}]
Optional == [usedBy |-> {}, handles |-> {}, workspace |-> None, github |-> None, exposure |-> None]
LinesOf(p, k) == {i \in DOMAIN p : p[i].field = k}
HasField(p) == \E i \in DOMAIN p : p[i].field # ""
LastSaid(p, k) ==
    IF LinesOf(p, k) # {} THEN p[CHOOSE i \in LinesOf(p, k) : \A j \in LinesOf(p, k) : j <= i].value
    ELSE IF k \in DOMAIN Optional THEN Optional[k] ELSE Malformed
PortsSaid(p) ==
    IF \E i, j \in LinesOf(p, "ports") : i # j /\ p[i].value = p[j].value THEN {Malformed} ELSE {p[i].value : i \in LinesOf(p, "ports")}
BlockOf(q, p) == [k \in BlockFields[q] |-> IF k = "ports" THEN PortsSaid(p) ELSE LastSaid(p, k)]
BlocksOf(q, t) == IF q \in DOMAIN BlockFields THEN [i \in DOMAIN t |-> BlockOf(q, t[i])] ELSE t

Persons == [kind : STRING, usedBy : SUBSET STRING, ids : SUBSET ({"workspace", "github"} \X STRING), left : BOOLEAN]
Assets == [host : Places \cup {None}, repo : Places \cup {None}, deploys : DeployTargets \cup {None}, exposure : Exposures \cup {None}, ports : SUBSET Nat]
MFAEntries == [where : Places, enforced : STRING, signIn : SignIns \cup {None}]
IsFile(f) ==
    /\ DOMAIN f = {"head", "roots", "exclude", "senders", "noMail", "people", "admins", "assets", "mfa", "exposed", "restricted", "matters", "notUsed"}
    /\ f.roots \in Seq(Places) /\ f.notUsed \in Seq(STRING)
    /\ f.mfa \in Seq(MFAEntries)
    /\ \A h \in DOMAIN f.people : f.people[h] \in Persons
    /\ \A n \in DOMAIN f.assets : f.assets[n] \in Assets

(* To blocksOf a paragraph of no field is a blank line, so none is typed   *)
(* beside another.                                                         *)
ASSUME InterviewAssumption ==
    /\ None \notin Places /\ \A p \in Places : p \in Over[p] /\ Over[p] \subseteq Places
    /\ Malformed \notin Nat
    /\ \A t \in Interviews :
          /\ IsFile(t.found)
          /\ \A q \in ToSet(Questions) : \A a \in t.replies[q] :
                /\ a \in Seq(ToSet(a))
                /\ q \in DOMAIN BlockFields => \A i \in DOMAIN a : a[i] \in Seq(ToSet(a[i])) /\ (HasField(a[i]) \/ Len(a) = 1)

RootsOf(f, kinds) == {p \in ToSet(f.roots) : PlaceKind[p] \in kinds}
SaaS == {"workspace", "github"}
HostAssets(f) == {n \in DOMAIN f.assets : f.assets[n].host # None}
RepoAssets(f) == {n \in DOMAIN f.assets : f.assets[n].repo # None}
ExcludedPlace(f, p) == f.exclude \cap Over[p] # {}

(* signInOffers: entries of access.mfa whose answer a sign-in changes.     *)
SignInOffers(f) ==
    {i \in DOMAIN f.mfa : PlaceKind[f.mfa[i].where] = "workspace" /\ f.mfa[i].enforced \in {"everyone", "some"} /\ f.mfa[i].signIn = None}

(* offers: declared places of the kinds that hold data, under the name of  *)
(* their assets entry when they have one.                                  *)
PlaceOf(a) == IF a.host # None THEN a.host ELSE a.repo
Offers(f) ==
    LET named(p) == {n \in DOMAIN f.assets : {f.assets[n].host, f.assets[n].repo} = {p, None}}
        declared == ToSet(f.roots) \cup {PlaceOf(f.assets[n]) : n \in DOMAIN f.assets}
        held == {p \in declared : PlaceKind[p] # "domain" /\ ~ExcludedPlace(f, p)}
    IN  {IF named(p) = {} THEN p ELSE CHOOSE n \in named(p) : TRUE : p \in held}

-----------------------------------------------------------------------------
IsAnswered(f, q) ==
    CASE q \in HeadQuestions  -> q \in f.head
      [] q = "roots"          -> f.roots # <<>>
      [] q = "exclude"        -> f.exclude # {}
      [] q = "mail"           -> RootsOf(f, {"domain"}) = {} \/ f.senders \cup f.noMail # {}
      [] q = "people"         -> DOMAIN f.people # {}
      [] q = "left"           -> DOMAIN f.people = {} \/ \E h \in DOMAIN f.people : f.people[h].left
      [] q = "admins"         -> RootsOf(f, SaaS) = {} \/ DOMAIN f.admins # {}
      [] q = "deploys"        -> \/ RootsOf(f, {"github", "repo"}) = {} /\ RepoAssets(f) = {}
                                 \/ \E n \in DOMAIN f.assets : f.assets[n].deploys # None
      [] q = "mfa"            -> RootsOf(f, SaaS) = {} \/ f.mfa # <<>>
      [] q = "mfa_sign_in"    -> SignInOffers(f) = {}
      [] q = "exposed"        -> f.exposed # {}
      [] q = "restricted"     -> f.restricted # {}
      [] q = "reach"          -> /\ RootsOf(f, {"host"}) # {} \/ HostAssets(f) # {}
                                 /\ \A p \in RootsOf(f, {"host"}) : \E n \in HostAssets(f) : f.assets[n].host = p
      [] q = "context"        -> \A n \in HostAssets(f) : f.assets[n].exposure # None \/ f.assets[n].ports # {}
      [] q = "matters_most"   -> f.matters # {} \/ Offers(f) = {}
      [] OTHER                -> f.notUsed # <<>>

(* notUsedRefusal and rootFeeds.                                           *)
Feeds(area, p) ==
    PlaceKind[p] \in CASE area = "email" -> {"domain"} [] area \in {"web", "external"} -> {"domain", "url"}
                       [] area = "cicd" -> {"repo", "github"} [] area = "hosts" -> {"host"}
                       [] area \in {"cloud", "data"} -> {"cloud"} [] OTHER -> {}
InternetHosts(f) == {n \in HostAssets(f) : f.assets[n].exposure = "internet"}
MayBeUnused(f, area) ==
    /\ area \notin {"identity", "secrets", "logging"} /\ \A p \in ToSet(f.roots) : ~Feeds(area, p)
    /\ area = "cicd" => RepoAssets(f) = {}
    /\ area = "hosts" => HostAssets(f) = {}
    /\ area = "external" => InternetHosts(f) = {}

-----------------------------------------------------------------------------
(* The apply functions, of one block: what it needs of the file f the      *)
(* blocks before it made (base is the file the question was asked of), and *)
(* what it writes.                                                         *)
TakesPerson(f, b) == b.handle \notin DOMAIN f.people /\ (b.kind = "shared" <=> b.usedBy # {})
TakesContext(f, b) ==
    /\ b.name \in HostAssets(f) /\ b.ports \cap f.assets[b.name].ports = {}
    /\ ~(b.exposure = "internet" /\ Contains(f.notUsed, "external"))
TakesRepo(f, b) ==
    /\ b.repo \notin Offers(f) /\ {n \in RepoAssets(f) : f.assets[n].repo = b.repo} = {}
    /\ Over[b.repo] \cap RootsOf(f, {"github"}) # {} /\ ~ExcludedPlace(f, b.repo)
    /\ b.asset \notin DOMAIN f.assets \cup ToSet(f.roots)
TakesMatter(base, f, b) == IF b.new THEN TakesRepo(f, b) ELSE b.asset \in Offers(base) \ f.matters
Takes(base, f, q, b) ==
    CASE q = "people"       -> TakesPerson(f, b)
      [] q = "left"         -> b.handle \in DOMAIN f.people
      [] q = "admins"       -> b.handles # {} /\ b.handles \subseteq DOMAIN f.people
      [] q = "mfa_sign_in"  -> \E i \in SignInOffers(base) : f.mfa[i].where = b.where
      [] q = "context"      -> TakesContext(f, b)
      [] q = "matters_most" -> TakesMatter(base, f, b)
      [] q = "not_used"     -> MayBeUnused(f, b.area)
      [] OTHER              -> TRUE

WithMail(f, b) == IF b.sends THEN [f EXCEPT !.senders = @ \cup {b.domain}] ELSE [f EXCEPT !.noMail = @ \cup {b.domain}]
IdsOf(b) == {<<k, b[k]>> : k \in {l \in {"workspace", "github"} : b[l] # None}}
WithPerson(f, b) == [f EXCEPT !.people = Put(@, b.handle, [kind |-> b.kind, usedBy |-> b.usedBy, ids |-> IdsOf(b), left |-> FALSE])]
WithDeploys(f, b) == [f EXCEPT !.assets = Put(@, b.name, [AssetOf(f, b.name) EXCEPT !.repo = b.repo, !.deploys = b.to])]
WithMFA(f, b) == [f EXCEPT !.mfa = Append(@, [where |-> b.where, enforced |-> b.enforced, signIn |-> None])]
WithSignIn(base, f, b) ==
    LET mine == {i \in SignInOffers(base) : f.mfa[i].where = b.where}
        first == CHOOSE i \in mine : \A j \in mine : i <= j
    IN  [f EXCEPT !.mfa[first].signIn = b.signIn]
WithReach(f, b) ==
    [f EXCEPT !.assets = Put(@, b.name, [AssetOf(f, b.name) EXCEPT !.host = b.host]),
              !.roots = IF Contains(@, b.host) THEN @ ELSE Append(@, b.host)]
WithContext(f, b) ==
    [f EXCEPT !.assets = Put(@, b.name, [AssetOf(f, b.name) EXCEPT !.exposure = IF b.exposure = None THEN @ ELSE b.exposure,
                                                                   !.ports = @ \cup b.ports])]
WithMatter(f, b) ==
    [f EXCEPT !.matters = @ \cup {b.asset}, !.assets = IF b.new THEN Put(@, b.asset, [NoAsset EXCEPT !.repo = b.repo]) ELSE @]
With(base, f, q, b) ==
    CASE q \in HeadQuestions  -> [f EXCEPT !.head = @ \cup {q}]
      [] q = "roots"          -> [f EXCEPT !.roots = Append(@, b.place)]
      [] q = "exclude"        -> [f EXCEPT !.exclude = @ \cup {b.place}]
      [] q = "mail"           -> WithMail(f, b)
      [] q = "people"         -> WithPerson(f, b)
      [] q = "left"           -> [f EXCEPT !.people[b.handle].left = TRUE]
      [] q = "admins"         -> [f EXCEPT !.admins = Put(@, b.where, b.handles)]
      [] q = "deploys"        -> WithDeploys(f, b)
      [] q = "mfa"            -> WithMFA(f, b)
      [] q = "mfa_sign_in"    -> WithSignIn(base, f, b)
      [] q = "exposed"        -> [f EXCEPT !.exposed = @ \cup {b.url}]
      [] q = "restricted"     -> [f EXCEPT !.restricted = @ \cup {b.url}]
      [] q = "reach"          -> WithReach(f, b)
      [] q = "context"        -> WithContext(f, b)
      [] q = "matters_most"   -> WithMatter(f, b)
      [] OTHER                -> [f EXCEPT !.notUsed = Append(@, b.area)]

(* used_by, once every block is in: named people, not logins.              *)
UsersNamed(f) ==
    \A h \in DOMAIN f.people : f.people[h].usedBy \subseteq {u \in DOMAIN f.people : f.people[u].kind \notin {"shared", "service"}}

(* Answer.  A block is refused for a required field missing or malformed,  *)
(* and so is an answer with no field, or shaped like a credential, which a *)
(* paragraph of no field stands for.  A refused answer leaves what its     *)
(* blocks wrote before the one refused, save for the two questions that    *)
(* work on a copy.                                                         *)
Taken(f, q, s, b) ==
    IF s.ok /\ b \in Blocks(q) /\ Takes(f, s.f, q, b) THEN [ok |-> TRUE, f |-> With(f, s.f, q, b)] ELSE [ok |-> FALSE, f |-> s.f]
Applied(f, q, blocks) ==
    LET made[i \in 0 .. Len(blocks)] == IF i = 0 THEN [ok |-> TRUE, f |-> f] ELSE Taken(f, q, made[i - 1], blocks[i])
    IN  made[Len(blocks)]
ApplyAnswer(f, q, blocks) ==
    LET last == Applied(f, q, blocks)
        ok == last.ok /\ (q = "people" => UsersNamed(last.f))
    IN  [ok |-> ok, f |-> IF ~ok /\ q \in {"context", "matters_most"} THEN f ELSE last.f]

-----------------------------------------------------------------------------
(* Parse of the file encoded: the sections of validate the answers reach.  *)
UnderRoots(f, p) == Over[p] \cap ToSet(f.roots) # {}
NoDuplicates(s) == Len(s) = Cardinality(ToSet(s))
ValidRoots(f) ==
    /\ f.roots # <<>> /\ NoDuplicates(f.roots)
    /\ \A x \in f.exclude : UnderRoots(f, x) \/ \E r \in ToSet(f.roots) : x \in Over[r]
    /\ \A r \in ToSet(f.roots) : ~ExcludedPlace(f, r)
ValidPeople(f) ==
    /\ UsersNamed(f)
    /\ \A g, h \in DOMAIN f.people : g # h => f.people[g].ids \cap f.people[h].ids = {}
ValidAssets(f) ==
    /\ \A n \in DOMAIN f.assets :
          LET a == f.assets[n]
          IN  /\ (a.host = None) # (a.repo = None) /\ UnderRoots(f, PlaceOf(a)) /\ ~ExcludedPlace(f, PlaceOf(a))
              /\ a.deploys # None => a.repo # None
              /\ a.exposure # None \/ a.ports # {} => a.host # None
    /\ \A m, n \in DOMAIN f.assets : m # n => PlaceOf(f.assets[m]) # PlaceOf(f.assets[n])
IdsAt(p, where) == {i \in p.ids : i[1] = PlaceKind[where]}
ValidAccess(f) ==
    /\ \A w \in DOMAIN f.admins : w \in RootsOf(f, SaaS) /\ \A h \in f.admins[w] : h \in DOMAIN f.people /\ IdsAt(f.people[h], w) # {}
    /\ \A i \in DOMAIN f.mfa : f.mfa[i].where \in RootsOf(f, SaaS) /\ \A j \in DOMAIN f.mfa : f.mfa[i].where = f.mfa[j].where => i = j
ValidMail(f) ==
    /\ \A d \in f.senders \cup f.noMail : Over[d] \cap RootsOf(f, {"domain"}) # {}
    /\ f.senders \cap f.noMail = {}
ValidIntent(f) == f.exposed \cap f.restricted = {} /\ \A u \in f.exposed \cup f.restricted : UnderRoots(f, u) /\ ~ExcludedPlace(f, u)
ValidUnused(f) == NoDuplicates(f.notUsed) /\ \A a \in ToSet(f.notUsed) : MayBeUnused(f, a)
Parses(f) ==
    /\ {"trigger", "name", "timezone"} \subseteq f.head
    /\ ValidRoots(f) /\ ValidPeople(f) /\ ValidAssets(f) /\ ValidAccess(f) /\ ValidMail(f)
    /\ f.matters \subseteq DOMAIN f.assets \cup ToSet(f.roots)
    /\ ValidIntent(f) /\ ValidUnused(f)

-----------------------------------------------------------------------------
(* loadInit: no file is the empty one; a file that does not parse ends.    *)
InterviewInit ==
    /\ talk \in Interviews
    /\ draft = talk.found /\ disk = talk.found /\ at = 1 /\ accepted = <<>> /\ typed = <<>>

NextQuestion(f, i) ==
    LET open == {j \in i .. Len(Questions) : ~IsAnswered(f, Questions[j])}
    IN  IF open = {} THEN Len(Questions) + 1 ELSE CHOOSE j \in open : \A k \in open : j <= k

SkipAnswered ==
    /\ at \in DOMAIN Questions /\ IsAnswered(draft, Questions[at])
    /\ at' = NextQuestion(draft, at) /\ UNCHANGED <<talk, draft, disk, accepted, typed>>

(* *f = *snap, and the question again on a terminal.                       *)
TakeBackNot(was, made) == made
TakeBack(was, made) == was

AskQuestion ==
    /\ at \in DOMAIN Questions /\ ~IsAnswered(draft, Questions[at])
    /\ \E t \in talk.replies[Questions[at]] \cup {<<>>} :
         LET q == Questions[at]
             blocks == BlocksOf(q, t)
             made == ApplyAnswer(draft, q, blocks)
         IN  /\ draft' = IF made.ok THEN made.f ELSE TakeBack(draft, made.f)
             /\ accepted' = IF made.ok THEN accepted \o [i \in DOMAIN blocks |-> [q |-> q, b |-> blocks[i]]] ELSE accepted
             /\ typed' = IF made.ok THEN Append(typed, [q |-> q, t |-> t]) ELSE typed
             /\ at' = IF made.ok THEN at + 1 ELSE IF talk.terminal THEN at ELSE 0
    /\ UNCHANGED <<talk, disk>>

(* The answer is cut off: init ends and has written nothing.               *)
CutOff == at \in DOMAIN Questions /\ ~IsAnswered(draft, Questions[at]) /\ at' = 0 /\ UNCHANGED <<talk, draft, disk, accepted, typed>>

(* Encode, Parse and writeInit, whose rename may fail.                     *)
WriteFile ==
    /\ at = Len(Questions) + 1 /\ at' = 0
    /\ disk' \in IF Parses(draft) THEN {draft, disk} ELSE {disk}
    /\ UNCHANGED <<talk, draft, accepted, typed>>

InterviewNext == SkipAnswered \/ AskQuestion \/ CutOff \/ WriteFile

-----------------------------------------------------------------------------
(* What a file says, fact by fact, and what a block says of its question.  *)
PersonSays(h, p) == {<<"person", h, [kind |-> p.kind, usedBy |-> p.usedBy, ids |-> p.ids]>>} \cup IF p.left THEN {<<"left", h>>} ELSE {}
AssetSays(n, a) == {<<k, n, a[k]>> : k \in {l \in {"host", "repo", "deploys", "exposure"} : a[l] # None}} \cup {<<"port", n, p>> : p \in a.ports}
EntrySays(e) == {<<"mfa", e.where, e.enforced>>} \cup IF e.signIn = None THEN {} ELSE {<<"signIn", e.where, e.signIn>>}
FieldSays(k, v) ==
    CASE k \in {"roots", "notUsed"} -> {<<k, x>> : x \in ToSet(v)}
      [] k = "people"               -> UNION {PersonSays(h, v[h]) : h \in DOMAIN v}
      [] k = "assets"               -> UNION {AssetSays(n, v[n]) : n \in DOMAIN v}
      [] k = "mfa"                  -> UNION {EntrySays(v[i]) : i \in DOMAIN v}
      [] k = "admins"               -> {<<k, w, v[w]>> : w \in DOMAIN v}
      [] OTHER                      -> {<<k, x>> : x \in v}
Facts(f) == UNION {FieldSays(k, f[k]) : k \in DOMAIN f}

BlockSays(q, b) ==
    CASE q \in HeadQuestions  -> {<<"head", q>>}
      [] q = "roots"          -> {<<"roots", b.place>>}
      [] q = "exclude"        -> {<<"exclude", b.place>>}
      [] q = "mail"           -> {<<IF b.sends THEN "senders" ELSE "noMail", b.domain>>}
      [] q = "people"         -> {<<"person", b.handle, [kind |-> b.kind, usedBy |-> b.usedBy, ids |-> IdsOf(b)]>>}
      [] q = "left"           -> {<<"left", b.handle>>}
      [] q = "admins"         -> {<<"admins", b.where, b.handles>>}
      [] q = "deploys"        -> {<<"repo", b.name, b.repo>>, <<"deploys", b.name, b.to>>}
      [] q = "mfa"            -> {<<"mfa", b.where, b.enforced>>}
      [] q = "mfa_sign_in"    -> {<<"signIn", b.where, b.signIn>>}
      [] q = "exposed"        -> {<<"exposed", b.url>>}
      [] q = "restricted"     -> {<<"restricted", b.url>>}
      [] q = "reach"          -> {<<"host", b.name, b.host>>, <<"roots", b.host>>}
      [] q = "context"        -> (IF b.exposure = None THEN {} ELSE {<<"exposure", b.name, b.exposure>>}) \cup {<<"port", b.name, p>> : p \in b.ports}
      [] q = "matters_most"   -> {<<"matters", b.asset>>} \cup IF b.new THEN {<<"repo", b.asset, b.repo>>} ELSE {}
      [] OTHER                -> {<<"notUsed", b.area>>}
Said == UNION {BlockSays(accepted[i].q, accepted[i].b) : i \in DOMAIN accepted}

(* The blocks whose fact the same question replaces when it is said again: *)
(* of one tenant's administrators or sign-in, of one server or asset.      *)
Replaces(c, b) ==
    /\ c.q = b.q
    /\ \/ b.q \in {"admins", "mfa_sign_in"} /\ c.b.where = b.b.where
       \/ b.q \in {"deploys", "reach", "context"} /\ c.b.name = b.b.name

(* A line of a paragraph is in the block heard of it, unless its field is  *)
(* none the question has or a later line of the paragraph gives it again.  *)
Hears(q, p, b) ==
    \A i \in DOMAIN p :
        p[i].field \in BlockFields[q] =>
            IF p[i].field = "ports" THEN p[i].value \in b.ports
            ELSE b[p[i].field] = p[i].value \/ \E j \in LinesOf(p, p[i].field) : i < j
Kept(i) ==
    \/ BlockSays(accepted[i].q, accepted[i].b) \subseteq Facts(disk)
    \/ \E j \in i + 1 .. Len(accepted) : Replaces(accepted[j], accepted[i])

(* What init writes is what it heard of the accepted answers, no more and  *)
(* no less: of every paragraph typed one block is kept that has each of    *)
(* its lines but those passed over and those given again; every fact of an *)
(* accepted block is in the file, unless a later block replaced it; and    *)
(* the file says nothing that neither the file found nor an accepted block *)
(* said, whatever was refused on the way, half applied and asked again     *)
(* (init.go runInit; interview.go Answer, blocksOf).  It does not say that *)
(* everything typed is written: the parser drops lines and tells nobody.   *)
WrittenAsHeard ==
    disk # talk.found =>
        /\ \A k \in DOMAIN typed : LET x == typed[k] IN x.q \in DOMAIN BlockFields =>
              \A n \in DOMAIN x.t : \E i \in DOMAIN accepted : accepted[i].q = x.q /\ Hears(x.q, x.t[n], accepted[i].b)
        /\ \A i \in DOMAIN accepted : Kept(i)
        /\ Facts(disk) \subseteq Facts(talk.found) \cup Said
=============================================================================
