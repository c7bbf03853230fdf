----------------------------- MODULE ReadsProofs -----------------------------
(***************************************************************************)
(* Proofs about the modules that decide what is read: for any engagement   *)
(* file, candidates, repositories and answers, an exclude wins, a read     *)
(* rests on evidence, a name's server is contacted and a name is called    *)
(* gone only when that was earned, the request budget is honest, an        *)
(* excluded user stays unseen, and the file init writes says what the      *)
(* interview was told.                                                     *)
(***************************************************************************)
EXTENDS Dns, Discovery, Selection, Scope, Exclusion, Interview, WellFoundedInduction, FiniteSetTheorems, TLAPS

\* Each component on its own: the steps the gate, discovery, selection and the
\* interview take.
ScopeSpec == ScopeInit /\ [][ScopeNext]_scopeVars
SelectionSpec == SelInit /\ [][SelNext]_selVars
DiscoverySpec == DiscInit /\ [][DiscNext]_discVars
DnsSpec == DnsInit /\ [][LookupNext \/ FollowNext]_dnsVars
InterviewSpec == InterviewInit /\ [][InterviewNext]_interviewVars

\* A set of numbers that is not empty has a least one.
LEMMA LeastIn ==
    ASSUME NEW S \in SUBSET Nat, S # {}
    PROVE  Min(S) \in S /\ \A k \in S : Min(S) <= k
<1>1. PICK m \in S : \A k \in S : ~(<<k, m>> \in OpToRel(<, Nat))
  BY NatLessThanWellFounded, WFMin
<1>2. \A k \in S : ~(k < m)
  <2> TAKE k \in S
  <2>1. k \in Nat /\ m \in Nat
    OBVIOUS
  <2>2. k < m => <<k, m>> \in OpToRel(<, Nat)
    BY <2>1 DEF OpToRel
  <2> QED
    BY <1>1, <2>2
<1>3. \A k \in S : m <= k
  BY <1>2
<1> QED
  BY <1>3 DEF Min

-----------------------------------------------------------------------------
(* The scope decision.                                                     *)

\* What was already granted when the name is looked up, and what the lookup
\* was held against.
ScopeIInv ==
    /\ file \in Files /\ ask \in Asks
    /\ asked \in {"path", "lookup", "answered", "sent"} => Placed(ask.asset, ask.url)
    /\ asked \in {"answered", "sent"} => Looked(found)
    /\ granted = "yes" =>
          (ask.url.path = Slash /\ FrontPage(ask.url)) \/ UrlRoot(ask.url) \/ HostRoot(ask.url)

\* A path that needs no resolution is the front page or under a root of its own.
LEMMA PathsGranted ==
    ASSUME NEW o, o.path \in Site(o).paths
    PROVE  (o.path = Slash /\ FrontPage(o)) \/ UrlRoot(o) \/ HostRoot(o)
BY DEF Site, FileEvidence

\* Init and each step keep the invariant.
LEMMA ScopeStep == ScopeIInv /\ [ScopeNext]_scopeVars => ScopeIInv'
<1> SUFFICES ASSUME ScopeIInv, [ScopeNext]_scopeVars PROVE ScopeIInv'
  OBVIOUS
<1> USE DEF ScopeIInv
<1>1. CASE AdmitSubject
  <2>1. Placed(ask.asset, ask.url)' = Placed(ask.asset, ask.url)
    BY <1>1 DEF AdmitSubject, Placed
  <2> QED
    BY <1>1, <2>1 DEF AdmitSubject, Placed, FrontPage, UrlRoot, HostRoot
<1>2. CASE AdmitPath
  <2>1. granted' = "yes" => ask.url.path \in Site(ask.url).paths
    BY <1>2 DEF AdmitPath, AdmitsUnresolved
  <2> QED
    BY <1>2, <2>1, PathsGranted DEF AdmitPath, Placed, FrontPage, UrlRoot, HostRoot
<1>3. CASE LookName
  <2>1. asked' = "answered" => Looked(found)'
    BY <1>3 DEF LookName, Looked, AddressAdmitted, InNetwork
  <2> QED
    BY <1>3, <2>1 DEF LookName, Placed, FrontPage, UrlRoot, HostRoot
<1>4. CASE AdmitAddresses
  BY <1>4 DEF AdmitAddresses, Placed, Looked, AddressAdmitted, InNetwork, FrontPage, UrlRoot, HostRoot
<1>5. CASE Suspend
  BY <1>5 DEF Suspend, Placed, Looked, AddressAdmitted, InNetwork, FrontPage, UrlRoot, HostRoot
<1>6. CASE UNCHANGED scopeVars
  BY <1>6 DEF scopeVars, Placed, Looked, AddressAdmitted, InNetwork, FrontPage, UrlRoot, HostRoot
<1> QED
  BY <1>1, <1>2, <1>3, <1>4, <1>5, <1>6 DEF ScopeNext

LEMMA ScopeInvariant == ScopeSpec => []ScopeIInv
<1>1. ScopeInit => ScopeIInv
  BY DEF ScopeInit, ScopeIInv
<1> QED
  BY <1>1, ScopeStep, PTL DEF ScopeSpec

\* Two addresses of one machine: an exclude that names the one, in whatever
\* family, holds the other.
LEMMA MachineExcluded ==
    ASSUME NEW x, x.kind \in {"network", "host"}, NEW a, NEW b \in x.net, Carries[a] = Carries[b]
    PROVE  AddressExcluded(x, a)
<1>1. Carries[a] \in Forms(a)
  BY DEF Forms
<1>2. Carries[b] \in x.net \cup Carried(x.net)
  BY DEF Carried
<1> QED
  BY <1>1, <1>2 DEF AddressExcluded

\* Exclude always wins, for any file, request, lookup and spelling
\* (scope.go placeSubject, allow, locator.go Excludes, addressExcluded).
THEOREM ExcludeAlwaysWins == ScopeSpec => []ExcludeWins
<1>1. ASSUME ScopeIInv, asked = "sent" PROVE ExcludeWins
  <2> DEFINE u == ask.url
             called == ToSet(found.chain) \cup {u.host}
  <2>1. /\ \A x \in file.exclude, n \in called : ~ExcludesName(x, n)
        /\ \A x \in file.exclude, a \in found.addrs : ~AddressExcluded(x, a)
        /\ \A x \in file.exclude : ~Excludes(x, u)
        /\ u.kind = "url"
    BY <1>1, ScopeAssumption DEF ScopeIInv, Looked, AddressAdmitted, Placed, ScopeAssumption
  <2>2. \A x \in file.exclude : x.kind \in {"network", "host"} => Machines(found.addrs) \cap Machines(x.net) = {}
    BY <2>1, MachineExcluded DEF Machines
  <2>3. \A x \in file.exclude : x.kind = "domain" => \A n \in called : ~DomainUnder(n, x.host)
    BY <2>1 DEF ExcludesName
  <2>4. \A x \in file.exclude : x.kind = "host" => x.host \notin called
    BY <2>1 DEF ExcludesName
  <2>5. \A x \in file.exclude : x.kind = "url" =>
           ~(x.host = u.host /\ (x.port = u.port \/ UrlPort(x) = UrlPort(u)) /\ IsPrefix(x.path.segs, u.path.segs))
    BY <2>1 DEF Excludes
  <2>6. ASSUME NEW x \in file.exclude
        PROVE  CASE x.kind = "domain"  -> \A n \in called : ~DomainUnder(n, x.host)
                 [] x.kind = "network" -> Machines(found.addrs) \cap Machines(x.net) = {}
                 [] x.kind = "host"    -> x.host \notin called /\ Machines(found.addrs) \cap Machines(x.net) = {}
                 [] x.kind = "url"     -> ~(x.host = u.host /\ (x.port = u.port \/ UrlPort(x) = UrlPort(u)) /\ IsPrefix(x.path.segs, u.path.segs))
    <3> HIDE DEF called, u
    <3>1. x.kind \in {"domain", "network", "host", "url"}
      BY <1>1, ScopeAssumption DEF ScopeIInv, ScopeAssumption
    <3> QED
      BY <2>2, <2>3, <2>4, <2>5, <3>1
  <2> QED
    BY <2>6 DEF ExcludeWins
<1>2. ScopeIInv => ExcludeWins
  BY <1>1 DEF ExcludeWins
<1> QED
  BY <1>2, ScopeInvariant, PTL

\* The confirmation asked about is one of the file's that confirms the name.
LEMMA FirstConfirms ==
    ASSUME ScopeIInv, NEW o, Confirmations(o) # {}
    PROVE  LET c == file.confirmed[Min(Confirming(o))] IN c \in ToSet(file.confirmed) /\ Confirms(c, o)
<1>1. Confirming(o) \in SUBSET Nat /\ Confirming(o) # {}
  BY ScopeAssumption DEF ScopeIInv, ScopeAssumption, Confirmations, Confirming
<1>2. Min(Confirming(o)) \in Confirming(o)
  BY <1>1, LeastIn
<1> QED
  BY <1>2 DEF Confirming, ToSet

\* Beyond the front page a request is sent only on a root, on network roots
\* around every address, or on a current confirmation, not suspended, of where
\* the name points now (scope.go Admits, site, resolvedEvidence).
THEOREM EvidenceAlwaysHeld == ScopeSpec => EvidenceHeld
<1> DEFINE Held ==
        asked' = "sent" /\ ~(ask.url.path = Slash /\ FrontPage(ask.url)) =>
          \/ UrlRoot(ask.url) \/ HostRoot(ask.url)
          \/ \A a \in found.addrs : InNetwork(a)
          \/ /\ ask.url.host \notin suspended
             /\ \E c \in ToSet(file.confirmed) : Confirms(c, ask.url) /\ c.target = Target(found)
<1>1. ASSUME ScopeIInv, ScopeNext PROVE Held
  <2> SUFFICES ASSUME asked' = "sent", ~(ask.url.path = Slash /\ FrontPage(ask.url)),
                      ~UrlRoot(ask.url), ~HostRoot(ask.url), ~\A a \in found.addrs : InNetwork(a)
               PROVE  /\ ask.url.host \notin suspended
                      /\ \E c \in ToSet(file.confirmed) : Confirms(c, ask.url) /\ c.target = Target(found)
    OBVIOUS
  <2>1. AdmitAddresses
    BY <1>1 DEF ScopeNext, AdmitSubject, AdmitPath, LookName, AdmitAddresses, Suspend
  <2>2. granted # "yes"
    BY <1>1 DEF ScopeIInv
  <2>3. AdmitsResolved(ask.url, found) = "yes"
    BY <2>1, <2>2 DEF AdmitAddresses
  <2>4. ask.url.path \notin Site(ask.url).paths
    BY PathsGranted
  <2>5. ResolvedEvidence(ask.url.path \in Site(ask.url).confirmed, ask.url, found)
    BY <2>3, <2>4 DEF AdmitsResolved
  <2>6. ask.url.path \in Site(ask.url).confirmed /\ EvidenceAtTarget(ask.url, found)
    BY <2>5 DEF ResolvedEvidence
  <2>7. FileEvidence(ask.url) = "operator"
    BY <2>6 DEF Site
  <2>8. Confirmations(ask.url) # {} /\ ask.url.host \notin suspended
    BY <2>7 DEF FileEvidence
  <2> QED
    BY <1>1, <2>6, <2>8, FirstConfirms DEF EvidenceAtTarget
<1>2. ScopeIInv /\ [ScopeNext]_scopeVars => [Held]_scopeVars
  BY <1>1
<1> QED
  BY <1>2, ScopeInvariant, PTL DEF ScopeSpec, EvidenceHeld

-----------------------------------------------------------------------------
(* The selection of repositories.                                          *)

RepositoryNames == UNION RepositorySets
Orders == UNION {Select(rs) : rs \in RepositorySets}
Selections ==
    [order : Orders, kind : 1..(NumKinds + 1), at : Nat, spent : Nat,
     stopped : BOOLEAN, object : SUBSET RepositoryNames, noObject : SUBSET RepositoryNames,
     done : [1..NumKinds -> SUBSET RepositoryNames], cut : [1..NumKinds -> SUBSET RepositoryNames],
     reached : [1..NumKinds -> SUBSET RepositoryNames]]

\* The loops have left the place (k, i) behind; or are at it.
Past(s, k, i) == k < s.kind \/ (k = s.kind /\ i < s.at)
At(s, k, i) == k = s.kind /\ i = s.at

\* What is behind has its reason, what is ahead has none yet.
Reason(s, k, i) ==
    \/ s.order[i] \in s.done[k] \cup s.cut[k] \/ s.stopped
    \/ k # Access /\ s.order[i] \notin s.object
Unread(s, k, i) == s.order[i] \notin s.done[k] \cup s.cut[k]

\* No place that was cut has one after it that was read and is not declared.
FollowsOrder(s) ==
    \A k \in 1..NumKinds, i \in 1..Len(s.order) : s.order[i] \in s.cut[k] =>
        /\ ~s.order[i].declared
        /\ \A j \in (i + 1)..Len(s.order) : s.order[j] \in s.done[k] => s.order[j].declared
Accounted(s) ==
    /\ s \in Selections /\ s.at \in 1..Len(s.order)
    /\ FollowsOrder(s)
    /\ \A k \in 1..NumKinds : s.cut[k] # {} => s.spent >= RepositoryBudget
    /\ s.object = s.reached[Access] /\ \A k \in 1..NumKinds : s.reached[k] \subseteq s.object
SelIInv ==
    /\ Accounted(sel)
    /\ \A k \in 1..NumKinds, i \in 1..Len(sel.order) :
          IF Past(sel, k, i) THEN Reason(sel, k, i) ELSE Unread(sel, k, i)

\* The order lists every repository once.
LEMMA OrderFacts ==
    ASSUME NEW s \in Selections
    PROVE  /\ Len(s.order) \in Nat \ {0} /\ DOMAIN s.order = 1..Len(s.order)
           /\ \A i \in 1..Len(s.order) : s.order[i] \in RepositoryNames /\ s.order[i].declared \in BOOLEAN
           /\ \A i, j \in 1..Len(s.order) : s.order[i] = s.order[j] => i = j
           /\ ToSet(s.order) = {s.order[i] : i \in 1..Len(s.order)}
<1>1. PICK rs \in RepositorySets : s.order \in Select(rs)
  BY DEF Selections, Orders
<1>2. /\ IsFiniteSet(rs) /\ rs # {}
      /\ \A r \in rs : r.declared \in BOOLEAN /\ r.name \in Nat /\ r.pushed \in Nat
  BY SelectionAssumption DEF SelectionAssumption
<1>3. Cardinality(rs) \in Nat \ {0}
  BY <1>2, FS_CardinalityType, FS_EmptySet
<1>4. /\ s.order \in [1..Cardinality(rs) -> rs]
      /\ \A i, j \in DOMAIN s.order : i < j => TierBefore(s.order[i], s.order[j])
  BY <1>1 DEF Select
<1>5. Len(s.order) = Cardinality(rs) /\ DOMAIN s.order = 1..Len(s.order)
  BY <1>3, <1>4
<1>6. \A r \in rs : ~TierBefore(r, r)
  <2> TAKE r \in rs
  <2>1. Tier(r) \in Nat
    BY DEF Tier
  <2> QED
    BY <1>2, <2>1 DEF TierBefore
<1>7. \A i, j \in 1..Len(s.order) : s.order[i] = s.order[j] => i = j
  <2> SUFFICES ASSUME NEW i \in 1..Len(s.order), NEW j \in 1..Len(s.order), s.order[i] = s.order[j], i < j
               PROVE  FALSE
    BY <1>3, <1>5
  <2> QED
    BY <1>4, <1>5, <1>6
<1> QED
  BY <1>2, <1>3, <1>4, <1>5, <1>7 DEF RepositoryNames, ToSet

\* The loops' next place.
LEMMA Advance ==
    ASSUME NEW s \in Selections, s.at \in 1..Len(s.order), s.kind <= NumKinds
    PROVE  LET t == Step(s) IN
           /\ t \in Selections /\ t.at \in 1..Len(t.order)
           /\ t.order = s.order /\ t.spent = s.spent /\ t.stopped = s.stopped /\ t.object = s.object
           /\ t.done = s.done /\ t.cut = s.cut /\ t.reached = s.reached
           /\ \A k \in 1..NumKinds, i \in 1..Len(s.order) :
                 /\ Past(s, k, i) \/ At(s, k, i) => Past(t, k, i)
                 /\ Past(t, k, i) => Past(s, k, i) \/ At(s, k, i) \/ s.stopped
<1> DEFINE t == Step(s)
<1>1. Len(s.order) \in Nat \ {0} /\ s.kind \in 1..(NumKinds + 1) /\ s.at \in Nat /\ NumKinds \in Nat
  BY OrderFacts, SelectionAssumption DEF Selections, SelectionAssumption
<1>2. CASE s.at < Len(s.order) /\ ~s.stopped
  <2>1. t = [s EXCEPT !.at = s.at + 1]
    BY <1>2 DEF Step
  <2>2. s.at + 1 \in Nat /\ s.at + 1 \in 1..Len(s.order)
    BY <1>1, <1>2
  <2>3. /\ t \in Selections /\ t.at = s.at + 1 /\ t.kind = s.kind
        /\ t.order = s.order /\ t.spent = s.spent /\ t.stopped = s.stopped /\ t.object = s.object
        /\ t.done = s.done /\ t.cut = s.cut /\ t.reached = s.reached
    BY <2>1, <2>2 DEF Selections
  <2> QED
    BY <1>1, <2>2, <2>3 DEF Past, At
<1>3. CASE ~(s.at < Len(s.order) /\ ~s.stopped)
  <2>1. t = [s EXCEPT !.at = 1, !.kind = s.kind + 1]
    BY <1>3 DEF Step, Selections
  <2>2. s.kind + 1 \in 1..(NumKinds + 1) /\ 1 \in 1..Len(s.order) /\ 1 \in Nat
    BY <1>1
  <2> HIDE DEF t
  <2>3. /\ t \in Selections /\ t.at = 1 /\ t.kind = s.kind + 1
        /\ t.order = s.order /\ t.spent = s.spent /\ t.stopped = s.stopped /\ t.object = s.object
        /\ t.done = s.done /\ t.cut = s.cut /\ t.reached = s.reached
    BY <2>1, <2>2 DEF Selections
  <2>4. s.stopped \/ s.at = Len(s.order)
    BY <1>1, <1>3
  <2> QED
    BY <1>1, <2>2, <2>3, <2>4 DEF t, Past, At
<1> QED
  BY <1>2, <1>3

\* A place that was settled is left behind.
LEMMA StepKeeps ==
    ASSUME NEW s, Accounted(s), s.kind <= NumKinds, sel' = Step(s),
           \A k \in 1..NumKinds, i \in 1..Len(s.order) :
              IF Past(s, k, i) \/ At(s, k, i) THEN Reason(s, k, i) ELSE Unread(s, k, i)
    PROVE  SelIInv'
<1>1. s \in Selections /\ s.at \in 1..Len(s.order)
  BY DEF Accounted
<1>2. /\ sel' \in Selections /\ sel'.at \in 1..Len(sel'.order)
      /\ sel'.order = s.order /\ sel'.spent = s.spent /\ sel'.stopped = s.stopped /\ sel'.object = s.object
      /\ sel'.done = s.done /\ sel'.cut = s.cut /\ sel'.reached = s.reached
      /\ \A k \in 1..NumKinds, i \in 1..Len(s.order) :
            /\ Past(s, k, i) \/ At(s, k, i) => Past(sel', k, i)
            /\ Past(sel', k, i) => Past(s, k, i) \/ At(s, k, i) \/ s.stopped
  BY <1>1, Advance
<1>3. Accounted(sel')
  BY <1>2 DEF Accounted, FollowsOrder
<1>4. ASSUME NEW k \in 1..NumKinds, NEW i \in 1..Len(s.order)
      PROVE  IF Past(sel', k, i) THEN Reason(sel', k, i) ELSE Unread(sel', k, i)
  <2>1. IF Past(s, k, i) \/ At(s, k, i) THEN Reason(s, k, i) ELSE Unread(s, k, i)
    OBVIOUS
  <2> QED
    BY <1>2, <2>1 DEF Reason, Unread
<1> QED
  BY <1>2, <1>3, <1>4 DEF SelIInv

\* The loops stand at a place of their order.
LEMMA HereIsAPlace ==
    ASSUME SelIInv, ~SelOver
    PROVE  /\ sel \in Selections /\ sel.kind \in 1..NumKinds /\ sel.at \in 1..Len(sel.order)
           /\ sel.spent \in Nat /\ Access \in 1..NumKinds
           /\ Here \in RepositoryNames /\ Here.declared \in BOOLEAN
           /\ \A i \in 1..Len(sel.order) : sel.order[i] = Here => i = sel.at
<1>1. sel \in Selections /\ sel.at \in 1..Len(sel.order)
  BY DEF SelIInv, Accounted
<1>2. sel.kind \in 1..NumKinds /\ sel.spent \in Nat /\ Access \in 1..NumKinds
  BY <1>1, SelectionAssumption DEF Selections, SelectionAssumption, SelOver, Access
<1> QED
  BY <1>1, <1>2, OrderFacts DEF Here

\* Skipping leaves a place that the stop, or the missing object, explains.
LEMMA SkipKeeps == ASSUME SelIInv, SkipKind PROVE SelIInv'
<1>1. ~SelOver /\ sel' = Step(sel) /\ (sel.stopped \/ PassHere)
  BY DEF SkipKind
<1>2. sel.kind <= NumKinds
  BY <1>1, HereIsAPlace, SelectionAssumption DEF SelectionAssumption
<1>3. ASSUME NEW k \in 1..NumKinds, NEW i \in 1..Len(sel.order)
      PROVE  IF Past(sel, k, i) \/ At(sel, k, i) THEN Reason(sel, k, i) ELSE Unread(sel, k, i)
  <2>1. IF Past(sel, k, i) THEN Reason(sel, k, i) ELSE Unread(sel, k, i)
    BY DEF SelIInv
  <2>2. ASSUME At(sel, k, i) PROVE Reason(sel, k, i)
    BY <1>1, <2>2 DEF At, Reason, PassHere, Here
  <2> QED
    BY <2>1, <2>2
<1> QED
  BY <1>1, <1>2, <1>3, StepKeeps DEF SelIInv

\* Cutting: nothing after the place was read yet for its kind, what is cut is
\* not declared, and the budget is spent.
LEMMA CutKeeps == ASSUME SelIInv, CutKind PROVE SelIInv'
<1> DEFINE s == [sel EXCEPT !.cut[sel.kind] = @ \cup {Here}]
<1>1. ~SelOver /\ ~sel.stopped /\ CutHere /\ sel' = Step(s)
  BY DEF CutKind
<1>2. /\ sel \in Selections /\ sel.kind \in 1..NumKinds /\ sel.at \in 1..Len(sel.order)
      /\ sel.spent \in Nat /\ Access \in 1..NumKinds
      /\ Here \in RepositoryNames /\ Here.declared \in BOOLEAN
      /\ \A i \in 1..Len(sel.order) : sel.order[i] = Here => i = sel.at
  BY <1>1, HereIsAPlace
<1>3. /\ FollowsOrder(sel)
      /\ \A k \in 1..NumKinds : sel.cut[k] # {} => sel.spent >= RepositoryBudget
      /\ sel.object = sel.reached[Access] /\ \A k \in 1..NumKinds : sel.reached[k] \subseteq sel.object
      /\ \A k \in 1..NumKinds, i \in 1..Len(sel.order) :
            IF Past(sel, k, i) THEN Reason(sel, k, i) ELSE Unread(sel, k, i)
  BY DEF SelIInv, Accounted
<1>4. /\ s \in Selections /\ s.order = sel.order /\ s.kind = sel.kind /\ s.at = sel.at /\ s.spent = sel.spent
      /\ s.stopped = sel.stopped /\ s.object = sel.object /\ s.done = sel.done /\ s.reached = sel.reached
      /\ \A k \in 1..NumKinds : s.cut[k] = IF k = sel.kind THEN sel.cut[k] \cup {Here} ELSE sel.cut[k]
  BY <1>2 DEF Selections
<1> HIDE DEF s
<1>5. ~Here.declared /\ sel.spent >= RepositoryBudget
  <2>1. CASE sel.spent >= RepositoryBudget /\ ~Here.declared
    BY <2>1
  <2>2. CASE Here \in sel.cut[Access]
    BY <1>2, <1>3, <2>2 DEF FollowsOrder, Here
  <2> QED
    BY <1>1, <2>1, <2>2 DEF CutHere
<1>6. FollowsOrder(s)
  <2> SUFFICES ASSUME NEW k \in 1..NumKinds, NEW i \in 1..Len(sel.order), sel.order[i] \in s.cut[k]
               PROVE  /\ ~sel.order[i].declared
                      /\ \A j \in (i + 1)..Len(sel.order) : sel.order[j] \in sel.done[k] => sel.order[j].declared
    BY <1>4 DEF FollowsOrder
  <2>1. CASE sel.order[i] \in sel.cut[k]
    BY <1>3, <2>1 DEF FollowsOrder
  <2>2. CASE k = sel.kind /\ i = sel.at
    <3>1. ASSUME NEW j \in (i + 1)..Len(sel.order) PROVE sel.order[j] \notin sel.done[k]
      <4>1. j \in 1..Len(sel.order) /\ ~Past(sel, k, j)
        BY <1>2, <2>2 DEF Past
      <4> QED
        BY <1>3, <4>1 DEF Unread
    <3> QED
      BY <1>5, <2>2, <3>1 DEF Here
  <2> QED
    BY <1>2, <1>4, <2>1, <2>2
<1>7. Accounted(s)
  BY <1>2, <1>3, <1>4, <1>5, <1>6 DEF Accounted
<1>8. ASSUME NEW k \in 1..NumKinds, NEW i \in 1..Len(s.order)
      PROVE  IF Past(s, k, i) \/ At(s, k, i) THEN Reason(s, k, i) ELSE Unread(s, k, i)
  <2>1. IF Past(sel, k, i) THEN Reason(sel, k, i) ELSE Unread(sel, k, i)
    BY <1>3, <1>4
  <2>2. /\ Past(s, k, i) <=> Past(sel, k, i)
        /\ At(s, k, i) <=> (k = sel.kind /\ i = sel.at)
    BY <1>4 DEF Past, At
  <2>3. Reason(sel, k, i) => Reason(s, k, i)
    BY <1>4 DEF Reason
  <2>4. ASSUME At(s, k, i) PROVE Reason(s, k, i)
    BY <1>4, <2>2, <2>4 DEF Reason, Here
  <2>5. ASSUME Unread(sel, k, i), ~At(s, k, i) PROVE Unread(s, k, i)
    <3>1. k # sel.kind \/ sel.order[i] # Here
      BY <1>2, <1>4, <2>2, <2>5
    <3> QED
      BY <1>4, <2>5, <3>1 DEF Unread
  <2> QED
    BY <2>1, <2>2, <2>3, <2>4, <2>5
<1>9. s.kind <= NumKinds
  BY <1>2, <1>4, SelectionAssumption DEF SelectionAssumption
<1> QED
  BY <1>1, <1>7, <1>8, <1>9, StepKeeps

\* Reading: a kind that already cut a repository has spent the budget, so what
\* it reads now is declared.
LEMMA ReadKeeps ==
    ASSUME NEW sent \in 0..2, NEW object \in {"found", "missing", "failed"}, NEW stops \in BOOLEAN,
           SelIInv, ReadKind(sent, object, stops)
    PROVE  SelIInv'
<1> DEFINE reached == (sel.kind = Access /\ sent > 0 /\ object = "found") \/ (sel.kind # Access /\ (sent > 0 \/ object = "found"))
           objects == IF sel.kind = Access /\ object = "found" /\ sent > 0 THEN sel.object \cup {Here} ELSE sel.object
           noObjects == IF sel.kind = Access /\ object = "missing" /\ sent > 0 THEN sel.noObject \cup {Here} ELSE sel.noObject
           dones == sel.done[sel.kind] \cup {Here}
           reads == IF reached THEN sel.reached[sel.kind] \cup {Here} ELSE sel.reached[sel.kind]
           s == [sel EXCEPT !.spent = sel.spent + sent, !.stopped = stops, !.done[sel.kind] = dones,
                            !.object = objects, !.noObject = noObjects, !.reached[sel.kind] = reads]
<1>1. ~SelOver /\ ~sel.stopped /\ ~CutHere /\ ~PassHere
  BY DEF ReadKind
<1>2. /\ sel \in Selections /\ sel.kind \in 1..NumKinds /\ sel.at \in 1..Len(sel.order)
      /\ sel.spent \in Nat /\ Access \in 1..NumKinds
      /\ Here \in RepositoryNames /\ Here.declared \in BOOLEAN
      /\ \A i \in 1..Len(sel.order) : sel.order[i] = Here => i = sel.at
  BY <1>1, HereIsAPlace
<1>3. sel' = Step(s)
  BY <1>2 DEF ReadKind, Selections
<1>4. /\ FollowsOrder(sel)
      /\ \A k \in 1..NumKinds : sel.cut[k] # {} => sel.spent >= RepositoryBudget
      /\ sel.object = sel.reached[Access] /\ \A k \in 1..NumKinds : sel.reached[k] \subseteq sel.object
      /\ \A k \in 1..NumKinds, i \in 1..Len(sel.order) :
            IF Past(sel, k, i) THEN Reason(sel, k, i) ELSE Unread(sel, k, i)
  BY DEF SelIInv, Accounted
<1>5. /\ objects \in SUBSET RepositoryNames /\ noObjects \in SUBSET RepositoryNames /\ dones \in SUBSET RepositoryNames
      /\ reads \in SUBSET RepositoryNames /\ sel.spent + sent \in Nat
  <2>1. /\ sel.object \in SUBSET RepositoryNames /\ sel.noObject \in SUBSET RepositoryNames
        /\ sel.done[sel.kind] \in SUBSET RepositoryNames /\ sel.reached[sel.kind] \in SUBSET RepositoryNames
    BY <1>2 DEF Selections
  <2> HIDE DEF reached
  <2> QED
    BY <1>2, <2>1
<1>6. /\ s \in Selections /\ s.order = sel.order /\ s.kind = sel.kind /\ s.at = sel.at
      /\ s.spent = sel.spent + sent /\ s.cut = sel.cut /\ s.stopped = stops /\ s.object = objects
      /\ \A k \in 1..NumKinds :
            /\ s.done[k] = IF k = sel.kind THEN dones ELSE sel.done[k]
            /\ s.reached[k] = IF k = sel.kind THEN reads ELSE sel.reached[k]
  <2> HIDE DEF objects, noObjects, dones, reads
  <2>1. /\ sel.done \in [1..NumKinds -> SUBSET RepositoryNames]
        /\ sel.reached \in [1..NumKinds -> SUBSET RepositoryNames]
    BY <1>2 DEF Selections
  <2>2. /\ [sel.done EXCEPT ![sel.kind] = dones] \in [1..NumKinds -> SUBSET RepositoryNames]
        /\ [sel.reached EXCEPT ![sel.kind] = reads] \in [1..NumKinds -> SUBSET RepositoryNames]
    BY <1>5, <2>1
  <2> QED
    BY <1>2, <1>5, <2>1, <2>2 DEF Selections
<1>7. s.object = s.reached[Access] /\ \A k \in 1..NumKinds : s.reached[k] \subseteq s.object
  <2>1. sel.kind # Access => Here \in sel.object
    BY <1>1 DEF CutHere, PassHere
  <2> HIDE DEF s
  <2>2. CASE sel.kind = Access
    BY <1>2, <1>4, <1>6, <2>2
  <2>3. CASE sel.kind # Access
    BY <1>2, <1>4, <1>6, <2>1, <2>3
  <2> QED
    BY <2>2, <2>3
<1>8. (sel.kind # Access => objects = sel.object) /\ sel.object \subseteq objects /\ dones = sel.done[sel.kind] \cup {Here}
  OBVIOUS
<1> HIDE DEF s, reached, objects, noObjects, dones, reads
<1>9. sel.spent >= RepositoryBudget => Here.declared
  BY <1>1 DEF CutHere, PassHere
<1>10. FollowsOrder(s)
  <2> SUFFICES ASSUME NEW k \in 1..NumKinds, NEW i \in 1..Len(sel.order), sel.order[i] \in sel.cut[k]
               PROVE  /\ ~sel.order[i].declared
                      /\ \A j \in (i + 1)..Len(sel.order) : sel.order[j] \in s.done[k] => sel.order[j].declared
    BY <1>6 DEF FollowsOrder
  <2>1. Here.declared
    BY <1>4, <1>9
  <2>2. \A r \in s.done[k] : r = Here \/ r \in sel.done[k]
    BY <1>2, <1>6, <1>8
  <2> QED
    BY <1>4, <2>1, <2>2 DEF FollowsOrder
<1>11. Accounted(s)
  <2>1. \A k \in 1..NumKinds : s.cut[k] # {} => s.spent >= RepositoryBudget
    BY <1>2, <1>4, <1>6, SelectionAssumption DEF SelectionAssumption
  <2> QED
    BY <1>2, <1>6, <1>7, <1>10, <2>1 DEF Accounted
<1>12. ASSUME NEW k \in 1..NumKinds, NEW i \in 1..Len(s.order)
       PROVE  IF Past(s, k, i) \/ At(s, k, i) THEN Reason(s, k, i) ELSE Unread(s, k, i)
  <2>1. IF Past(sel, k, i) THEN Reason(sel, k, i) ELSE Unread(sel, k, i)
    BY <1>4, <1>6
  <2>2. /\ Past(s, k, i) <=> Past(sel, k, i)
        /\ At(s, k, i) <=> (k = sel.kind /\ i = sel.at)
    BY <1>6 DEF Past, At
  <2>3. ASSUME At(s, k, i) PROVE Reason(s, k, i)
    BY <1>6, <1>8, <2>2, <2>3 DEF Reason, Here
  <2>4. ASSUME Reason(sel, k, i), k # Access => sel.kind # Access PROVE Reason(s, k, i)
    BY <1>1, <1>6, <1>8, <2>4 DEF Reason
  <2>5. ASSUME Past(sel, k, i), k # Access PROVE sel.kind # Access
    BY <1>2, <2>5 DEF Past, Access
  <2>6. ASSUME Unread(sel, k, i), ~At(s, k, i) PROVE Unread(s, k, i)
    <3>1. k # sel.kind \/ sel.order[i] # Here
      BY <1>2, <1>6, <2>2, <2>6
    <3> QED
      BY <1>6, <1>8, <2>6, <3>1 DEF Unread
  <2> QED
    BY <2>1, <2>2, <2>3, <2>4, <2>5, <2>6
<1>13. s.kind <= NumKinds
  BY <1>2, <1>6, SelectionAssumption DEF SelectionAssumption
<1> QED
  BY <1>3, <1>11, <1>12, <1>13, StepKeeps

\* The budget follows Plan's order and what was not read has its reason, for
\* any repositories, budget, kinds and answers (selection.go
\* CollectRepositories, Plan, Evidence.With).
THEOREM BudgetAlwaysHonest == SelectionSpec => []BudgetHonest
<1>1. SelInit => SelIInv
  <2> SUFFICES ASSUME SelInit PROVE SelIInv
    OBVIOUS
  <2>1. PICK order \in Orders :
            sel = [order |-> order, kind |-> Access, at |-> 1, spent |-> 0, stopped |-> FALSE, object |-> {}, noObject |-> {},
                   done |-> [k \in 1..NumKinds |-> {}], cut |-> [k \in 1..NumKinds |-> {}], reached |-> [k \in 1..NumKinds |-> {}]]
    BY DEF SelInit, Orders
  <2>2. Access \in 1..NumKinds /\ Access \in 1..(NumKinds + 1) /\ 1 \in Nat
    BY SelectionAssumption DEF SelectionAssumption, Access
  <2>3. sel \in Selections
    BY <2>1, <2>2 DEF Selections
  <2>4. Len(sel.order) \in Nat \ {0}
    BY <2>3, OrderFacts
  <2>5. Accounted(sel)
    BY <2>1, <2>2, <2>3, <2>4 DEF Accounted, FollowsOrder
  <2>6. \A k \in 1..NumKinds, i \in 1..Len(sel.order) : ~Past(sel, k, i) /\ Unread(sel, k, i)
    BY <2>1, <2>4, SelectionAssumption DEF Past, Unread, Access, SelectionAssumption
  <2> QED
    BY <2>5, <2>6 DEF SelIInv
<1>2. SelIInv /\ [SelNext]_selVars => SelIInv'
  <2>1. ASSUME SelIInv, UNCHANGED selVars PROVE SelIInv'
    BY <2>1 DEF selVars, SelIInv, Accounted, FollowsOrder, Past, Reason, Unread, Selections
  <2> QED
    BY <2>1, SkipKeeps, CutKeeps, ReadKeeps DEF SelNext
<1>3. SelIInv => BudgetHonest
  <2> SUFFICES ASSUME SelIInv PROVE BudgetHonest
    OBVIOUS
  <2>1. sel \in Selections /\ Accounted(sel) /\ DOMAIN sel.order = 1..Len(sel.order)
        /\ ToSet(sel.order) = {sel.order[i] : i \in 1..Len(sel.order)}
    BY OrderFacts DEF SelIInv, Accounted
  <2>2. DOMAIN sel.cut = 1..NumKinds /\ DOMAIN sel.done = 1..NumKinds
    BY <2>1 DEF Selections
  <2>3. BudgetFollowsOrder
    BY <2>1, <2>2 DEF BudgetFollowsOrder, Accounted, FollowsOrder
  <2>4. UnreadExplained
    <3> SUFFICES ASSUME SelOver, NEW k \in 1..NumKinds, NEW i \in 1..Len(sel.order)
                 PROVE  /\ Reason(sel, k, i)
                        /\ sel.order[i] \notin sel.reached[Access] =>
                              RepositoriesUnread /\ sel.order[i] \notin sel.reached[k]
      BY <2>1, <2>2 DEF UnreadExplained, Reason
    <3>1. Past(sel, k, i)
      BY <2>1, SelectionAssumption DEF SelOver, Past, Selections, SelectionAssumption
    <3>2. Reason(sel, k, i)
      BY <3>1 DEF SelIInv
    <3> QED
      BY <2>1, <3>2 DEF Accounted, RepositoriesUnread
  <2> QED
    BY <2>3, <2>4 DEF BudgetHonest
<1> QED
  BY <1>1, <1>2, <1>3, PTL DEF SelectionSpec

-----------------------------------------------------------------------------
(* Discovery.                                                              *)

Candidates == [rank : Nat, declared : BOOLEAN, notAfter : Nat, excluded : BOOLEAN, evidence : BOOLEAN]
Statuses == {"excluded", "insufficient_evidence", "matches_wildcard", "dangling", "no_longer_exists",
             "no_address", "resolves", "not_checked"}
NameRecords == [rank : Nat, group : 0..2, declared : BOOLEAN, excluded : BOOLEAN, evidence : BOOLEAN,
                status : Statuses, read : BOOLEAN, sent : BOOLEAN]
Discoveries == [pc : {"invalid", "wildcard", "names"}, cands : CandidateSets, list : Seq(Candidates), k : Nat \ {0},
                resolved : 0..MaxResolved, unverified : 0..MaxUnverified,
                control : Answers \cup {"not_sent", "none"}, wildcard : Answers \cup {"not_sent", "none"}]

OnTrust(r) == r.read /\ ~r.declared /\ ~r.evidence
SentNames == {j \in DOMAIN names : names[j].sent}
TrustedNames == {j \in DOMAIN names : OnTrust(names[j])}

\* What one record may say, of a candidate and the controls.
Earned(r, c) ==
    /\ r.group = Group(c)
    /\ r.excluded => ~r.sent /\ ~r.read
    /\ OnTrust(r) => disc.control \in {"nxdomain", "nodata"}
    /\ r.status = "dangling" => disc.control # "addresses"

\* Each record is of the candidate at its place, and the counters count them.
DiscIInv ==
    /\ disc \in Discoveries /\ names \in Seq(NameRecords)
    /\ disc.pc # "names" => names = <<>>
    /\ Len(names) = disc.k - 1
    /\ names # <<>> => Len(names) <= Len(disc.list)
    /\ \A i, j \in 1..Len(disc.list) : i < j => Before(disc.list[i], disc.list[j])
    /\ \A j \in 1..Len(names) : Earned(names[j], disc.list[j])
    /\ IsFiniteSet(SentNames) /\ Cardinality(SentNames) = disc.resolved
    /\ IsFiniteSet(TrustedNames) /\ Cardinality(TrustedNames) = disc.unverified

\* The step of one candidate, whatever its disjunct.
Adds(r) ==
    LET c == disc.list[disc.k] IN
    /\ r \in NameRecords /\ Earned(r, c)
    /\ names' = Append(names, r)
    /\ disc' = [disc EXCEPT !.k = disc.k + 1,
                            !.resolved = IF r.sent THEN disc.resolved + 1 ELSE disc.resolved,
                            !.unverified = IF OnTrust(r) THEN disc.unverified + 1 ELSE disc.unverified]
    /\ r.sent => disc.resolved < MaxResolved
    /\ OnTrust(r) => disc.unverified < MaxUnverified

LEMMA ClassifySays ==
    ASSUME NEW c, NEW out \in Answers, NEW chain \in BOOLEAN, NEW alike \in BOOLEAN
    PROVE  /\ Classify(c, out, chain, alike) \in Statuses
           /\ Classify(c, out, chain, alike) = "dangling" => ~Rewrites
BY DEF Classify, Answers, Statuses

LEMMA LookUpAdds ==
    ASSUME DiscIInv, LookUp
    PROVE  disc.pc = "names" /\ disc.k <= Len(disc.list) /\ \E r : Adds(r)
<1> DEFINE c == disc.list[disc.k]
<1>1. /\ disc \in Discoveries /\ disc.pc = "names" /\ disc.k <= Len(disc.list)
      /\ c \in Candidates /\ Group(c) \in 0..2
  <2>1. disc \in Discoveries /\ disc.pc = "names" /\ disc.k <= Len(disc.list)
    BY DEF DiscIInv, LookUp
  <2>2. disc.list \in Seq(Candidates) /\ disc.k \in 1..Len(disc.list)
    BY <2>1 DEF Discoveries
  <2>3. c \in Candidates
    BY <2>2
  <2>4. Group(c) \in 0..2
    BY DEF Group
  <2> QED
    BY <2>1, <2>3, <2>4
<1> HIDE DEF c
<1>2. ASSUME NEW status \in {"excluded", "not_checked"}, names' = Append(names, Name(c, status)),
             disc' = [disc EXCEPT !.k = @ + 1]
      PROVE  \E r : Adds(r)
  <2> DEFINE r == Name(c, status)
  <2>1. /\ r \in NameRecords /\ r.group = Group(c) /\ r.sent = FALSE /\ r.read = FALSE /\ r.status = status
    BY <1>1 DEF Name, NameRecords, Candidates, Statuses
  <2> HIDE DEF r
  <2>2. disc' = [disc EXCEPT !.k = disc.k + 1, !.resolved = disc.resolved, !.unverified = disc.unverified]
    BY <1>1, <1>2 DEF Discoveries
  <2>3. names' = Append(names, r)
    BY <1>2 DEF r
  <2>4. Adds(r)
    BY <2>1, <2>2, <2>3 DEF Adds, Earned, OnTrust, c
  <2> QED
    BY <2>4
<1>3. ASSUME disc.resolved < MaxResolved, ~c.excluded, NEW out \in Answers, NEW chain \in BOOLEAN, NEW alike \in BOOLEAN,
             LET st == Classify(c, out, chain, alike)
                 rd == st = "resolves" /\ Reads(c)
             IN  /\ names' = Append(names, [Name(c, st) EXCEPT !.read = rd, !.sent = TRUE])
                 /\ disc' = [disc EXCEPT !.k = @ + 1, !.resolved = @ + 1,
                               !.unverified = IF rd /\ Counts(c) THEN @ + 1 ELSE @]
      PROVE  \E r : Adds(r)
  <2> DEFINE st == Classify(c, out, chain, alike)
             rd == (st = "resolves" /\ Reads(c))
             r == [Name(c, st) EXCEPT !.read = rd, !.sent = TRUE]
  <2>1. st \in Statuses /\ (st = "dangling" => ~Rewrites)
    BY ClassifySays
  <2>2. PICK b \in BOOLEAN : b = rd
    OBVIOUS
  <2> HIDE DEF st, rd
  <2>3. /\ r \in NameRecords /\ r.group = Group(c) /\ r.sent = TRUE /\ r.read = rd /\ r.status = st
        /\ r.excluded = c.excluded /\ r.declared = c.declared /\ r.evidence = c.evidence
    BY <1>1, <2>1, <2>2 DEF Name, NameRecords, Candidates
  <2> HIDE DEF r
  <2>4. OnTrust(r) <=> rd /\ Counts(c)
    BY <2>3 DEF OnTrust, Counts, rd
  <2>5. OnTrust(r) => /\ disc.control \in {"nxdomain", "nodata"} /\ disc.unverified < MaxUnverified
    BY <2>3 DEF OnTrust, rd, Reads, Rewrites, Known
  <2>6. Earned(r, c)
    BY <1>3, <2>1, <2>3, <2>5 DEF Earned, Rewrites
  <2>7. names' = Append(names, r)
    BY <1>3 DEF st, rd, r
  <2>8. disc' = [disc EXCEPT !.k = @ + 1, !.resolved = @ + 1, !.unverified = IF rd /\ Counts(c) THEN @ + 1 ELSE @]
    BY <1>3 DEF st, rd
  <2>9. disc' = [disc EXCEPT !.k = disc.k + 1, !.resolved = IF r.sent THEN disc.resolved + 1 ELSE disc.resolved,
                             !.unverified = IF OnTrust(r) THEN disc.unverified + 1 ELSE disc.unverified]
    BY <1>1, <2>3, <2>4, <2>8 DEF Discoveries
  <2>10. Adds(r)
    BY <1>3, <2>3, <2>5, <2>6, <2>7, <2>9 DEF Adds, c
  <2> QED
    BY <2>10
<1> QED
  BY <1>1, <1>2, <1>3 DEF LookUp, c

\* A record more is at most one name more of each kind, and is counted.
LEMMA AddsKeeps ==
    ASSUME DiscIInv, disc.pc = "names", disc.k <= Len(disc.list), NEW r, Adds(r)
    PROVE  DiscIInv'
<1>1. /\ disc \in Discoveries /\ names \in Seq(NameRecords) /\ Len(names) = disc.k - 1
      /\ \A i, j \in 1..Len(disc.list) : i < j => Before(disc.list[i], disc.list[j])
      /\ \A j \in 1..Len(names) : Earned(names[j], disc.list[j])
      /\ IsFiniteSet(SentNames) /\ Cardinality(SentNames) = disc.resolved
      /\ IsFiniteSet(TrustedNames) /\ Cardinality(TrustedNames) = disc.unverified
      /\ disc.k \in Nat \ {0} /\ disc.resolved \in 0..MaxResolved /\ disc.unverified \in 0..MaxUnverified
      /\ MaxResolved \in Nat /\ MaxUnverified \in Nat
  BY DiscoveryAssumption DEF DiscIInv, Discoveries, DiscoveryAssumption
<1>2. /\ r \in NameRecords /\ Earned(r, disc.list[disc.k])
      /\ names' = Append(names, r)
      /\ r.sent => disc.resolved < MaxResolved
      /\ OnTrust(r) => disc.unverified < MaxUnverified
  BY DEF Adds
<1>3. /\ names' \in Seq(NameRecords) /\ Len(names') = disc.k /\ names'[disc.k] = r /\ DOMAIN names' = 1..disc.k
      /\ DOMAIN names = 1..(disc.k - 1) /\ \A j \in 1..(disc.k - 1) : names'[j] = names[j]
  BY <1>1, <1>2
<1>4. /\ disc' \in Discoveries /\ disc'.k = disc.k + 1 /\ disc'.list = disc.list /\ disc'.control = disc.control
      /\ disc'.pc = disc.pc
      /\ disc'.resolved = IF r.sent THEN disc.resolved + 1 ELSE disc.resolved
      /\ disc'.unverified = IF OnTrust(r) THEN disc.unverified + 1 ELSE disc.unverified
  <2> DEFINE sents == IF r.sent THEN disc.resolved + 1 ELSE disc.resolved
             trusts == IF OnTrust(r) THEN disc.unverified + 1 ELSE disc.unverified
  <2>1. sents \in 0..MaxResolved /\ trusts \in 0..MaxUnverified /\ disc.k + 1 \in Nat \ {0}
    <3>1. sents \in 0..MaxResolved
      BY <1>1, <1>2
    <3>2. trusts \in 0..MaxUnverified
      BY <1>1, <1>2
    <3> QED
      BY <1>1, <3>1, <3>2
  <2>2. disc' = [disc EXCEPT !.k = disc.k + 1, !.resolved = sents, !.unverified = trusts]
    BY DEF Adds
  <2> HIDE DEF sents, trusts
  <2>3. /\ disc' \in Discoveries /\ disc'.k = disc.k + 1 /\ disc'.list = disc.list /\ disc'.control = disc.control
        /\ disc'.pc = disc.pc /\ disc'.resolved = sents /\ disc'.unverified = trusts
    BY <1>1, <2>1, <2>2 DEF Discoveries
  <2> QED
    BY <2>3 DEF sents, trusts
<1>5. \A j \in 1..disc.k : Earned(names'[j], disc.list[j])
  <2> TAKE j \in 1..disc.k
  <2>1. CASE j = disc.k
    BY <1>2, <1>3, <2>1
  <2>2. CASE j # disc.k
    <3>1. j \in 1..(disc.k - 1)
      BY <1>1, <2>2
    <3> QED
      BY <1>1, <1>3, <3>1
  <2> QED
    BY <2>1, <2>2
<1>6. IsFiniteSet(SentNames') /\ Cardinality(SentNames') = disc'.resolved
  <2>1. SentNames' = IF r.sent THEN SentNames \cup {disc.k} ELSE SentNames
    BY <1>1, <1>3 DEF SentNames
  <2>2. disc.k \notin SentNames
    BY <1>1, <1>3 DEF SentNames
  <2>3. IsFiniteSet(SentNames \cup {disc.k}) /\ Cardinality(SentNames \cup {disc.k}) = disc.resolved + 1
    BY <1>1, <2>2, FS_AddElement
  <2> QED
    BY <1>1, <1>4, <2>1, <2>3
<1>7. IsFiniteSet(TrustedNames') /\ Cardinality(TrustedNames') = disc'.unverified
  <2>1. TrustedNames' = IF OnTrust(r) THEN TrustedNames \cup {disc.k} ELSE TrustedNames
    BY <1>1, <1>3 DEF TrustedNames
  <2>2. disc.k \notin TrustedNames
    BY <1>1, <1>3 DEF TrustedNames
  <2>3. IsFiniteSet(TrustedNames \cup {disc.k}) /\ Cardinality(TrustedNames \cup {disc.k}) = disc.unverified + 1
    BY <1>1, <2>2, FS_AddElement
  <2> QED
    BY <1>1, <1>4, <2>1, <2>3
<1>8. (\A j \in 1..Len(names) : Earned(names[j], disc.list[j]))'
  BY <1>3, <1>4, <1>5 DEF Earned
<1> QED
  BY <1>1, <1>3, <1>4, <1>6, <1>7, <1>8 DEF DiscIInv

\* The candidates are looked up in the order that spares the earlier groups.
LEMMA OrderedLists ==
    ASSUME NEW cs \in CandidateSets, NEW ct \in BOOLEAN,
           NEW list \in Ordered(IF ct THEN cs ELSE {c \in cs : c.declared})
    PROVE  /\ list \in Seq(Candidates)
           /\ \A i, j \in 1..Len(list) : i < j => Before(list[i], list[j])
<1> DEFINE S == IF ct THEN cs ELSE {c \in cs : c.declared}
<1>1. IsFiniteSet(cs) /\ cs \subseteq Candidates
  BY DiscoveryAssumption DEF DiscoveryAssumption, Candidates
<1>2. S \subseteq cs /\ list \in Ordered(S)
  OBVIOUS
<1> HIDE DEF S
<1>3. Cardinality(S) \in Nat
  BY <1>1, <1>2, FS_Subset, FS_CardinalityType
<1>4. /\ list \in [1..Cardinality(S) -> S]
      /\ \A i, j \in DOMAIN list : i < j => Before(list[i], list[j])
  BY <1>2 DEF Ordered
<1>5. list \in Seq(Candidates) /\ DOMAIN list = 1..Len(list)
  BY <1>1, <1>2, <1>3, <1>4
<1> QED
  BY <1>4, <1>5

\* Before any name there is nothing to keep.
LEMMA NothingNamed ==
    ASSUME disc \in Discoveries, names = <<>>, disc.k = 1, disc.resolved = 0, disc.unverified = 0,
           \A i, j \in 1..Len(disc.list) : i < j => Before(disc.list[i], disc.list[j])
    PROVE  DiscIInv
<1>1. SentNames = {} /\ TrustedNames = {} /\ Len(names) = 0 /\ names \in Seq(NameRecords)
  BY DEF SentNames, TrustedNames
<1>2. IsFiniteSet({}) /\ Cardinality({}) = 0
  BY FS_EmptySet
<1> QED
  BY <1>1, <1>2 DEF DiscIInv

LEMMA StillNothing ==
    ASSUME disc' \in Discoveries, names' = <<>>, disc'.k = 1, disc'.resolved = 0, disc'.unverified = 0,
           \A i, j \in 1..Len(disc'.list) : i < j => Before(disc'.list[i], disc'.list[j])
    PROVE  DiscIInv'
<1>1. SentNames' = {} /\ TrustedNames' = {} /\ Len(names') = 0 /\ names' \in Seq(NameRecords)
  BY DEF SentNames, TrustedNames
<1>2. IsFiniteSet({}) /\ Cardinality({}) = 0
  BY FS_EmptySet
<1> QED
  BY <1>1, <1>2 DEF DiscIInv

LEMMA NothingCounted ==
    ASSUME DiscIInv, names = <<>>
    PROVE  disc.k = 1 /\ disc.resolved = 0 /\ disc.unverified = 0
<1>1. SentNames = {} /\ TrustedNames = {} /\ Len(names) = 0 /\ disc.k \in Nat
  BY DEF SentNames, TrustedNames, DiscIInv, Discoveries
<1> QED
  BY <1>1, FS_EmptySet DEF DiscIInv

LEMMA DiscInvariant == DiscoverySpec => []DiscIInv
<1>1. DiscInit => DiscIInv
  <2> SUFFICES ASSUME DiscInit PROVE DiscIInv
    OBVIOUS
  <2>1. PICK cs \in CandidateSets :
            disc = [pc |-> "invalid", cands |-> cs, list |-> <<>>, k |-> 1, resolved |-> 0, unverified |-> 0,
                    control |-> "none", wildcard |-> "none"]
    BY DEF DiscInit
  <2>2. disc \in Discoveries
    BY <2>1, DiscoveryAssumption DEF Discoveries, DiscoveryAssumption
  <2> QED
    BY <2>1, <2>2, NothingNamed DEF DiscInit
<1>2. ASSUME DiscIInv, ControlInvalid PROVE DiscIInv'
  <2>1. PICK out \in Answers \cup {"not_sent"} : disc' = [disc EXCEPT !.pc = "wildcard", !.control = out]
    BY <1>2 DEF ControlInvalid
  <2>2. disc \in Discoveries /\ names = <<>> /\ names' = <<>>
    BY <1>2 DEF DiscIInv, ControlInvalid
  <2>3. disc.k = 1 /\ disc.resolved = 0 /\ disc.unverified = 0
    BY <1>2, <2>2, NothingCounted
  <2>4. disc' \in Discoveries /\ disc'.k = 1 /\ disc'.resolved = 0 /\ disc'.unverified = 0 /\ disc'.list = disc.list
    BY <2>1, <2>2, <2>3 DEF Discoveries
  <2>5. \A i, j \in 1..Len(disc'.list) : i < j => Before(disc'.list[i], disc'.list[j])
    BY <1>2, <2>4 DEF DiscIInv
  <2> QED
    BY <2>2, <2>4, <2>5, StillNothing
<1>3. ASSUME DiscIInv, ControlWildcard PROVE DiscIInv'
  <2>1. disc \in Discoveries /\ names = <<>> /\ names' = <<>> /\ disc.cands \in CandidateSets
    BY <1>3 DEF DiscIInv, ControlWildcard, Discoveries
  <2>2. PICK out \in Answers \cup {"not_sent"}, ct \in BOOLEAN :
           \E list \in Ordered(IF ct THEN disc.cands ELSE {c \in disc.cands : c.declared}) :
              disc' = [disc EXCEPT !.pc = "names", !.wildcard = out, !.list = list]
    BY <1>3 DEF ControlWildcard
  <2>3. PICK list \in Ordered(IF ct THEN disc.cands ELSE {c \in disc.cands : c.declared}) :
              disc' = [disc EXCEPT !.pc = "names", !.wildcard = out, !.list = list]
    BY <2>2
  <2>4. /\ list \in Seq(Candidates)
        /\ \A i, j \in 1..Len(list) : i < j => Before(list[i], list[j])
    BY <2>1, OrderedLists
  <2>5. disc.k = 1 /\ disc.resolved = 0 /\ disc.unverified = 0
    BY <1>3, <2>1, NothingCounted
  <2>6. disc' \in Discoveries /\ disc'.k = 1 /\ disc'.resolved = 0 /\ disc'.unverified = 0 /\ disc'.list = list
    BY <2>1, <2>3, <2>4, <2>5 DEF Discoveries
  <2> QED
    BY <2>1, <2>4, <2>6, StillNothing
<1>4. ASSUME DiscIInv, LookUp PROVE DiscIInv'
  BY <1>4, LookUpAdds, AddsKeeps
<1>5. ASSUME DiscIInv, UNCHANGED discVars PROVE DiscIInv'
  BY <1>5 DEF discVars, DiscIInv, SentNames, TrustedNames, Earned, OnTrust
<1>6. DiscIInv /\ [DiscNext]_discVars => DiscIInv'
  BY <1>2, <1>3, <1>4, <1>5 DEF DiscNext
<1> QED
  BY <1>1, <1>6, PTL DEF DiscoverySpec

\* A server is contacted on the resolver's word alone only when the control
\* showed its word to be worth something, for at most MaxUnverified names; no
\* excluded name is looked up, no rewriting resolver makes a name dangle, and
\* the cap spares the earlier groups: for any candidates and answers
\* (discover.go lookUp, classify, ordered).
THEOREM ReadsAlwaysEarned == DiscoverySpec => []ReadsEarned
<1>1. DiscIInv => ReadsEarned
  <2> SUFFICES ASSUME DiscIInv PROVE ReadsEarned
    OBVIOUS
  <2>1. /\ disc \in Discoveries /\ names \in Seq(NameRecords)
        /\ \A j \in 1..Len(names) : Earned(names[j], disc.list[j])
        /\ DOMAIN names = 1..Len(names)
        /\ Cardinality(SentNames) <= MaxResolved /\ Cardinality(TrustedNames) <= MaxUnverified
    BY DEF DiscIInv, Discoveries
  <2>2. ASSUME NEW j \in DOMAIN names, NEW k \in DOMAIN names, j > k
        PROVE  names[k].group <= names[j].group
    <3>1. j \in 1..Len(disc.list) /\ k \in 1..Len(disc.list)
      BY <2>1 DEF DiscIInv
    <3>2. Before(disc.list[k], disc.list[j])
      BY <2>2, <3>1 DEF DiscIInv
    <3>3. names[k].group = Group(disc.list[k]) /\ names[j].group = Group(disc.list[j])
      BY <2>1 DEF Earned
    <3> QED
      BY <3>2, <3>3 DEF Before, Group
  <2>3. CapSparesEarlier
    BY <2>1, <2>2 DEF CapSparesEarlier, SentNames
  <2> QED
    BY <2>1, <2>3 DEF ReadsEarned, TrustedNames, OnTrust, Earned
<1> QED
  BY <1>1, DiscInvariant, PTL

-----------------------------------------------------------------------------
(* The DNS client: one lookup.                                             *)

Labels == Names \cup {Bad}
Looks == [pc : {"idle", "types", "cname", "done"}, name : Labels, chain : Seq(Labels), cur : Labels,
          types : {<<>>, <<"AAAA">>, <<"A", "AAAA">>}, records : SUBSET Labels, nx : BOOLEAN,
          asked : SUBSET Labels, cnameAsked : SUBSET Labels, outcome : {"none"}]

\* What holds of a lookup l between its rounds, when q has been asked.
Common(l) ==
    /\ l \in Looks /\ l.outcome = "none"
    /\ Seen(l) \cap Excluded = {}
    /\ l.asked \subseteq Seen(l)
    /\ Final(l) \in l.asked => Final(l) = l.cur
\* A lookup that goes on: one address type or both are still to ask, or the
\* CNAME of an end that was asked for its addresses or does not exist.
Live(l, q) ==
    /\ Common(l) /\ l.pc \in {"types", "cname"} /\ l.cur \in Seen(l)
    /\ \A n \in l.cnameAsked : <<n, "CNAME">> \in q \/ (l.pc = "cname" /\ n = Final(l))
    /\ l.pc = "types" => l.types \in {<<"AAAA">>, <<"A", "AAAA">>}
    /\ l.pc = "cname" => l.nx \/ <<l.cur, "AAAA">> \in q
Absence(l, q) ==
    l.outcome \in {"nxdomain", "nodata"} =>
        /\ <<Final(l), "CNAME">> \in q
        /\ l.outcome = "nodata" => <<Final(l), "AAAA">> \in q
        /\ l.records = {}
Stands(l, q) == Live(l, q) \/ (l.pc = "done" /\ Absence(l, q))
LookIInv ==
    /\ ExcludedNeverAsked
    /\ look = Idle \/ Stands(look, queries)

\* The end of the chain is one of the names seen.
LEMMA FinalSeen == ASSUME NEW l \in Looks PROVE Final(l) \in Seen(l) /\ Final(l) \in Labels
<1>1. l.chain \in Seq(Labels) /\ l.name \in Labels
  BY DEF Looks
<1>2. CASE l.chain = <<>>
  BY <1>1, <1>2 DEF Final, Seen
<1>3. CASE l.chain # <<>>
  <2>1. Len(l.chain) \in 1..Len(l.chain) /\ Final(l) = l.chain[Len(l.chain)]
    BY <1>1, <1>3 DEF Final, Last
  <2> QED
    BY <1>1, <2>1 DEF Seen, ToSet
<1> QED
  BY <1>2, <1>3

LEMMA PathFacts ==
    ASSUME NEW hops \in Paths
    PROVE  hops \in Seq(Labels) /\ DOMAIN hops = 1..Len(hops)
<1>1. PICK k \in 0..MaxHops : hops \in [1..k -> Labels]
  BY DEF Paths, Labels
<1> QED
  BY <1>1, DnsAssumption DEF DnsAssumption

\* Where a concatenation has the elements of its parts.
LEMMA Joined ==
    ASSUME NEW S, NEW s \in Seq(S), NEW t \in Seq(S)
    PROVE  /\ s \o t \in Seq(S) /\ Len(s \o t) = Len(s) + Len(t)
           /\ Len(s) \in Nat /\ Len(t) \in Nat
           /\ DOMAIN s = 1..Len(s) /\ DOMAIN t = 1..Len(t) /\ DOMAIN (s \o t) = 1..Len(s \o t)
           /\ \A i \in 1..Len(s) : (s \o t)[i] = s[i]
           /\ \A i \in 1..Len(t) : (s \o t)[Len(s) + i] = t[i]
<1>1. s \o t \in Seq(S) /\ Len(s \o t) = Len(s) + Len(t) /\ Len(s) \in Nat /\ Len(t) \in Nat
  OBVIOUS
<1>2. DOMAIN s = 1..Len(s) /\ DOMAIN t = 1..Len(t) /\ DOMAIN (s \o t) = 1..Len(s \o t)
  BY <1>1
<1>3. \A i \in 1..Len(s) : (s \o t)[i] = s[i]
  OBVIOUS
<1>4. \A i \in 1..Len(t) : (s \o t)[Len(s) + i] = t[i]
  OBVIOUS
<1> QED
  BY <1>1, <1>2, <1>3, <1>4

\* A concatenation holds the elements of both.
LEMMA Concatenated ==
    ASSUME NEW S, NEW s \in Seq(S), NEW t \in Seq(S)
    PROVE  ToSet(s \o t) = ToSet(s) \cup ToSet(t)
<1> DEFINE u == s \o t
<1>1. /\ u \in Seq(S) /\ Len(u) = Len(s) + Len(t) /\ Len(s) \in Nat /\ Len(t) \in Nat
      /\ DOMAIN s = 1..Len(s) /\ DOMAIN t = 1..Len(t) /\ DOMAIN u = 1..Len(u)
  BY Joined
<1>2. \A i \in 1..Len(s) : u[i] = s[i]
  BY Joined
<1>3. \A i \in 1..Len(t) : u[Len(s) + i] = t[i]
  BY Joined
<1> HIDE DEF u
<1>4. ASSUME NEW i \in 1..Len(u) PROVE u[i] \in ToSet(s) \cup ToSet(t)
  <2>1. CASE i <= Len(s)
    BY <1>1, <1>2, <2>1 DEF ToSet
  <2>2. CASE i > Len(s)
    <3>1. i - Len(s) \in 1..Len(t) /\ i = Len(s) + (i - Len(s))
      BY <1>1, <2>2
    <3>2. u[i] = t[i - Len(s)]
      BY <1>3, <3>1
    <3> QED
      BY <1>1, <3>1, <3>2 DEF ToSet
  <2> QED
    BY <1>1, <2>1, <2>2
<1>5. ASSUME NEW i \in 1..Len(s) PROVE s[i] \in ToSet(u)
  <2>1. i \in 1..Len(u) /\ u[i] = s[i]
    BY <1>1, <1>2
  <2> QED
    BY <1>1, <2>1 DEF ToSet
<1>6. ASSUME NEW i \in 1..Len(t) PROVE t[i] \in ToSet(u)
  <2>1. Len(s) + i \in 1..Len(u) /\ u[Len(s) + i] = t[i]
    BY <1>1, <1>3
  <2> QED
    BY <1>1, <2>1 DEF ToSet
<1>7. ToSet(u) = ToSet(s) \cup ToSet(t)
  <2>1. /\ ToSet(u) = {u[i] : i \in 1..Len(u)} /\ ToSet(s) = {s[i] : i \in 1..Len(s)}
        /\ ToSet(t) = {t[i] : i \in 1..Len(t)}
    BY <1>1 DEF ToSet
  <2>2. ToSet(u) \subseteq ToSet(s) \cup ToSet(t)
    BY <1>4, <2>1
  <2>3. ToSet(s) \subseteq ToSet(u) /\ ToSet(t) \subseteq ToSet(u)
    BY <1>5, <1>6, <2>1
  <2> QED
    BY <2>2, <2>3
<1> QED
  BY <1>7 DEF u

\* An answer that ends nothing adds only new names, none of them excluded; any
\* other ends the lookup, and not with an absence.
LEMMA Extends ==
    ASSUME NEW l \in Looks, l.pc # "done", NEW hops \in Paths
    PROVE  LET m == Extend(l, hops) IN
           \/ /\ m = [l EXCEPT !.chain = l.chain \o hops] /\ m \in Looks
              /\ Seen(m) = Seen(l) \cup ToSet(hops) /\ ToSet(hops) \cap Excluded = {}
              /\ IF hops = <<>> THEN Final(m) = Final(l) ELSE Final(m) \notin Seen(l)
           \/ m.pc = "done" /\ m.outcome \in {"loop", "error", "excluded"}
<1> DEFINE ends == {i \in DOMAIN hops : Ends(l, hops, i)}
           m == [l EXCEPT !.chain = l.chain \o hops]
<1>1. /\ l.chain \in Seq(Labels) /\ hops \in Seq(Labels) /\ DOMAIN hops = 1..Len(hops) /\ Len(hops) \in Nat
  BY PathFacts DEF Looks
<1>2. CASE ends = {}
  <2>1. Extend(l, hops) = m
    BY <1>2 DEF Extend
  <2>2. m \in Looks /\ m.chain = l.chain \o hops /\ m.name = l.name
    <3> DEFINE chain == l.chain \o hops
    <3>1. chain \in Seq(Labels)
      BY <1>1
    <3> HIDE DEF chain
    <3>2. [l EXCEPT !.chain = chain] \in Looks /\ [l EXCEPT !.chain = chain].chain = chain
          /\ [l EXCEPT !.chain = chain].name = l.name
      BY <3>1 DEF Looks
    <3> QED
      BY <3>2 DEF chain
  <2>3. \A i \in 1..Len(hops) : hops[i] \notin Seen(l) /\ hops[i] \notin Excluded
    BY <1>1, <1>2 DEF Ends, Loops
  <2>4. ToSet(l.chain \o hops) = ToSet(l.chain) \cup ToSet(hops)
    BY <1>1, Concatenated
  <2> HIDE DEF m
  <2>5. Seen(m) = Seen(l) \cup ToSet(hops)
    BY <2>2, <2>4 DEF Seen
  <2>6. ToSet(hops) \cap Excluded = {}
    BY <1>1, <2>3 DEF ToSet
  <2>7. IF hops = <<>> THEN Final(m) = Final(l) ELSE Final(m) \notin Seen(l)
    <3>1. CASE hops = <<>>
      BY <1>1, <2>2, <3>1 DEF Final
    <3>2. CASE hops # <<>>
      <4>1. Len(hops) \in 1..Len(hops) /\ Len(l.chain \o hops) = Len(l.chain) + Len(hops) /\ l.chain \o hops # <<>>
        BY <1>1, <3>2
      <4>2. (l.chain \o hops)[Len(l.chain) + Len(hops)] = hops[Len(hops)]
        BY <1>1, <4>1
      <4>3. Final(m) = hops[Len(hops)]
        BY <2>2, <4>1, <4>2 DEF Final, Last
      <4> QED
        BY <2>3, <3>2, <4>1, <4>3
    <3> QED
      BY <3>1, <3>2
  <2> QED
    BY <2>1, <2>2, <2>5, <2>6, <2>7 DEF m
<1>3. CASE ends # {}
  <2> DEFINE i == Min(ends)
             To(n) == [l EXCEPT !.chain = l.chain \o SubSeq(hops, 1, n)]
  <2>1. \A n, o : End(To(n), o).pc = "done" /\ End(To(n), o).outcome = o
    BY DEF End, Looks
  <2> HIDE DEF i, To
  <2>2. CASE Loops(l, hops, i)
    <3>1. Extend(l, hops) = End(To(i - 1), "loop")
      BY <1>3, <2>2 DEF Extend, i, To
    <3> QED
      BY <2>1, <3>1
  <2>3. CASE ~Loops(l, hops, i)
    <3>1. Extend(l, hops) = End(To(i), IF hops[i] = Bad THEN "error" ELSE "excluded")
      BY <1>3, <2>3 DEF Extend, i, To
    <3>2. (IF hops[i] = Bad THEN "error" ELSE "excluded") \in {"loop", "error", "excluded"}
      OBVIOUS
    <3> QED
      BY <2>1, <3>1, <3>2
  <2> QED
    BY <2>2, <2>3
<1> QED
  BY <1>2, <1>3

\* Another round asks the end of a chain that holds no excluded name.
LEMMA RoundLives ==
    ASSUME NEW l, NEW q, Common(l), \A n \in l.cnameAsked : <<n, "CNAME">> \in q
    PROVE  Live(Round(l), q)
<1> DEFINE m == Round(l)
<1>1. l \in Looks /\ Final(l) \in Seen(l) /\ Final(l) \in Labels
  BY FinalSeen DEF Common
<1>2. /\ m \in Looks /\ m.outcome = "none" /\ m.pc = "types" /\ m.cur = Final(l) /\ m.asked = l.asked \cup {Final(l)}
      /\ m.cnameAsked = l.cnameAsked /\ m.name = l.name /\ m.chain = l.chain /\ m.types = <<"A", "AAAA">>
  <2> DEFINE end == Final(l)
  <2>1. end \in Labels
    BY <1>1
  <2> HIDE DEF end
  <2>2. [l EXCEPT !.pc = "types", !.cur = end, !.asked = l.asked \cup {end}, !.types = <<"A", "AAAA">>,
                  !.records = {}, !.nx = FALSE] = m
    BY <1>1 DEF Round, end, Looks
  <2>3. l.asked \cup {end} \in SUBSET Labels /\ l.outcome = "none"
    BY <1>1, <2>1 DEF Looks, Common
  <2> HIDE DEF m
  <2> QED
    BY <1>1, <2>1, <2>2, <2>3 DEF Looks, end
<1> HIDE DEF m
<1>3. Final(m) = Final(l) /\ Seen(m) = Seen(l)
  BY <1>2 DEF Final, Seen
<1>4. Common(m)
  BY <1>1, <1>2, <1>3 DEF Common
<1>5. Live(m, q)
  BY <1>1, <1>2, <1>3, <1>4 DEF Live
<1> QED
  BY <1>5 DEF m

\* An absence is settled on only when it was asked for.
LEMMA Settles ==
    ASSUME NEW l, NEW q, Common(l), \A n \in l.cnameAsked : <<n, "CNAME">> \in q,
           l.records = {} /\ l.nx => <<Final(l), "CNAME">> \in q,
           l.records = {} /\ ~l.nx /\ Final(l) \in l.asked =>
               <<Final(l), "CNAME">> \in q /\ <<Final(l), "AAAA">> \in q
    PROVE  Stands(Settle(l), q)
<1>1. l \in Looks
  BY DEF Common
<1>2. ASSUME NEW o \in {"addresses", "nxdomain", "nodata"},
             o \in {"nxdomain", "nodata"} => l.records = {} /\ <<Final(l), "CNAME">> \in q,
             o = "nodata" => <<Final(l), "AAAA">> \in q
      PROVE  Stands(End(l, o), q)
  <2> DEFINE m == End(l, o)
  <2>1. m.pc = "done" /\ m.outcome = o /\ m.chain = l.chain /\ m.name = l.name /\ m.records = l.records
    BY <1>1 DEF End, Looks
  <2> HIDE DEF m
  <2>2. Final(m) = Final(l)
    BY <2>1 DEF Final
  <2>3. Stands(m, q)
    BY <1>2, <2>1, <2>2 DEF Stands, Absence
  <2> QED
    BY <2>3 DEF m
<1>3. CASE l.records # {}
  <2>1. Settle(l) = End(l, "addresses")
    BY <1>3 DEF Settle
  <2> QED
    BY <1>2, <2>1
<1>4. CASE l.records = {} /\ l.nx
  <2>1. Settle(l) = End(l, "nxdomain")
    BY <1>4 DEF Settle
  <2> QED
    BY <1>2, <1>4, <2>1
<1>5. CASE l.records = {} /\ ~l.nx /\ Final(l) \in l.asked
  <2>1. Settle(l) = End(l, "nodata")
    BY <1>5 DEF Settle
  <2> QED
    BY <1>2, <1>5, <2>1
<1>6. CASE l.records = {} /\ ~l.nx /\ Final(l) \notin l.asked
  <2>1. Settle(l) = Round(l)
    BY <1>6 DEF Settle
  <2> QED
    BY <2>1, RoundLives DEF Stands
<1> QED
  BY <1>3, <1>4, <1>5, <1>6

\* A round that asked for the last type, or was told the name does not exist,
\* settles or asks for the CNAME first.
LEMMA AfterRoundStands ==
    ASSUME NEW l, NEW q, Common(l), l.cur \in Seen(l), \A n \in l.cnameAsked : <<n, "CNAME">> \in q,
           l.nx \/ <<l.cur, "AAAA">> \in q
    PROVE  Stands(AfterRound(l), q)
<1>1. l \in Looks /\ Final(l) \in Labels
  BY FinalSeen DEF Common
<1>2. CASE l.records = {} /\ Final(l) \notin l.cnameAsked /\ (Final(l) = l.cur \/ l.nx)
  <2> DEFINE end == Final(l)
             m == [l EXCEPT !.pc = "cname", !.cnameAsked = l.cnameAsked \cup {end}]
  <2>1. AfterRound(l) = m
    BY <1>1, <1>2 DEF AfterRound, Looks
  <2>2. end \in Labels
    BY <1>1
  <2> HIDE DEF end
  <2>3. /\ m \in Looks /\ m.outcome = l.outcome /\ m.pc = "cname" /\ m.cur = l.cur /\ m.asked = l.asked
        /\ m.cnameAsked = l.cnameAsked \cup {end} /\ m.name = l.name /\ m.chain = l.chain /\ m.nx = l.nx
    BY <1>1, <2>2 DEF Looks
  <2> HIDE DEF m
  <2>4. Final(m) = Final(l) /\ Seen(m) = Seen(l)
    BY <2>3 DEF Final, Seen
  <2>5. Common(m)
    BY <2>3, <2>4 DEF Common
  <2>6. Live(m, q)
    BY <2>3, <2>4, <2>5 DEF Live, end
  <2> QED
    BY <2>1, <2>6 DEF Stands
<1>3. CASE ~(l.records = {} /\ Final(l) \notin l.cnameAsked /\ (Final(l) = l.cur \/ l.nx))
  <2>1. AfterRound(l) = Settle(l)
    BY <1>3 DEF AfterRound
  <2>2. l.records = {} /\ l.nx => <<Final(l), "CNAME">> \in q
    BY <1>3
  <2>3. ASSUME l.records = {}, ~l.nx, Final(l) \in l.asked
        PROVE  <<Final(l), "CNAME">> \in q /\ <<Final(l), "AAAA">> \in q
    <3>1. Final(l) = l.cur
      BY <2>3 DEF Common
    <3> QED
      BY <1>3, <2>3, <3>1
  <2> QED
    BY <2>1, <2>2, <2>3, Settles
<1> QED
  BY <1>2, <1>3

\* An address query of a live lookup.
LEMMA AddressStep == ASSUME LookIInv, AskAddress PROVE LookIInv'
<1>1. Live(look, queries) /\ look.pc = "types" /\ look.types # <<>> /\ ExcludedNeverAsked
  BY DEF LookIInv, Stands, AskAddress, Idle
<1>2. /\ Common(look) /\ look \in Looks /\ look.cur \in Seen(look) /\ look.cur \notin Excluded
      /\ \A n \in look.cnameAsked : <<n, "CNAME">> \in queries
      /\ look.types \in {<<"AAAA">>, <<"A", "AAAA">>}
  BY <1>1 DEF Live, Common
<1>3. queries' = queries \cup {<<look.cur, Head(look.types)>>}
  BY DEF AskAddress
<1>4. ExcludedNeverAsked'
  BY <1>1, <1>2, <1>3 DEF ExcludedNeverAsked
<1>5. Tail(look.types) \in {<<>>, <<"AAAA">>} /\ (Tail(look.types) = <<>> => Head(look.types) = "AAAA")
  <2>1. Tail(<<"A", "AAAA">>) = <<"AAAA">> /\ Tail(<<"AAAA">>) = <<>> /\ Head(<<"AAAA">>) = "AAAA" /\ <<"AAAA">> # <<>>
    OBVIOUS
  <2> QED
    BY <1>2, <2>1
<1>6. ASSUME NEW f \in Failures, look' = End(look, f) PROVE Stands(look', queries')
  BY <1>2, <1>6 DEF End, Looks, Stands, Absence, Failures
<1>7. ASSUME NEW hops \in Paths, NEW nx \in BOOLEAN, NEW held \in BOOLEAN,
             LET l == Extend([look EXCEPT !.types = Tail(@)], hops)
                 k == IF held THEN [l EXCEPT !.records = @ \cup {Final(l)}] ELSE l
             IN  look' = IF l.pc = "done" THEN l
                         ELSE IF nx \/ k.types = <<>> THEN AfterRound([k EXCEPT !.nx = nx])
                         ELSE k
      PROVE  Stands(look', queries')
  <2> DEFINE rest == Tail(look.types)
             b == [look EXCEPT !.types = rest]
             l == Extend(b, hops)
             records == IF held THEN l.records \cup {Final(l)} ELSE l.records
             k == IF held THEN [l EXCEPT !.records = l.records \cup {Final(l)}] ELSE l
  <2>1. b = [look EXCEPT !.types = Tail(@)]
    BY <1>2 DEF Looks
  <2>2. look' = IF l.pc = "done" THEN l
                ELSE IF nx \/ k.types = <<>> THEN AfterRound([k EXCEPT !.nx = nx]) ELSE k
    BY <1>7, <2>1
  <2>3. /\ b \in Looks /\ b.pc = "types" /\ b.types = rest /\ b.outcome = "none" /\ b.asked = look.asked /\ b.cur = look.cur
        /\ b.cnameAsked = look.cnameAsked /\ b.name = look.name /\ b.chain = look.chain
    <3> HIDE DEF rest
    <3>1. rest \in {<<>>, <<"AAAA">>, <<"A", "AAAA">>}
      BY <1>5 DEF rest
    <3> QED
      BY <1>1, <1>2, <3>1 DEF Looks, Common
  <2> HIDE DEF b
  <2>4. Final(b) = Final(look) /\ Seen(b) = Seen(look)
    BY <2>3 DEF Final, Seen
  <2>5. Common(b)
    BY <1>2, <2>3, <2>4 DEF Common
  <2>6. CASE /\ l = [b EXCEPT !.chain = b.chain \o hops] /\ l \in Looks
             /\ Seen(l) = Seen(b) \cup ToSet(hops) /\ ToSet(hops) \cap Excluded = {}
             /\ IF hops = <<>> THEN Final(l) = Final(b) ELSE Final(l) \notin Seen(b)
    <3> HIDE DEF l
    <3>1. l.pc = "types" /\ l.types = rest /\ l.outcome = "none" /\ l.asked = b.asked /\ l.cur = b.cur
          /\ l.cnameAsked = b.cnameAsked
      BY <2>3, <2>6 DEF Looks
    <3>2. Common(l) /\ l.cur \in Seen(l)
      <4>1. b.cur \in Seen(b)
        BY <1>2, <2>3, <2>4
      <4> QED
        BY <2>5, <2>6, <3>1, <4>1 DEF Common
    <3>3. /\ k \in Looks /\ k.pc = "types" /\ k.types = rest /\ k.outcome = "none" /\ k.asked = l.asked /\ k.cur = l.cur
          /\ k.cnameAsked = l.cnameAsked /\ k.name = l.name /\ k.chain = l.chain
      <4> DEFINE kept == l.records \cup {Final(l)}
      <4>1. kept \in SUBSET Labels
        BY <2>6, FinalSeen DEF Looks
      <4> HIDE DEF kept
      <4>2. CASE held
        BY <2>6, <3>1, <4>1, <4>2 DEF Looks, kept
      <4>3. CASE ~held
        BY <2>6, <3>1, <4>3
      <4> QED
        BY <4>2, <4>3
    <3> HIDE DEF k
    <3>4. Final(k) = Final(l) /\ Seen(k) = Seen(l)
      BY <3>3 DEF Final, Seen
    <3>5. Common(k) /\ k.cur \in Seen(k) /\ k.cur = look.cur
      BY <2>3, <3>1, <3>2, <3>3, <3>4 DEF Common
    <3>6. \A n \in k.cnameAsked : <<n, "CNAME">> \in queries'
      BY <1>2, <1>3, <2>3, <3>1, <3>3
    <3>7. CASE nx \/ rest = <<>>
      <4> DEFINE m == [k EXCEPT !.nx = nx]
      <4>1. /\ m \in Looks /\ m.outcome = "none" /\ m.asked = k.asked /\ m.cur = k.cur /\ m.nx = nx
            /\ m.cnameAsked = k.cnameAsked /\ m.name = k.name /\ m.chain = k.chain
        BY <3>3 DEF Looks
      <4>2. look' = AfterRound(m)
        BY <2>2, <3>1, <3>3, <3>7
      <4> HIDE DEF m
      <4>3. Final(m) = Final(k) /\ Seen(m) = Seen(k)
        BY <4>1 DEF Final, Seen
      <4>4. Common(m) /\ m.cur \in Seen(m)
        BY <3>5, <4>1, <4>3 DEF Common
      <4>5. m.nx \/ <<m.cur, "AAAA">> \in queries'
        BY <1>3, <1>5, <3>5, <3>7, <4>1
      <4> QED
        BY <3>6, <4>1, <4>2, <4>4, <4>5, AfterRoundStands
    <3>8. CASE ~nx /\ rest # <<>>
      <4>1. look' = k
        BY <2>2, <3>1, <3>3, <3>8
      <4>2. Live(k, queries')
        BY <1>5, <3>3, <3>5, <3>6, <3>8 DEF Live
      <4> QED
        BY <4>1, <4>2 DEF Stands
    <3> QED
      BY <3>7, <3>8
  <2>7. CASE l.pc = "done" /\ l.outcome \in {"loop", "error", "excluded"}
    BY <2>2, <2>7 DEF Stands, Absence
  <2> QED
    BY <2>3, <2>6, <2>7, Extends
<1>8. Stands(look', queries')
  BY <1>6, <1>7 DEF AskAddress
<1> QED
  BY <1>4, <1>8 DEF LookIInv

\* The CNAME query of the chain's end.
LEMMA CnameStep == ASSUME LookIInv, AskCNAME PROVE LookIInv'
<1>1. Live(look, queries) /\ look.pc = "cname" /\ ExcludedNeverAsked
  BY DEF LookIInv, Stands, AskCNAME, Idle
<1>2. /\ Common(look) /\ look \in Looks /\ look.cur \in Seen(look)
      /\ Final(look) \in Seen(look) /\ Final(look) \notin Excluded
      /\ \A n \in look.cnameAsked : <<n, "CNAME">> \in queries \/ n = Final(look)
      /\ look.nx \/ <<look.cur, "AAAA">> \in queries
  BY <1>1, FinalSeen DEF Live, Common
<1>3. queries' = queries \cup {<<Final(look), "CNAME">>}
  BY DEF AskCNAME
<1>4. ExcludedNeverAsked'
  BY <1>1, <1>2, <1>3 DEF ExcludedNeverAsked
<1>5. ASSUME NEW f \in Failures, look' = End(look, f) PROVE Stands(look', queries')
  BY <1>2, <1>5 DEF End, Looks, Stands, Absence, Failures
<1>6. ASSUME NEW hops \in Paths,
             LET l == Extend(look, hops) IN
             look' = IF l.pc = "done" THEN l
                     ELSE IF Final(l) # Final(look) THEN Round(l) ELSE Settle(l)
      PROVE  Stands(look', queries')
  <2> DEFINE l == Extend(look, hops)
  <2>1. look' = IF l.pc = "done" THEN l ELSE IF Final(l) # Final(look) THEN Round(l) ELSE Settle(l)
    BY <1>6
  <2>2. CASE /\ l = [look EXCEPT !.chain = look.chain \o hops] /\ l \in Looks
             /\ Seen(l) = Seen(look) \cup ToSet(hops) /\ ToSet(hops) \cap Excluded = {}
             /\ IF hops = <<>> THEN Final(l) = Final(look) ELSE Final(l) \notin Seen(look)
    <3> HIDE DEF l
    <3>1. l.pc = "cname" /\ l.outcome = "none" /\ l.asked = look.asked /\ l.cur = look.cur /\ l.nx = look.nx
          /\ l.cnameAsked = look.cnameAsked
      BY <1>1, <1>2, <2>2 DEF Looks, Common
    <3>2. Common(l)
      BY <1>2, <2>2, <3>1 DEF Common
    <3>3. \A n \in l.cnameAsked : <<n, "CNAME">> \in queries'
      BY <1>2, <1>3, <3>1
    <3>4. CASE Final(l) # Final(look)
      <4>1. look' = Round(l)
        BY <2>1, <3>1, <3>4
      <4> QED
        BY <3>2, <3>3, <4>1, RoundLives DEF Stands
    <3>5. CASE Final(l) = Final(look)
      <4>1. look' = Settle(l)
        BY <2>1, <3>1, <3>5
      <4>2. <<Final(l), "CNAME">> \in queries'
        BY <1>3, <3>5
      <4>3. ASSUME ~l.nx, Final(l) \in l.asked PROVE <<Final(l), "AAAA">> \in queries'
        <5>1. Final(l) = look.cur /\ ~look.nx
          BY <3>1, <3>2, <4>3 DEF Common
        <5> QED
          BY <1>2, <1>3, <5>1
      <4> QED
        BY <3>2, <3>3, <4>1, <4>2, <4>3, Settles
    <3> QED
      BY <3>4, <3>5
  <2>3. CASE l.pc = "done" /\ l.outcome \in {"loop", "error", "excluded"}
    BY <2>1, <2>3 DEF Stands, Absence
  <2> QED
    BY <1>1, <1>2, <2>2, <2>3, Extends
<1>7. Stands(look', queries')
  BY <1>5, <1>6 DEF AskCNAME
<1> QED
  BY <1>4, <1>7 DEF LookIInv

\* A lookup is admitted for a control or a name under the root no exclude covers.
LEMMA ResolveStep == ASSUME LookIInv, Resolve PROVE LookIInv'
<1>1. look = Idle /\ ExcludedNeverAsked /\ queries' = queries
  BY DEF LookIInv, Stands, Live, Resolve
<1>2. PICK n \in Names :
          look' = IF n \in Controls \/ (n \in InRoot /\ n \notin Excluded)
                  THEN Round([Idle EXCEPT !.name = n])
                  ELSE [Idle EXCEPT !.pc = "done", !.name = n, !.outcome = "not_sent"]
  BY DEF Resolve
<1>3. CASE n \in Controls \/ (n \in InRoot /\ n \notin Excluded)
  <2> DEFINE l == [Idle EXCEPT !.name = n]
  <2>1. Idle \in Looks /\ Idle.chain = <<>> /\ Idle.outcome = "none" /\ Idle.asked = {} /\ Idle.cnameAsked = {}
    <3>1. Bad \in Labels /\ <<>> \in Seq(Labels) /\ {} \in SUBSET Labels
      BY DEF Labels
    <3> QED
      BY <3>1 DEF Idle, Looks
  <2>2. n \in Labels /\ Bad \in Labels /\ n \notin Excluded
    BY <1>3, DnsAssumption DEF DnsAssumption, Labels
  <2>3. look' = Round(l)
    BY <1>2, <1>3
  <2>4. l \in Looks /\ l.outcome = "none" /\ l.chain = <<>> /\ l.name = n /\ l.asked = {} /\ l.cnameAsked = {}
    BY <2>1, <2>2 DEF Looks
  <2> HIDE DEF l
  <2>5. Seen(l) = {n}
    BY <2>4 DEF Seen, ToSet
  <2>6. Common(l)
    BY <2>2, <2>4, <2>5 DEF Common
  <2>7. Live(Round(l), queries)
    BY <2>4, <2>6, RoundLives
  <2> QED
    BY <1>1, <2>3, <2>7 DEF LookIInv, Stands, ExcludedNeverAsked
<1>4. CASE ~(n \in Controls \/ (n \in InRoot /\ n \notin Excluded))
  BY <1>1, <1>2, <1>4 DEF Idle, LookIInv, Stands, Absence, ExcludedNeverAsked
<1> QED
  BY <1>3, <1>4

-----------------------------------------------------------------------------
(* The DNS client: the names an answer points at.                          *)

PointedReads == [eval : InRoot, targets : Seq(Vias), followed : SUBSET Nat, sent : SUBSET Nat]
SpfIInv ==
    /\ pointed \in Seq(PointedReads) /\ lookups \in [InRoot -> 0..MaxSPFLookups]
    /\ \A r \in DOMAIN pointed : pointed[r].sent \subseteq pointed[r].followed
    /\ \A e \in InRoot : IsFiniteSet(SpfReads(e)) /\ Cardinality(SpfReads(e)) <= lookups[e]

\* An answer read adds no read to any evaluation.
LEMMA RecordsStep == ASSUME SpfIInv, ReadRecords PROVE SpfIInv'
<1>1. PICK n \in InRoot, targets \in TargetLists :
          pointed' = Append(pointed, [eval |-> EvalOf(n), targets |-> targets, followed |-> {}, sent |-> {}])
  BY DEF ReadRecords
<1> DEFINE p == [eval |-> n, targets |-> targets, followed |-> {}, sent |-> {}]
<1>2. p \in PointedReads /\ p.sent = {} /\ pointed' = Append(pointed, p) /\ lookups' = lookups
  BY <1>1, DnsAssumption DEF DnsAssumption, PointedReads, EvalOf, ReadRecords
<1> HIDE DEF p
<1>3. /\ pointed' \in Seq(PointedReads) /\ DOMAIN pointed = 1..Len(pointed) /\ DOMAIN pointed' = 1..(Len(pointed) + 1)
      /\ pointed'[Len(pointed) + 1] = p /\ \A r \in 1..Len(pointed) : pointed'[r] = pointed[r]
      /\ Len(pointed) \in Nat
  BY <1>2 DEF SpfIInv
<1>4. ASSUME NEW e \in InRoot PROVE SpfReads(e)' \subseteq SpfReads(e)
  <2> SUFFICES ASSUME NEW x \in SpfReads(e)' PROVE x \in SpfReads(e)
    OBVIOUS
  <2>1. PICK r \in DOMAIN pointed' :
            /\ pointed'[r].eval = e
            /\ x \in {<<r, i>> : i \in {j \in pointed'[r].sent : pointed'[r].targets[j] # "mx"}}
    BY DEF SpfReads
  <2>2. r \in 1..Len(pointed) /\ pointed'[r] = pointed[r]
    BY <1>2, <1>3, <2>1
  <2> QED
    BY <1>3, <2>1, <2>2 DEF SpfReads
<1>5. \A e \in InRoot : IsFiniteSet(SpfReads(e)') /\ Cardinality(SpfReads(e)') <= lookups[e]
  <2> TAKE e \in InRoot
  <2>1. IsFiniteSet(SpfReads(e)) /\ Cardinality(SpfReads(e)) <= lookups[e] /\ lookups[e] \in Nat
    BY DnsAssumption DEF SpfIInv, DnsAssumption
  <2>2. IsFiniteSet(SpfReads(e)') /\ Cardinality(SpfReads(e)') <= Cardinality(SpfReads(e))
    BY <1>4, <2>1, FS_Subset
  <2>3. Cardinality(SpfReads(e)) \in Nat /\ Cardinality(SpfReads(e)') \in Nat
    BY <2>1, <2>2, FS_CardinalityType
  <2> QED
    BY <2>1, <2>2, <2>3
<1>6. \A r \in DOMAIN pointed' : pointed'[r].sent \subseteq pointed'[r].followed
  BY <1>2, <1>3 DEF SpfIInv
<1> QED
  BY <1>2, <1>3, <1>5, <1>6 DEF SpfIInv

\* A followed target adds at most itself, and an SPF one was charged.
LEMMA FollowStep == ASSUME SpfIInv, FollowTarget PROVE SpfIInv'
<1>1. PICK r \in DOMAIN pointed : \E i \in DOMAIN pointed[r].targets \ pointed[r].followed, covered \in BOOLEAN :
        LET p == pointed[r]
            q == [pointed EXCEPT ![r].followed = @ \cup {i}, ![r].sent = IF covered THEN @ ELSE @ \cup {i}]
        IN  /\ WithinBudget(p, i)
            /\ lookups' = IF p.targets[i] = "mx" THEN lookups ELSE [lookups EXCEPT ![p.eval] = @ + 1]
            /\ IF covered \/ p.targets[i] = "mx" \/ Len(pointed) = MaxReads THEN pointed' = q
               ELSE \E targets \in TargetLists :
                      pointed' = Append(q, [eval |-> p.eval, targets |-> targets, followed |-> {}, sent |-> {}])
            /\ UNCHANGED <<look, queries>>
  BY DEF FollowTarget
<1> DEFINE p == pointed[r]
<1>2. PICK i \in DOMAIN p.targets \ p.followed, covered \in BOOLEAN :
        LET q == [pointed EXCEPT ![r].followed = @ \cup {i}, ![r].sent = IF covered THEN @ ELSE @ \cup {i}]
        IN  /\ WithinBudget(p, i)
            /\ lookups' = IF p.targets[i] = "mx" THEN lookups ELSE [lookups EXCEPT ![p.eval] = @ + 1]
            /\ IF covered \/ p.targets[i] = "mx" \/ Len(pointed) = MaxReads THEN pointed' = q
               ELSE \E targets \in TargetLists :
                      pointed' = Append(q, [eval |-> p.eval, targets |-> targets, followed |-> {}, sent |-> {}])
  BY <1>1
<1>3. /\ pointed \in Seq(PointedReads) /\ DOMAIN pointed = 1..Len(pointed) /\ r \in 1..Len(pointed) /\ Len(pointed) \in Nat
      /\ p \in PointedReads /\ p.eval \in InRoot /\ p.sent \subseteq p.followed /\ i \in Nat
      /\ lookups \in [InRoot -> 0..MaxSPFLookups] /\ MaxSPFLookups \in Nat
  <2>1. pointed \in Seq(PointedReads) /\ r \in 1..Len(pointed)
    BY DEF SpfIInv
  <2>2. p \in PointedReads
    BY <2>1
  <2>3. p.eval \in InRoot /\ p.targets \in Seq(Vias)
    BY <2>2 DEF PointedReads
  <2>4. i \in Nat
    BY <2>3
  <2> QED
    BY <2>1, <2>2, <2>3, <2>4, DnsAssumption DEF SpfIInv, DnsAssumption
<1> DEFINE followed == p.followed \cup {i}
           sent == IF covered THEN p.sent ELSE p.sent \cup {i}
           s == [p EXCEPT !.followed = followed, !.sent = sent]
           q == [pointed EXCEPT ![r] = s]
<1>4. q = [pointed EXCEPT ![r].followed = @ \cup {i}, ![r].sent = IF covered THEN @ ELSE @ \cup {i}]
  BY <1>3 DEF PointedReads
<1>5. /\ s \in PointedReads /\ s.eval = p.eval /\ s.targets = p.targets /\ s.sent = sent /\ s.followed = followed
      /\ s.sent \subseteq s.followed
  <2>1. followed \in SUBSET Nat /\ sent \in SUBSET Nat /\ sent \subseteq followed
    BY <1>3 DEF PointedReads
  <2> HIDE DEF followed, sent, p
  <2> QED
    BY <1>3, <2>1 DEF PointedReads
<1> HIDE DEF s
<1>6. /\ q \in Seq(PointedReads) /\ Len(q) = Len(pointed) /\ q[r] = s
      /\ \A k \in 1..Len(pointed) : k # r => q[k] = pointed[k]
  BY <1>3, <1>5
<1> HIDE DEF q
<1>7. PICK fresh \in Seq(PointedReads) :
        /\ pointed' = q \o fresh
        /\ fresh = <<>> \/ (Len(fresh) = 1 /\ fresh[1].sent = {})
  <2>1. CASE pointed' = q
    <3>1. q = q \o <<>> /\ <<>> \in Seq(PointedReads)
      BY <1>6
    <3> QED
      BY <2>1, <3>1
  <2>2. ASSUME NEW targets \in TargetLists,
               pointed' = Append(q, [eval |-> p.eval, targets |-> targets, followed |-> {}, sent |-> {}])
        PROVE  \E fresh \in Seq(PointedReads) :
                  /\ pointed' = q \o fresh
                  /\ fresh = <<>> \/ (Len(fresh) = 1 /\ fresh[1].sent = {})
    <3> DEFINE new == [eval |-> p.eval, targets |-> targets, followed |-> {}, sent |-> {}]
    <3>1. new \in PointedReads /\ new.sent = {}
      BY <1>3, DnsAssumption DEF PointedReads, DnsAssumption
    <3>2. pointed' = Append(q, new)
      BY <2>2
    <3> HIDE DEF new
    <3>3. Append(q, new) = q \o <<new>> /\ <<new>> \in Seq(PointedReads) /\ Len(<<new>>) = 1 /\ <<new>>[1] = new
      BY <1>6, <3>1
    <3> QED
      BY <3>1, <3>2, <3>3
  <2> QED
    BY <1>2, <1>4, <2>1, <2>2
<1>8. /\ pointed' \in Seq(PointedReads) /\ DOMAIN pointed' = 1..(Len(pointed) + Len(fresh)) /\ Len(fresh) \in {0, 1}
      /\ \A k \in 1..Len(pointed) : pointed'[k] = q[k]
      /\ Len(fresh) = 1 => pointed'[Len(pointed) + 1] = fresh[1]
  <2> DEFINE all == q \o fresh
  <2>1. q \in Seq(PointedReads) /\ fresh \in Seq(PointedReads) /\ Len(q) = Len(pointed)
    BY <1>6, <1>7
  <2>2. /\ all \in Seq(PointedReads) /\ Len(all) = Len(q) + Len(fresh) /\ DOMAIN all = 1..Len(all)
        /\ \A k \in 1..Len(q) : all[k] = q[k]
        /\ \A k \in 1..Len(fresh) : all[Len(q) + k] = fresh[k]
    <3>1. all \in Seq(PointedReads)
      BY <2>1
    <3>2. Len(all) = Len(q) + Len(fresh)
      BY <2>1
    <3>3. DOMAIN all = 1..Len(all)
      BY <2>1, <3>1
    <3>4. \A k \in 1..Len(q) : all[k] = q[k]
      BY <2>1, Joined
    <3>5. \A k \in 1..Len(fresh) : all[Len(q) + k] = fresh[k]
      BY <2>1, Joined
    <3> QED
      BY <3>1, <3>2, <3>3, <3>4, <3>5
  <2> HIDE DEF all
  <2>3. Len(fresh) = 1 => all[Len(pointed) + 1] = fresh[1]
    BY <2>1, <2>2
  <2>4. Len(fresh) \in {0, 1}
    BY <1>7
  <2>5. pointed' = all
    BY <1>7 DEF all
  <2> QED
    BY <2>1, <2>2, <2>3, <2>4, <2>5
<1>9. \A k \in DOMAIN pointed' : pointed'[k].sent \subseteq pointed'[k].followed
  <2> TAKE k \in DOMAIN pointed'
  <2>1. CASE k = r
    BY <1>3, <1>5, <1>6, <1>8, <2>1
  <2>2. CASE k \in 1..Len(pointed) /\ k # r
    BY <1>3, <1>6, <1>8, <2>2 DEF SpfIInv
  <2>3. CASE k \notin 1..Len(pointed)
    BY <1>3, <1>7, <1>8, <2>3
  <2> QED
    BY <2>1, <2>2, <2>3
<1>10. ASSUME NEW e \in InRoot
       PROVE  SpfReads(e)' \subseteq IF e = p.eval /\ p.targets[i] # "mx" THEN SpfReads(e) \cup {<<r, i>>} ELSE SpfReads(e)
  <2> SUFFICES ASSUME NEW x \in SpfReads(e)'
               PROVE  x \in SpfReads(e) \/ (x = <<r, i>> /\ e = p.eval /\ p.targets[i] # "mx")
    OBVIOUS
  <2>1. PICK k \in DOMAIN pointed' :
            /\ pointed'[k].eval = e
            /\ x \in {<<k, j>> : j \in {h \in pointed'[k].sent : pointed'[k].targets[h] # "mx"}}
    BY DEF SpfReads
  <2>2. PICK j \in pointed'[k].sent : x = <<k, j>> /\ pointed'[k].targets[j] # "mx"
    BY <2>1
  <2>3. k \in 1..Len(pointed)
    BY <1>3, <1>7, <1>8, <2>2
  <2>4. CASE k # r
    <3>1. pointed'[k] = pointed[k]
      BY <1>6, <1>8, <2>3, <2>4
    <3> QED
      BY <1>3, <2>1, <2>2, <2>3, <3>1 DEF SpfReads
  <2>5. CASE k = r
    <3>1. pointed'[k] = s
      BY <1>6, <1>8, <2>3, <2>5
    <3>2. e = p.eval /\ p.targets[j] # "mx" /\ (j \in p.sent \/ j = i)
      BY <1>5, <2>1, <2>2, <3>1
    <3> QED
      BY <1>3, <2>2, <2>5, <3>2 DEF SpfReads
  <2> QED
    BY <2>4, <2>5
<1>11. /\ lookups' \in [InRoot -> 0..MaxSPFLookups]
       /\ \A e \in InRoot : lookups'[e] = IF e = p.eval /\ p.targets[i] # "mx" THEN lookups[e] + 1 ELSE lookups[e]
  <2>1. CASE p.targets[i] = "mx"
    BY <1>2, <1>3, <2>1
  <2>2. CASE p.targets[i] # "mx"
    <3>1. lookups[p.eval] < MaxSPFLookups /\ lookups' = [lookups EXCEPT ![p.eval] = @ + 1]
      BY <1>2, <2>2 DEF WithinBudget
    <3> HIDE DEF p
    <3> QED
      BY <1>3, <2>2, <3>1
  <2> QED
    BY <2>1, <2>2
<1>12. ASSUME NEW e \in InRoot
       PROVE  IsFiniteSet(SpfReads(e)') /\ Cardinality(SpfReads(e)') <= lookups'[e]
  <2> DEFINE S == SpfReads(e)
             T == IF e = p.eval /\ p.targets[i] # "mx" THEN S \cup {<<r, i>>} ELSE S
  <2>1. IsFiniteSet(S) /\ Cardinality(S) <= lookups[e] /\ lookups[e] \in Nat /\ Cardinality(S) \in Nat
    BY <1>3, FS_CardinalityType DEF SpfIInv
  <2>2. IsFiniteSet(T) /\ Cardinality(T) <= lookups'[e]
    <3> HIDE DEF S
    <3>1. IsFiniteSet(S \cup {<<r, i>>}) /\ Cardinality(S \cup {<<r, i>>}) <= Cardinality(S) + 1
          /\ Cardinality(S \cup {<<r, i>>}) \in Nat
      <4> DEFINE x == <<r, i>>
      <4> HIDE DEF x
      <4>1. /\ IsFiniteSet(S \cup {x})
            /\ Cardinality(S \cup {x}) = IF x \in S THEN Cardinality(S) ELSE Cardinality(S) + 1
        BY <2>1, FS_AddElement
      <4>2. Cardinality(S \cup {x}) <= Cardinality(S) + 1 /\ Cardinality(S \cup {x}) \in Nat
        BY <2>1, <4>1
      <4> QED
        BY <4>1, <4>2 DEF x
    <3> QED
      BY <1>11, <2>1, <3>1
  <2>3. SpfReads(e)' \subseteq T
    BY <1>10
  <2> HIDE DEF T
  <2>4. IsFiniteSet(SpfReads(e)') /\ Cardinality(SpfReads(e)') <= Cardinality(T)
    BY <2>2, <2>3, FS_Subset
  <2>5. Cardinality(SpfReads(e)') \in Nat /\ Cardinality(T) \in Nat /\ lookups'[e] \in Nat
    BY <1>3, <1>11, <2>2, <2>4, FS_CardinalityType
  <2> QED
    BY <2>2, <2>4, <2>5
<1> QED
  BY <1>8, <1>9, <1>11, <1>12 DEF SpfIInv

DnsIInv == LookIInv /\ SpfIInv

\* An absence was asked for, no excluded name was asked, and SPF's limit holds
\* over a whole evaluation: for any names, answers and targets (dns.go Resolve,
\* chase, extend, FollowTarget).
THEOREM LookupsAlwaysHold == DnsSpec => []LookupsHold
<1>1. DnsInit => DnsIInv
  <2> SUFFICES ASSUME DnsInit PROVE DnsIInv
    OBVIOUS
  <2>1. LookIInv
    BY DEF DnsInit, LookIInv, ExcludedNeverAsked
  <2>2. \A e : SpfReads(e) = {}
    BY DEF DnsInit, SpfReads
  <2>3. pointed = <<>> /\ <<>> \in Seq(PointedReads) /\ DOMAIN pointed = {}
    BY DEF DnsInit
  <2>4. lookups \in [InRoot -> 0..MaxSPFLookups] /\ \A e \in InRoot : lookups[e] = 0
    BY DnsAssumption DEF DnsInit, DnsAssumption
  <2>5. IsFiniteSet({}) /\ Cardinality({}) = 0
    BY FS_EmptySet
  <2>6. \A e \in InRoot : IsFiniteSet(SpfReads(e)) /\ Cardinality(SpfReads(e)) <= lookups[e]
    BY <2>2, <2>4, <2>5
  <2>7. SpfIInv
    BY <2>3, <2>4, <2>6 DEF SpfIInv
  <2> QED
    BY <2>1, <2>7 DEF DnsIInv
<1>2. ASSUME DnsIInv, LookupNext PROVE DnsIInv'
  <2>1. LookIInv'
    BY <1>2, ResolveStep, AddressStep, CnameStep DEF DnsIInv, LookupNext
  <2>2. UNCHANGED <<pointed, lookups>>
    BY <1>2 DEF LookupNext, Resolve, AskAddress, AskCNAME
  <2> QED
    BY <1>2, <2>1, <2>2 DEF DnsIInv, SpfIInv, SpfReads
<1>3. ASSUME DnsIInv, FollowNext PROVE DnsIInv'
  <2>1. SpfIInv'
    BY <1>3, RecordsStep, FollowStep DEF DnsIInv, FollowNext
  <2>2. UNCHANGED <<look, queries>>
    BY <1>3 DEF FollowNext, ReadRecords, FollowTarget
  <2> QED
    BY <1>3, <2>1, <2>2 DEF DnsIInv, LookIInv, ExcludedNeverAsked, Stands, Live, Absence
<1>4. ASSUME DnsIInv, UNCHANGED dnsVars PROVE DnsIInv'
  BY <1>4 DEF dnsVars, DnsIInv, LookIInv, ExcludedNeverAsked, Stands, Live, Absence, SpfIInv, SpfReads
<1>5. DnsIInv => LookupsHold
  <2> SUFFICES ASSUME DnsIInv PROVE LookupsHold
    OBVIOUS
  <2>1. AbsenceAsked
    BY DEF DnsIInv, LookIInv, Stands, Live, Common, Absence, AbsenceAsked, Idle
  <2>2. SpfBudgetHolds
    <3> SUFFICES ASSUME NEW e \in InRoot PROVE Cardinality(SpfReads(e)) <= MaxSPFLookups
      BY DEF SpfBudgetHolds
    <3>1. IsFiniteSet(SpfReads(e)) /\ Cardinality(SpfReads(e)) <= lookups[e] /\ lookups[e] \in 0..MaxSPFLookups
      BY DEF DnsIInv, SpfIInv
    <3> QED
      BY <3>1, FS_CardinalityType, DnsAssumption DEF DnsAssumption
  <2> QED
    BY <2>1, <2>2 DEF LookupsHold, DnsIInv, LookIInv
<1>6. DnsIInv /\ [LookupNext \/ FollowNext]_dnsVars => DnsIInv'
  BY <1>2, <1>3, <1>4
<1> QED
  BY <1>1, <1>5, <1>6, PTL DEF DnsSpec
-----------------------------------------------------------------------------
(* The excluded users.                                                     *)

ExclusionSpec == ExclusionInit /\ [][ExclusionNext]_exclusionVars

UserSets == [known : BOOLEAN, excluded : SUBSET Keys, seen : SUBSET Keys,
             domains : SUBSET ({Tenant} \cup {KeyDomain[k] : k \in Keys})]

\* A set is what the rows it was built from make it.
BuiltFrom(set, who) ==
    /\ set.seen = Returned(who)
    /\ set.domains = {Tenant} \cup DomainsOf(Returned(who))
    /\ set.excluded = KeysOf({u \in who : Dropped(u)})

\* The copies carried from page to page are of the rows of their own listing,
\* and so is the tenant's set once it is known.
ExclusionIInv ==
    /\ \A p \in pages : p.users \in UserSets /\ p.rows \subseteq Accounts /\ BuiltFrom(p.users, p.rows)
    /\ users \in UserSets /\ saw \subseteq Accounts
    /\ users.known => BuiltFrom(users, saw)

\* One page more: the copy made of the set of the page before, from its rows
\* and the page's.
LEMMA PageBuilds ==
    ASSUME NEW set \in UserSets, NEW who \in SUBSET Accounts, NEW rows \in SUBSET Accounts, BuiltFrom(set, who)
    PROVE  AddRows(set, rows) \in UserSets /\ BuiltFrom(AddRows(set, rows), who \cup rows)
<1>1. /\ AddRows(set, rows).seen = set.seen \cup Returned(rows)
      /\ AddRows(set, rows).domains = set.domains \cup DomainsOf(Returned(rows))
      /\ AddRows(set, rows).excluded = set.excluded \cup KeysOf({u \in rows : Dropped(u)})
  BY DEF AddRows, UserSets
<1>2. Returned(who) \cup Returned(rows) = Returned(who \cup rows)
  BY DEF Returned
<1>3. DomainsOf(Returned(who)) \cup DomainsOf(Returned(rows)) = DomainsOf(Returned(who \cup rows))
  BY <1>2 DEF DomainsOf
<1>4. KeysOf({u \in who : Dropped(u)}) \cup KeysOf({u \in rows : Dropped(u)}) = KeysOf({u \in who \cup rows : Dropped(u)})
  BY DEF KeysOf, Returned
<1>5. BuiltFrom(AddRows(set, rows), who \cup rows)
  BY <1>1, <1>2, <1>3, <1>4 DEF BuiltFrom
<1>6. Returned(rows) \subseteq Keys /\ KeysOf({u \in rows : Dropped(u)}) \subseteq Keys
  BY ExclusionAssumption DEF ExclusionAssumption, Returned, KeysOf
<1>7. DomainsOf(Returned(rows)) \subseteq {KeyDomain[k] : k \in Keys}
  BY <1>6 DEF DomainsOf
<1>8. AddRows(set, rows) \in UserSets
  BY <1>6, <1>7 DEF AddRows, UserSets
<1> QED
  BY <1>5, <1>8

\* Nothing has been read of a listing that has not begun.
LEMMA NothingBuilt == NewUserSet \in UserSets /\ ~NewUserSet.known /\ BuiltFrom(NewUserSet, {})
<1>1. Returned({}) = {} /\ KeysOf({u \in {} : Dropped(u)}) = {} /\ DomainsOf({}) = {}
  BY DEF Returned, KeysOf, DomainsOf
<1> QED
  BY <1>1 DEF NewUserSet, UserSets, BuiltFrom

LEMMA UsersPageStep ==
    ASSUME ExclusionIInv, NEW prev \in pages \cup {FirstPage}, NEW rows \in SUBSET Accounts,
           NEW next \in {"none", "unreadable", "cursor"}, UsersPage(prev, rows, next)
    PROVE  ExclusionIInv'
<1> DEFINE after == [n |-> prev.n + 1, items |-> prev.items + Cardinality(rows), users |-> Building(prev, rows),
                     rows |-> prev.rows \cup rows]
<1>1. prev.users \in UserSets /\ prev.rows \in SUBSET Accounts /\ BuiltFrom(prev.users, prev.rows)
  BY NothingBuilt DEF ExclusionIInv, FirstPage
<1>2. Building(prev, rows) \in UserSets /\ BuiltFrom(Building(prev, rows), prev.rows \cup rows)
  BY <1>1, PageBuilds DEF Building
<1>3. after.users = Building(prev, rows) /\ after.rows = prev.rows \cup rows /\ after.rows \subseteq Accounts
  BY <1>1
<1> HIDE DEF after
<1>4. /\ pages' \subseteq pages \cup {after} /\ UNCHANGED unitExcluded
      /\ \/ users' = [after.users EXCEPT !.known = TRUE] /\ saw' = after.rows
         \/ users' = users /\ saw' = saw
  BY DEF UsersPage, after
<1>5. (\A p \in pages : p.users \in UserSets /\ p.rows \subseteq Accounts /\ BuiltFrom(p.users, p.rows))'
  <2> SUFFICES ASSUME NEW p \in pages' PROVE (p.users \in UserSets /\ p.rows \subseteq Accounts /\ BuiltFrom(p.users, p.rows))'
    OBVIOUS
  <2>1. p.users \in UserSets /\ p.rows \subseteq Accounts /\ BuiltFrom(p.users, p.rows)
    BY <1>2, <1>3, <1>4 DEF ExclusionIInv
  <2> QED
    BY <1>4, <2>1 DEF BuiltFrom, Dropped
<1>6. users' \in UserSets /\ saw' \subseteq Accounts
  BY <1>2, <1>3, <1>4 DEF ExclusionIInv, UserSets
<1>7. CASE users' = [after.users EXCEPT !.known = TRUE] /\ saw' = after.rows
  <2>1. users'.seen = after.users.seen /\ users'.domains = after.users.domains /\ users'.excluded = after.users.excluded
    BY <1>2, <1>3, <1>7 DEF UserSets
  <2>2. BuiltFrom(users, saw)'
    BY <1>2, <1>3, <1>4, <1>7, <2>1 DEF BuiltFrom, Dropped
  <2> QED
    BY <1>5, <1>6, <2>2 DEF ExclusionIInv
<1>8. CASE users' = users /\ saw' = saw
  BY <1>4, <1>5, <1>6, <1>8 DEF ExclusionIInv, BuiltFrom, Dropped
<1> QED
  BY <1>4, <1>7, <1>8

\* From the first page to the last, whatever listings are read in between.
LEMMA ExclusionInvariant == ExclusionSpec => []ExclusionIInv
<1>1. ExclusionInit => ExclusionIInv
  BY NothingBuilt DEF ExclusionInit, ExclusionIInv
<1>2. ExclusionIInv /\ [ExclusionNext]_exclusionVars => ExclusionIInv'
  <2> SUFFICES ASSUME ExclusionIInv, [ExclusionNext]_exclusionVars PROVE ExclusionIInv'
    OBVIOUS
  <2>1. CASE UNCHANGED <<unitExcluded, pages, users, saw>>
    BY <2>1 DEF ExclusionIInv, BuiltFrom, Dropped
  <2>2. ASSUME NEW k, ReferencesRead(k) PROVE UNCHANGED <<unitExcluded, pages, users, saw>>
    BY <2>2 DEF ReferencesRead
  <2>3. UNCHANGED exclusionVars => UNCHANGED <<unitExcluded, pages, users, saw>>
    BY DEF exclusionVars
  <2> QED
    BY <2>1, <2>2, <2>3, UsersPageStep DEF ExclusionNext
<1> QED
  BY <1>1, <1>2, PTL DEF ExclusionSpec

\* What a read naming users stores is never about an excluded user, for any
\* accounts, keys and limits and over any order of the pages of any listings
\* (pipeline.go userSet, filter, pageAfter; admit.go admitUsers).
THEOREM ExcludedAlwaysUnseen == ExclusionSpec => ExcludedUnseen
<1> DEFINE Unseen ==
      \A k \in stored' \ stored, u \in {a \in Accounts : Hidden(a)} :
          IF u \in saw THEN k \notin Ids[u] \cup Contacts[u]
          ELSE k \in Ids[u] \ Returned(saw) => KeyDomain[k] \notin {"number", Tenant} \cup DomainsOf(Returned(saw))
<1>1. ASSUME ExclusionIInv, NEW k, ReferencesRead(k) PROVE Unseen
  <2>1. stored' \ stored \subseteq {k} /\ UsersKnown /\ Allows(k)
    BY <1>1 DEF ReferencesRead
  <2> SUFFICES ASSUME NEW u \in Accounts, Hidden(u)
      PROVE  IF u \in saw THEN k \notin Ids[u] \cup Contacts[u]
             ELSE k \in Ids[u] \ Returned(saw) => KeyDomain[k] \notin {"number", Tenant} \cup DomainsOf(Returned(saw))
    BY <2>1
  <2>2. users.known /\ BuiltFrom(users, saw) /\ k \notin users.excluded
        /\ (k \in users.seen \/ KeyDomain[k] \notin users.domains \cup {"number"})
    BY <1>1, <2>1 DEF ExclusionIInv, UsersKnown, Hidden, Allows
  <2>3. Dropped(u)
    BY ExclusionAssumption DEF ExclusionAssumption, Hidden, Dropped
  <2>4. u \in saw => Ids[u] \cup Contacts[u] \subseteq KeysOf({v \in saw : Dropped(v)})
    BY <2>3 DEF KeysOf, Returned
  <2> QED
    BY <2>2, <2>4 DEF BuiltFrom
<1>2. ExclusionIInv /\ [ExclusionNext]_exclusionVars => [Unseen]_exclusionVars
  <2>1. ASSUME stored' = stored PROVE Unseen
    BY <2>1
  <2>2. ASSUME NEW p, NEW rows, NEW next, UsersPage(p, rows, next) PROVE stored' = stored
    BY <2>2 DEF UsersPage
  <2> HIDE DEF Unseen
  <2> QED
    BY <1>1, <2>1, <2>2 DEF ExclusionNext
<1> QED
  BY <1>2, ExclusionInvariant, PTL DEF ExclusionSpec, ExcludedUnseen

-----------------------------------------------------------------------------
(* The interview: the facts a file holds, what one block does to them, what *)
(* a whole answer does, and so what is written.                            *)

Asked == ToSet(Questions)

\* The facts of an earlier block that a block of question q replaces.
Lost(q, b, x) ==
    \/ q = "admins" /\ x[1] = "admins" /\ x[2] = b.where
    \/ q = "mfa_sign_in" /\ x[1] = "signIn" /\ x[2] = b.where
    \/ q = "deploys" /\ x[1] \in {"repo", "deploys"} /\ x[2] = b.name
    \/ q = "reach" /\ x[1] = "host" /\ x[2] = b.name
    \/ q = "context" /\ x[1] = "exposure" /\ x[2] = b.name

\* What was said becomes what is said: the block's facts are in it, nothing
\* else is new, and what is gone was the same question's.
Moves(old, new, B, q, b) == new \subseteq old \cup B /\ B \subseteq new /\ \A x \in old : x \in new \/ Lost(q, b, x)

\* One field of a file is replaced by another value.
Edits(f, g, k) == DOMAIN g = DOMAIN f /\ k \in DOMAIN f /\ \A l \in DOMAIN f \ {k} : g[l] = f[l]

\* An edit of one field moves the facts of the file as it moves that field's.
LEMMA FieldStep ==
    ASSUME NEW f, NEW g, NEW k, Edits(f, g, k), NEW B, NEW q, NEW b,
           Moves(FieldSays(k, f[k]), FieldSays(k, g[k]), B, q, b)
    PROVE  Moves(Facts(f), Facts(g), B, q, b)
<1>0. /\ FieldSays(k, g[k]) \subseteq FieldSays(k, f[k]) \cup B /\ B \subseteq FieldSays(k, g[k])
      /\ \A x \in FieldSays(k, f[k]) : x \in FieldSays(k, g[k]) \/ Lost(q, b, x)
  BY DEF Moves
<1>1. DOMAIN g = DOMAIN f /\ k \in DOMAIN f /\ \A l \in DOMAIN f \ {k} : g[l] = f[l]
  BY DEF Edits
<1>2. \A x : x \in Facts(g) <=> \E l \in DOMAIN f : x \in FieldSays(l, g[l])
  BY <1>1, Zenon DEF Facts
<1>3. \A x : x \in Facts(f) <=> \E l \in DOMAIN f : x \in FieldSays(l, f[l])
  BY Zenon DEF Facts
<1>4. Facts(g) \subseteq Facts(f) \cup B
  <2> SUFFICES ASSUME NEW x \in Facts(g) PROVE x \in Facts(f) \cup B
    OBVIOUS
  <2>1. PICK l \in DOMAIN f : x \in FieldSays(l, g[l])
    BY <1>2
  <2>2. CASE l = k
    BY <2>1, <2>2, <1>0, <1>1, <1>3
  <2>3. CASE l # k
    BY <2>1, <2>3, <1>1, <1>3
  <2> QED
    BY <2>2, <2>3
<1>5. ASSUME NEW x \in Facts(f) PROVE x \in Facts(g) \/ Lost(q, b, x)
  <2>1. PICK l \in DOMAIN f : x \in FieldSays(l, f[l])
    BY <1>3
  <2>2. CASE l = k
    BY <2>1, <2>2, <1>0, <1>1, <1>2
  <2>3. CASE l # k
    BY <2>1, <2>3, <1>1, <1>2
  <2> QED
    BY <2>2, <2>3
<1>6. B \subseteq Facts(g)
  BY <1>0, <1>1, <1>2
<1> QED
  BY <1>4, <1>5, <1>6 DEF Moves

\* What one block does to the file.
BlockHolds(f, g, q, b) ==
    IsFile(g) /\ DOMAIN f.mfa \subseteq DOMAIN g.mfa /\ Moves(Facts(f), Facts(g), BlockSays(q, b), q, b)

\* A value a field may have.
Fits(k, v) ==
    /\ k = "roots" => v \in Seq(Places)
    /\ k = "notUsed" => v \in Seq(STRING)
    /\ k = "mfa" => v \in Seq(MFAEntries)
    /\ k = "people" => \A h \in DOMAIN v : v[h] \in Persons
    /\ k = "assets" => \A n \in DOMAIN v : v[n] \in Assets

\* A field replaced by a value it may have leaves a file, no MFA entry lost.
LEMMA FileStays ==
    ASSUME NEW f, IsFile(f), NEW g, NEW k, Edits(f, g, k), Fits(k, g[k]),
           k = "mfa" => DOMAIN f[k] \subseteq DOMAIN g[k]
    PROVE  IsFile(g) /\ DOMAIN f.mfa \subseteq DOMAIN g.mfa
<1>1. \A l \in {"roots", "notUsed", "mfa", "people", "assets"} : l \in DOMAIN f /\ (l # k => g[l] = f[l])
  BY DEF IsFile, Edits
<1>2. g.roots \in Seq(Places) /\ g.notUsed \in Seq(STRING)
  BY <1>1 DEF IsFile, Fits
<1>3. g.mfa \in Seq(MFAEntries) /\ DOMAIN f.mfa \subseteq DOMAIN g.mfa
  BY <1>1 DEF IsFile, Fits
<1>4. \A h \in DOMAIN g.people : g.people[h] \in Persons
  BY <1>1 DEF IsFile, Fits
<1>5. \A n \in DOMAIN g.assets : g.assets[n] \in Assets
  BY <1>1 DEF IsFile, Fits
<1> QED
  BY <1>2, <1>3, <1>4, <1>5 DEF IsFile, Edits

\* An edit of one field that says what the block says is what the block does.
LEMMA OneField ==
    ASSUME NEW f, IsFile(f), NEW g, NEW k, Edits(f, g, k), Fits(k, g[k]),
           k = "mfa" => DOMAIN f[k] \subseteq DOMAIN g[k],
           NEW q, NEW b, Moves(FieldSays(k, f[k]), FieldSays(k, g[k]), BlockSays(q, b), q, b)
    PROVE  BlockHolds(f, g, q, b)
<1>1. IsFile(g) /\ DOMAIN f.mfa \subseteq DOMAIN g.mfa
  BY FileStays
<1>2. Moves(Facts(f), Facts(g), BlockSays(q, b), q, b)
  BY FieldStep
<1> QED
  BY <1>1, <1>2 DEF BlockHolds

\* What one edit says and then another, which takes nothing back.
LEMMA MovesTwice ==
    ASSUME NEW S, NEW T, NEW U, NEW B, NEW C, NEW q, NEW b, NEW p, \A x : ~Lost(p, b, x),
           Moves(S, T, B, q, b), Moves(T, U, C, p, b)
    PROVE  Moves(S, U, B \cup C, q, b)
BY DEF Moves

\* A set of things under one tag is added to.
Plain == {"head", "exclude", "senders", "noMail", "exposed", "restricted", "matters"}
\* What a field of that kind says of one thing more.
LEMMA AddsOne ==
    ASSUME NEW f, IsFile(f), NEW g, NEW k \in Plain, Edits(f, g, k), NEW x, g[k] = f[k] \cup {x}
    PROVE  /\ Fits(k, g[k]) /\ k # "mfa"
           /\ \A q, b : Moves(FieldSays(k, f[k]), FieldSays(k, g[k]), {<<k, x>>}, q, b)
<1>1. \A w : FieldSays(k, w) = {<<k, y>> : y \in w}
  BY DEF FieldSays, Plain
<1>2. FieldSays(k, g[k]) = FieldSays(k, f[k]) \cup {<<k, x>>}
  BY <1>1
<1>3. Fits(k, g[k]) /\ k # "mfa"
  BY DEF Fits, Plain
<1> QED
  BY <1>2, <1>3 DEF Moves

\* A list of things under one tag is added to.
LEMMA AppendSays ==
    ASSUME NEW S, NEW s \in Seq(S), NEW x \in S, NEW k \in {"roots", "notUsed"}
    PROVE  FieldSays(k, Append(s, x)) = FieldSays(k, s) \cup {<<k, x>>}
<1>1. \A w : FieldSays(k, w) = {<<k, y>> : y \in ToSet(w)}
  BY DEF FieldSays
<1>2. ToSet(Append(s, x)) = ToSet(s) \cup {x}
  <2>1. DOMAIN Append(s, x) = DOMAIN s \cup {Len(s) + 1}
    OBVIOUS
  <2>2. \A i \in DOMAIN s : Append(s, x)[i] = s[i]
    OBVIOUS
  <2>3. Append(s, x)[Len(s) + 1] = x
    OBVIOUS
  <2> QED
    BY <2>1, <2>2, <2>3 DEF ToSet
<1> QED
  BY <1>1, <1>2

\* Hence a block that adds one thing to such a field says so and no more.
LEMMA SetSays ==
    ASSUME NEW f, IsFile(f), NEW g, NEW k \in Plain, Edits(f, g, k), NEW x, g[k] = f[k] \cup {x},
           NEW q, NEW b, BlockSays(q, b) = {<<k, x>>}
    PROVE  BlockHolds(f, g, q, b)
<1>1. Fits(k, g[k]) /\ k # "mfa" /\ \A p, c : Moves(FieldSays(k, f[k]), FieldSays(k, g[k]), {<<k, x>>}, p, c)
  BY AddsOne
<1>2. Moves(FieldSays(k, f[k]), FieldSays(k, g[k]), BlockSays(q, b), q, b)
  BY <1>1
<1> QED
  BY <1>1, <1>2, OneField

\* The questions whose blocks add one thing to one set.
LEMMA SimpleSays ==
    ASSUME NEW base, NEW f, IsFile(f), NEW q \in HeadQuestions \cup {"exclude", "mail", "exposed", "restricted"}, NEW b \in Blocks(q)
    PROVE  BlockHolds(f, With(base, f, q, b), q, b)
<1> DEFINE g == With(base, f, q, b)
<1>0. \A k \in Plain : k \in DOMAIN f
  BY DEF IsFile, Plain
<1>1. CASE q \in HeadQuestions
  <2>1. g = [f EXCEPT !.head = @ \cup {q}] /\ BlockSays(q, b) = {<<"head", q>>} /\ "head" \in Plain
    BY <1>1 DEF With, BlockSays, HeadQuestions, Plain
  <2> HIDE DEF g
  <2>2. Edits(f, g, "head") /\ g["head"] = f["head"] \cup {q}
    BY <1>0, <2>1 DEF Edits
  <2> QED
    BY <2>1, <2>2, SetSays DEF g
<1>2. CASE q = "exclude"
  <2>1. g = [f EXCEPT !.exclude = @ \cup {b.place}] /\ BlockSays(q, b) = {<<"exclude", b.place>>} /\ "exclude" \in Plain
    BY <1>2 DEF With, BlockSays, HeadQuestions, Plain
  <2> HIDE DEF g
  <2>2. Edits(f, g, "exclude") /\ g["exclude"] = f["exclude"] \cup {b.place}
    BY <1>0, <2>1 DEF Edits
  <2> QED
    BY <2>1, <2>2, SetSays DEF g
<1>3. CASE q = "mail" /\ b.sends
  <2>1. g = [f EXCEPT !.senders = @ \cup {b.domain}] /\ BlockSays(q, b) = {<<"senders", b.domain>>} /\ "senders" \in Plain
    BY <1>3 DEF With, BlockSays, HeadQuestions, Plain, WithMail
  <2> HIDE DEF g
  <2>2. Edits(f, g, "senders") /\ g["senders"] = f["senders"] \cup {b.domain}
    BY <1>0, <2>1 DEF Edits
  <2> QED
    BY <2>1, <2>2, SetSays DEF g
<1>4. CASE q = "mail" /\ ~b.sends
  <2>1. g = [f EXCEPT !.noMail = @ \cup {b.domain}] /\ BlockSays(q, b) = {<<"noMail", b.domain>>} /\ "noMail" \in Plain
    BY <1>4 DEF With, BlockSays, HeadQuestions, Plain, WithMail
  <2> HIDE DEF g
  <2>2. Edits(f, g, "noMail") /\ g["noMail"] = f["noMail"] \cup {b.domain}
    BY <1>0, <2>1 DEF Edits
  <2> QED
    BY <2>1, <2>2, SetSays DEF g
<1>5. CASE q = "exposed"
  <2>1. g = [f EXCEPT !.exposed = @ \cup {b.url}] /\ BlockSays(q, b) = {<<"exposed", b.url>>} /\ "exposed" \in Plain
    BY <1>5 DEF With, BlockSays, HeadQuestions, Plain
  <2> HIDE DEF g
  <2>2. Edits(f, g, "exposed") /\ g["exposed"] = f["exposed"] \cup {b.url}
    BY <1>0, <2>1 DEF Edits
  <2> QED
    BY <2>1, <2>2, SetSays DEF g
<1>6. CASE q = "restricted"
  <2>1. g = [f EXCEPT !.restricted = @ \cup {b.url}] /\ BlockSays(q, b) = {<<"restricted", b.url>>} /\ "restricted" \in Plain
    BY <1>6 DEF With, BlockSays, HeadQuestions, Plain
  <2> HIDE DEF g
  <2>2. Edits(f, g, "restricted") /\ g["restricted"] = f["restricted"] \cup {b.url}
    BY <1>0, <2>1 DEF Edits
  <2> QED
    BY <2>1, <2>2, SetSays DEF g
<1> QED
  BY <1>1, <1>2, <1>3, <1>4, <1>5, <1>6

\* The questions whose blocks add one thing to a list.
LEMMA ListSays ==
    ASSUME NEW base, NEW f, IsFile(f), NEW q \in {"roots", "not_used"}, NEW b \in Blocks(q)
    PROVE  BlockHolds(f, With(base, f, q, b), q, b)
<1> DEFINE g == With(base, f, q, b)
<1>1. CASE q = "roots"
  <2>1. Edits(f, g, "roots") /\ g["roots"] = Append(f["roots"], b.place) /\ BlockSays(q, b) = {<<"roots", b.place>>}
    BY <1>1 DEF With, BlockSays, HeadQuestions, Edits, IsFile
  <2>2. b.place \in Places /\ f["roots"] \in Seq(Places)
    BY <1>1 DEF Blocks, HeadQuestions, IsFile
  <2> HIDE DEF g
  <2>3. FieldSays("roots", g["roots"]) = FieldSays("roots", f["roots"]) \cup BlockSays(q, b)
    BY <2>1, <2>2, AppendSays
  <2>4. Fits("roots", g["roots"])
    BY <2>1, <2>2 DEF Fits
  <2>5. Moves(FieldSays("roots", f["roots"]), FieldSays("roots", g["roots"]), BlockSays(q, b), q, b)
    BY <2>3 DEF Moves
  <2> QED
    BY <2>1, <2>4, <2>5, OneField DEF g
<1>2. CASE q = "not_used"
  <2>1. Edits(f, g, "notUsed") /\ g["notUsed"] = Append(f["notUsed"], b.area) /\ BlockSays(q, b) = {<<"notUsed", b.area>>}
    BY <1>2 DEF With, BlockSays, HeadQuestions, Edits, IsFile
  <2>2. b.area \in STRING /\ f["notUsed"] \in Seq(STRING)
    BY <1>2 DEF Blocks, HeadQuestions, IsFile
  <2> HIDE DEF g
  <2>3. FieldSays("notUsed", g["notUsed"]) = FieldSays("notUsed", f["notUsed"]) \cup BlockSays(q, b)
    BY <2>1, <2>2, AppendSays
  <2>4. Fits("notUsed", g["notUsed"])
    BY <2>1, <2>2 DEF Fits
  <2>5. Moves(FieldSays("notUsed", f["notUsed"]), FieldSays("notUsed", g["notUsed"]), BlockSays(q, b), q, b)
    BY <2>3 DEF Moves
  <2> QED
    BY <2>1, <2>4, <2>5, OneField DEF g
<1> QED
  BY <1>1, <1>2

\* What a map's entries say, when one is put in it.
LEMMA PersonPut ==
    ASSUME NEW v, NEW w, NEW h, DOMAIN w = DOMAIN v \cup {h}, \A l \in DOMAIN v \ {h} : w[l] = v[l]
    PROVE  /\ FieldSays("people", w) \subseteq FieldSays("people", v) \cup PersonSays(h, w[h])
           /\ PersonSays(h, w[h]) \subseteq FieldSays("people", w)
           /\ \A x \in FieldSays("people", v) : x \in FieldSays("people", w) \/ (h \in DOMAIN v /\ x \in PersonSays(h, v[h]))
           /\ h \in DOMAIN v => PersonSays(h, v[h]) \subseteq FieldSays("people", v)
<1>1. \A u, x : x \in FieldSays("people", u) <=> \E l \in DOMAIN u : x \in PersonSays(l, u[l])
  BY DEF FieldSays
<1>2. ASSUME NEW x \in FieldSays("people", w) PROVE x \in FieldSays("people", v) \cup PersonSays(h, w[h])
  <2>1. PICK l \in DOMAIN w : x \in PersonSays(l, w[l])
    BY <1>1
  <2> QED
    BY <2>1, <1>1
<1>3. ASSUME NEW x \in PersonSays(h, w[h]) PROVE x \in FieldSays("people", w)
  BY <1>1
<1>4. ASSUME NEW x \in FieldSays("people", v) PROVE x \in FieldSays("people", w) \/ (h \in DOMAIN v /\ x \in PersonSays(h, v[h]))
  <2>1. PICK l \in DOMAIN v : x \in PersonSays(l, v[l])
    BY <1>1
  <2> QED
    BY <2>1, <1>1
<1>5. h \in DOMAIN v => PersonSays(h, v[h]) \subseteq FieldSays("people", v)
  BY <1>1
<1> QED
  BY <1>2, <1>3, <1>4, <1>5

\* The same for an asset, which may have been there: what it said may go.
LEMMA AssetPut ==
    ASSUME NEW v, NEW w, NEW n, DOMAIN w = DOMAIN v \cup {n}, \A l \in DOMAIN v \ {n} : w[l] = v[l]
    PROVE  /\ FieldSays("assets", w) \subseteq FieldSays("assets", v) \cup AssetSays(n, w[n])
           /\ AssetSays(n, w[n]) \subseteq FieldSays("assets", w)
           /\ \A x \in FieldSays("assets", v) : x \in FieldSays("assets", w) \/ (n \in DOMAIN v /\ x \in AssetSays(n, v[n]))
           /\ n \in DOMAIN v => AssetSays(n, v[n]) \subseteq FieldSays("assets", v)
<1>1. \A u, x : x \in FieldSays("assets", u) <=> \E l \in DOMAIN u : x \in AssetSays(l, u[l])
  BY DEF FieldSays
<1>2. ASSUME NEW x \in FieldSays("assets", w) PROVE x \in FieldSays("assets", v) \cup AssetSays(n, w[n])
  <2>1. PICK l \in DOMAIN w : x \in AssetSays(l, w[l])
    BY <1>1
  <2> QED
    BY <2>1, <1>1
<1>3. ASSUME NEW x \in AssetSays(n, w[n]) PROVE x \in FieldSays("assets", w)
  BY <1>1
<1>4. ASSUME NEW x \in FieldSays("assets", v) PROVE x \in FieldSays("assets", w) \/ (n \in DOMAIN v /\ x \in AssetSays(n, v[n]))
  <2>1. PICK l \in DOMAIN v : x \in AssetSays(l, v[l])
    BY <1>1
  <2> QED
    BY <2>1, <1>1
<1>5. n \in DOMAIN v => AssetSays(n, v[n]) \subseteq FieldSays("assets", v)
  BY <1>1
<1> QED
  BY <1>2, <1>3, <1>4, <1>5

\* What one entry of the MFA list says, when it alone is replaced.
LEMMA EntryPut ==
    ASSUME NEW v, NEW w, NEW i, DOMAIN w = DOMAIN v \cup {i}, \A l \in DOMAIN v \ {i} : w[l] = v[l]
    PROVE  /\ FieldSays("mfa", w) \subseteq FieldSays("mfa", v) \cup EntrySays(w[i])
           /\ EntrySays(w[i]) \subseteq FieldSays("mfa", w)
           /\ \A x \in FieldSays("mfa", v) : x \in FieldSays("mfa", w) \/ (i \in DOMAIN v /\ x \in EntrySays(v[i]))
           /\ i \in DOMAIN v => EntrySays(v[i]) \subseteq FieldSays("mfa", v)
<1>1. \A u, x : x \in FieldSays("mfa", u) <=> \E l \in DOMAIN u : x \in EntrySays(u[l])
  BY DEF FieldSays
<1>2. ASSUME NEW x \in FieldSays("mfa", w) PROVE x \in FieldSays("mfa", v) \cup EntrySays(w[i])
  <2>1. PICK l \in DOMAIN w : x \in EntrySays(w[l])
    BY <1>1
  <2> QED
    BY <2>1, <1>1
<1>3. ASSUME NEW x \in EntrySays(w[i]) PROVE x \in FieldSays("mfa", w)
  BY <1>1
<1>4. ASSUME NEW x \in FieldSays("mfa", v) PROVE x \in FieldSays("mfa", w) \/ (i \in DOMAIN v /\ x \in EntrySays(v[i]))
  <2>1. PICK l \in DOMAIN v : x \in EntrySays(v[l])
    BY <1>1
  <2> QED
    BY <2>1, <1>1
<1>5. i \in DOMAIN v => EntrySays(v[i]) \subseteq FieldSays("mfa", v)
  BY <1>1
<1> QED
  BY <1>2, <1>3, <1>4, <1>5

\* A person added, and one marked as having left.
LEMMA PeopleSay ==
    ASSUME NEW base, NEW f, IsFile(f), NEW q \in {"people", "left"}, NEW b \in Blocks(q), Takes(base, f, q, b)
    PROVE  BlockHolds(f, With(base, f, q, b), q, b)
<1> DEFINE g == With(base, f, q, b)
           h == b.handle
           v == f["people"]
           w == g["people"]
<1>0. b.handle \in STRING /\ \A l \in DOMAIN v : v[l] \in Persons
  BY DEF Blocks, HeadQuestions, IsFile
<1>1. CASE q = "people"
  <2>1. Edits(f, g, "people") /\ w = Put(v, h, [kind |-> b.kind, usedBy |-> b.usedBy, ids |-> IdsOf(b), left |-> FALSE])
    BY <1>1 DEF With, HeadQuestions, WithPerson, Edits, IsFile
  <2>2. h \notin DOMAIN v
    BY <1>1 DEF Takes, TakesPerson
  <2>3. BlockSays(q, b) = {<<"person", h, [kind |-> b.kind, usedBy |-> b.usedBy, ids |-> IdsOf(b)]>>}
    BY <1>1 DEF BlockSays, HeadQuestions
  <2>4. b.kind \in STRING /\ b.usedBy \in SUBSET STRING /\ IdsOf(b) \in SUBSET ({"workspace", "github"} \X STRING)
    <3>1. b \in [handle : STRING, kind : STRING, usedBy : SUBSET STRING, workspace : STRING, github : STRING]
      BY <1>1 DEF Blocks, HeadQuestions
    <3>2. \A k \in {"workspace", "github"} : b[k] \in STRING
      BY <3>1
    <3>3. IdsOf(b) \in SUBSET ({"workspace", "github"} \X STRING)
      BY <3>2 DEF IdsOf
    <3> QED
      BY <3>1, <3>3
  <2> HIDE DEF g, v, w, h
  <2>5. /\ DOMAIN w = DOMAIN v \cup {h} /\ \A l \in DOMAIN v \ {h} : w[l] = v[l]
        /\ w[h] = [kind |-> b.kind, usedBy |-> b.usedBy, ids |-> IdsOf(b), left |-> FALSE]
    BY <2>1 DEF Put
  <2>6. PersonSays(h, w[h]) = BlockSays(q, b)
    BY <2>3, <2>5 DEF PersonSays
  <2>7. \A l \in DOMAIN w : w[l] \in Persons
    <3>1. w[h] \in Persons
      BY <2>4, <2>5 DEF Persons
    <3>2. \A l \in DOMAIN v \ {h} : w[l] \in Persons
      BY <1>0, <2>5
    <3> QED
      BY <3>1, <3>2, <2>5, Zenon
  <2>8. Moves(FieldSays("people", v), FieldSays("people", w), BlockSays(q, b), q, b)
    <3>1. /\ FieldSays("people", w) \subseteq FieldSays("people", v) \cup PersonSays(h, w[h])
          /\ PersonSays(h, w[h]) \subseteq FieldSays("people", w)
          /\ \A x \in FieldSays("people", v) : x \in FieldSays("people", w) \/ (h \in DOMAIN v /\ x \in PersonSays(h, v[h]))
      <4>1. DOMAIN w = DOMAIN v \cup {h} /\ \A l \in DOMAIN v \ {h} : w[l] = v[l]
        BY <2>5
      <4> QED
        BY <4>1, PersonPut
    <3> QED
      BY <3>1, <2>2, <2>6 DEF Moves
  <2>9. Fits("people", w)
    BY <2>7 DEF Fits
  <2> QED
    BY <2>1, <2>8, <2>9, OneField DEF v, w, g
<1>2. CASE q = "left"
  <2>1. Edits(f, g, "people") /\ w = [v EXCEPT ![h] = [@ EXCEPT !.left = TRUE]]
    BY <1>2 DEF With, HeadQuestions, Edits, IsFile
  <2>2. h \in DOMAIN v
    BY <1>2 DEF Takes, HeadQuestions
  <2>3. BlockSays(q, b) = {<<"left", h>>}
    BY <1>2 DEF BlockSays, HeadQuestions
  <2> HIDE DEF g, v, w, h
  <2>4. w[h] = [v[h] EXCEPT !.left = TRUE]
    BY <2>1, <2>2
  <2>5. DOMAIN w = DOMAIN v \cup {h} /\ \A l \in DOMAIN v \ {h} : w[l] = v[l]
    BY <2>1, <2>2
  <2>6. PersonSays(h, w[h]) \subseteq PersonSays(h, v[h]) \cup BlockSays(q, b) /\ PersonSays(h, v[h]) \subseteq PersonSays(h, w[h])
        /\ BlockSays(q, b) \subseteq PersonSays(h, w[h]) /\ w[h] \in Persons
    <3>1. v[h] \in Persons
      BY <1>0, <2>2
    <3>2. /\ w[h].kind = v[h].kind /\ w[h].usedBy = v[h].usedBy /\ w[h].ids = v[h].ids /\ w[h].left = TRUE
          /\ w[h] \in Persons
      BY <3>1, <2>4 DEF Persons
    <3> QED
      BY <3>2, <2>3 DEF PersonSays
  <2>7. \A l \in DOMAIN w : w[l] \in Persons
    BY <1>0, <2>5, <2>6
  <2>8. Moves(FieldSays("people", v), FieldSays("people", w), BlockSays(q, b), q, b)
    <3>1. /\ FieldSays("people", w) \subseteq FieldSays("people", v) \cup PersonSays(h, w[h])
          /\ PersonSays(h, w[h]) \subseteq FieldSays("people", w)
          /\ \A x \in FieldSays("people", v) : x \in FieldSays("people", w) \/ (h \in DOMAIN v /\ x \in PersonSays(h, v[h]))
          /\ PersonSays(h, v[h]) \subseteq FieldSays("people", v)
      BY <2>2, <2>5, PersonPut
    <3> QED
      BY <3>1, <2>6 DEF Moves
  <2>9. Fits("people", w)
    BY <2>7 DEF Fits
  <2> QED
    BY <2>1, <2>8, <2>9, OneField DEF v, w, g
<1> QED
  BY <1>1, <1>2

\* The administrators of one tenant, in place of those said before.
LEMMA AdminsSay ==
    ASSUME NEW base, NEW f, IsFile(f), NEW b \in Blocks("admins")
    PROVE  BlockHolds(f, With(base, f, "admins", b), "admins", b)
<1> DEFINE g == With(base, f, "admins", b)
           v == f["admins"]
           w == g["admins"]
<1>1. Edits(f, g, "admins") /\ w = Put(v, b.where, b.handles)
  BY DEF With, HeadQuestions, Edits, IsFile
<1>2. BlockSays("admins", b) = {<<"admins", b.where, b.handles>>}
  BY DEF BlockSays, HeadQuestions
<1> HIDE DEF g, v, w
<1>3. DOMAIN w = DOMAIN v \cup {b.where} /\ (\A l \in DOMAIN v \ {b.where} : w[l] = v[l]) /\ w[b.where] = b.handles
  BY <1>1 DEF Put
<1>4. \A u : FieldSays("admins", u) = {<<"admins", l, u[l]>> : l \in DOMAIN u}
  BY DEF FieldSays
<1>5. FieldSays("admins", w) \subseteq FieldSays("admins", v) \cup BlockSays("admins", b) /\ BlockSays("admins", b) \subseteq FieldSays("admins", w)
  BY <1>2, <1>3, <1>4
<1>6. ASSUME NEW x \in FieldSays("admins", v) PROVE x \in FieldSays("admins", w) \/ Lost("admins", b, x)
  <2>1. PICK l \in DOMAIN v : x = <<"admins", l, v[l]>>
    BY <1>4
  <2>2. CASE l = b.where
    BY <2>1, <2>2 DEF Lost
  <2>3. CASE l # b.where
    BY <2>1, <2>3, <1>3, <1>4
  <2> QED
    BY <2>2, <2>3
<1>7. Moves(FieldSays("admins", v), FieldSays("admins", w), BlockSays("admins", b), "admins", b) /\ Fits("admins", w)
  BY <1>5, <1>6 DEF Moves, Fits
<1> QED
  BY <1>1, <1>7, OneField DEF v, w, g

\* An asset looked up by name, there or not.
LEMMA AssetKnown ==
    ASSUME NEW f, IsFile(f), NEW n
    PROVE  AssetOf(f, n) \in Assets /\ (n \in DOMAIN f["assets"] => AssetOf(f, n) = f["assets"][n]) /\ (n \notin DOMAIN f["assets"] => AssetOf(f, n) = NoAsset)
<1>1. CASE n \in DOMAIN f["assets"]
  BY <1>1 DEF IsFile, AssetOf
<1>2. CASE n \notin DOMAIN f["assets"]
  <2>1. NoAsset \in Assets
    BY DEF NoAsset, Assets
  <2> QED
    BY <1>2, <2>1 DEF AssetOf
<1> QED
  BY <1>1, <1>2

\* What an asset says, taken apart.
LEMMA AssetIs ==
    ASSUME NEW n, NEW c, NEW x
    PROVE  x \in AssetSays(n, c) <=> \/ x = <<"host", n, c.host>> /\ c.host # None
                                     \/ x = <<"repo", n, c.repo>> /\ c.repo # None
                                     \/ x = <<"deploys", n, c.deploys>> /\ c.deploys # None
                                     \/ x = <<"exposure", n, c.exposure>> /\ c.exposure # None
                                     \/ \E p \in c.ports : x = <<"port", n, p>>
BY DEF AssetSays

\* An asset is put in the place of what was known of it.
LEMMA AssetStep ==
    ASSUME NEW f, IsFile(f), NEW n, NEW a \in Assets, NEW w, w = Put(f["assets"], n, a), NEW B, NEW q, NEW b,
           Moves(AssetSays(n, AssetOf(f, n)), AssetSays(n, a), B, q, b)
    PROVE  Moves(FieldSays("assets", f["assets"]), FieldSays("assets", w), B, q, b) /\ Fits("assets", w)
<1> DEFINE v == f["assets"]
<1>0. /\ AssetSays(n, a) \subseteq AssetSays(n, AssetOf(f, n)) \cup B /\ B \subseteq AssetSays(n, a)
      /\ \A x \in AssetSays(n, AssetOf(f, n)) : x \in AssetSays(n, a) \/ Lost(q, b, x)
  BY DEF Moves
<1>1. \A l \in DOMAIN v : v[l] \in Assets
  BY DEF IsFile
<1>2. (n \in DOMAIN v => AssetOf(f, n) = v[n]) /\ (n \notin DOMAIN v => AssetOf(f, n) = NoAsset)
  BY AssetKnown
<1>3. AssetSays(n, NoAsset) = {}
  BY DEF AssetSays, NoAsset
<1> HIDE DEF v
<1>4. DOMAIN w = DOMAIN v \cup {n} /\ \A l \in DOMAIN v \ {n} : w[l] = v[l]
  BY DEF Put, v
<1>5. w[n] = a
  BY DEF Put, v
<1>6. /\ FieldSays("assets", w) \subseteq FieldSays("assets", v) \cup AssetSays(n, w[n])
      /\ AssetSays(n, w[n]) \subseteq FieldSays("assets", w)
      /\ \A x \in FieldSays("assets", v) : x \in FieldSays("assets", w) \/ (n \in DOMAIN v /\ x \in AssetSays(n, v[n]))
      /\ n \in DOMAIN v => AssetSays(n, v[n]) \subseteq FieldSays("assets", v)
  BY <1>4, AssetPut
<1>7. \A l \in DOMAIN w : w[l] \in Assets
  <2>1. \A l \in DOMAIN v \ {n} : w[l] \in Assets
    BY <1>1, <1>4
  <2> QED
    BY <2>1, <1>4, <1>5, Zenon
<1>8. FieldSays("assets", w) \subseteq FieldSays("assets", v) \cup B
  BY <1>0, <1>2, <1>3, <1>5, <1>6
<1>9. B \subseteq FieldSays("assets", w)
  BY <1>0, <1>5, <1>6
<1>10. \A x \in FieldSays("assets", v) : x \in FieldSays("assets", w) \/ Lost(q, b, x)
  BY <1>0, <1>2, <1>5, <1>6
<1>11. Fits("assets", w)
  BY <1>7 DEF Fits
<1> QED
  BY <1>8, <1>9, <1>10, <1>11 DEF v, Moves

\* A repository and what it deploys to, in place of what its asset said.
LEMMA DeploysSay ==
    ASSUME NEW base, NEW f, IsFile(f), NEW b \in Blocks("deploys")
    PROVE  BlockHolds(f, With(base, f, "deploys", b), "deploys", b)
<1> DEFINE g == With(base, f, "deploys", b)
           n == b.name
           old == AssetOf(f, n)
           a == [old EXCEPT !.repo = b.repo, !.deploys = b.to]
<1>1. Edits(f, g, "assets") /\ g["assets"] = Put(f["assets"], n, a)
  BY DEF With, HeadQuestions, WithDeploys, Edits, IsFile
<1>2. BlockSays("deploys", b) = {<<"repo", n, b.repo>>, <<"deploys", n, b.to>>}
  BY DEF BlockSays, HeadQuestions
<1>3. b.repo \in Places /\ b.to \in DeployTargets
  BY DEF Blocks, HeadQuestions
<1>4. old \in Assets
  BY AssetKnown
<1> HIDE DEF g, old
<1>5. /\ a \in Assets /\ a.host = old.host /\ a.repo = b.repo /\ a.deploys = b.to
      /\ a.exposure = old.exposure /\ a.ports = old.ports
  BY <1>3, <1>4 DEF Assets
<1> HIDE DEF a
<1>6. a.repo # None /\ a.deploys # None
  BY <1>3, <1>5, InterviewAssumption DEF DeployTargets, None
<1>7. Moves(AssetSays(n, old), AssetSays(n, a), BlockSays("deploys", b), "deploys", b)
  BY <1>2, <1>5, <1>6, AssetIs DEF Lost, Moves
<1> HIDE DEF n
<1>8. Moves(FieldSays("assets", f["assets"]), FieldSays("assets", g["assets"]), BlockSays("deploys", b), "deploys", b) /\ Fits("assets", g["assets"])
  BY <1>1, <1>5, <1>7, AssetStep DEF old
<1> QED
  BY <1>1, <1>8, OneField DEF g

\* The exposure of a server, in place of the one before, and its ports.
LEMMA ContextSay ==
    ASSUME NEW base, NEW f, IsFile(f), NEW b \in Blocks("context")
    PROVE  BlockHolds(f, With(base, f, "context", b), "context", b)
<1> DEFINE g == With(base, f, "context", b)
           n == b.name
           old == AssetOf(f, n)
           a == [old EXCEPT !.exposure = IF b.exposure = None THEN @ ELSE b.exposure, !.ports = @ \cup b.ports]
<1>1. Edits(f, g, "assets") /\ g["assets"] = Put(f["assets"], n, a)
  BY DEF With, HeadQuestions, WithContext, Edits, IsFile
<1>2. BlockSays("context", b) = (IF b.exposure = None THEN {} ELSE {<<"exposure", n, b.exposure>>}) \cup {<<"port", n, p>> : p \in b.ports}
  BY DEF BlockSays, HeadQuestions
<1>3. b.exposure \in Exposures \cup {None} /\ b.ports \in SUBSET Nat
  BY DEF Blocks, HeadQuestions
<1>4. old \in Assets
  BY AssetKnown
<1> HIDE DEF g, old
<1>5. /\ a \in Assets /\ a.host = old.host /\ a.repo = old.repo /\ a.deploys = old.deploys
      /\ a.exposure = (IF b.exposure = None THEN old.exposure ELSE b.exposure) /\ a.ports = old.ports \cup b.ports
  BY <1>3, <1>4 DEF Assets
<1> HIDE DEF a
<1>7. Moves(AssetSays(n, old), AssetSays(n, a), BlockSays("context", b), "context", b)
  BY <1>2, <1>5, AssetIs DEF Lost, Moves
<1> HIDE DEF n
<1>8. Moves(FieldSays("assets", f["assets"]), FieldSays("assets", g["assets"]), BlockSays("context", b), "context", b) /\ Fits("assets", g["assets"])
  BY <1>1, <1>5, <1>7, AssetStep DEF old
<1> QED
  BY <1>1, <1>8, OneField DEF g

\* A server to reach: two fields, the asset and, once, the root.
LEMMA ReachSays ==
    ASSUME NEW base, NEW f, IsFile(f), NEW b \in Blocks("reach")
    PROVE  BlockHolds(f, With(base, f, "reach", b), "reach", b)
<1> DEFINE n == b.name
           old == AssetOf(f, n)
           a == [old EXCEPT !.host = b.host]
           roots == IF Contains(f["roots"], b.host) THEN f["roots"] ELSE Append(f["roots"], b.host)
           w == Put(f["assets"], n, a)
           e == [f EXCEPT !["assets"] = w]
           g == With(base, f, "reach", b)
<1>1. g = [f EXCEPT !["assets"] = w, !["roots"] = roots]
  BY DEF With, HeadQuestions, WithReach
<1>2. BlockSays("reach", b) = {<<"host", n, b.host>>, <<"roots", b.host>>}
  BY DEF BlockSays, HeadQuestions
<1>3. b.host \in Places /\ f["roots"] \in Seq(Places)
  BY DEF Blocks, HeadQuestions, IsFile
<1>4. old \in Assets
  BY AssetKnown
<1> HIDE DEF g, old
<1>5. /\ a \in Assets /\ a.host = b.host /\ a.repo = old.repo /\ a.deploys = old.deploys
      /\ a.exposure = old.exposure /\ a.ports = old.ports
  BY <1>3, <1>4 DEF Assets
<1> HIDE DEF a
<1>6. b.host # None
  BY <1>3, InterviewAssumption
<1>7. Moves(AssetSays(n, old), AssetSays(n, a), {<<"host", n, b.host>>}, "reach", b)
  BY <1>5, <1>6, AssetIs DEF Lost, Moves
<1> HIDE DEF n
<1>8. Moves(FieldSays("assets", f["assets"]), FieldSays("assets", w), {<<"host", n, b.host>>}, "reach", b) /\ Fits("assets", w)
  BY <1>5, <1>7, AssetStep DEF old
<1>9. Moves(FieldSays("roots", f["roots"]), FieldSays("roots", roots), {<<"roots", b.host>>}, "roots", b) /\ Fits("roots", roots)
  <2>1. CASE Contains(f["roots"], b.host)
    <3>1. b.host \in ToSet(f["roots"])
      BY <2>1 DEF Contains, ToSet
    <3>2. FieldSays("roots", f["roots"]) = {<<"roots", y>> : y \in ToSet(f["roots"])}
      BY DEF FieldSays
    <3>3. roots = f["roots"]
      BY <2>1
    <3> QED
      BY <1>3, <3>1, <3>2, <3>3 DEF Moves, Fits
  <2>2. CASE ~Contains(f["roots"], b.host)
    <3>1. roots = Append(f["roots"], b.host)
      BY <2>2
    <3>2. FieldSays("roots", roots) = FieldSays("roots", f["roots"]) \cup {<<"roots", b.host>>}
      BY <1>3, <3>1, AppendSays
    <3>3. roots \in Seq(Places)
      BY <1>3, <3>1
    <3> HIDE DEF roots
    <3> QED
      BY <3>2, <3>3 DEF Moves, Fits
  <2> QED
    BY <2>1, <2>2
<1> HIDE DEF w, roots
<1>10. Edits(f, e, "assets") /\ e["assets"] = w /\ e["roots"] = f["roots"]
  BY DEF Edits, IsFile
<1>11. Edits(e, g, "roots") /\ g["roots"] = roots
  BY <1>1 DEF Edits, IsFile
<1> HIDE DEF e
<1>12. IsFile(e) /\ DOMAIN f.mfa \subseteq DOMAIN e.mfa
  BY <1>8, <1>10, FileStays
<1>13. IsFile(g) /\ DOMAIN e.mfa \subseteq DOMAIN g.mfa
  BY <1>9, <1>11, <1>12, FileStays
<1>14. Moves(Facts(f), Facts(e), {<<"host", n, b.host>>}, "reach", b)
  BY <1>8, <1>10, FieldStep
<1>15. Moves(Facts(e), Facts(g), {<<"roots", b.host>>}, "roots", b)
  BY <1>9, <1>10, <1>11, FieldStep
<1>16. \A x : ~Lost("roots", b, x)
  BY DEF Lost
<1>17. Moves(Facts(f), Facts(g), {<<"host", n, b.host>>} \cup {<<"roots", b.host>>}, "reach", b)
  BY <1>14, <1>15, <1>16, MovesTwice
<1>18. BlockSays("reach", b) = {<<"host", n, b.host>>} \cup {<<"roots", b.host>>}
  BY <1>2
<1> QED
  BY <1>12, <1>13, <1>17, <1>18 DEF BlockHolds, g

\* A place picked for its data: two fields when it is a new repository.
LEMMA MattersSay ==
    ASSUME NEW base, NEW f, IsFile(f), NEW b \in Blocks("matters_most"), Takes(base, f, "matters_most", b)
    PROVE  BlockHolds(f, With(base, f, "matters_most", b), "matters_most", b)
<1> DEFINE n == b.asset
           a == [NoAsset EXCEPT !.repo = b.repo]
           w == IF b.new THEN Put(f["assets"], n, a) ELSE f["assets"]
           e == [f EXCEPT !["assets"] = w]
           g == With(base, f, "matters_most", b)
           said == IF b.new THEN {<<"repo", n, b.repo>>} ELSE {}
<1>1. g = [f EXCEPT !["matters"] = @ \cup {n}, !["assets"] = w]
  BY DEF With, HeadQuestions, WithMatter
<1>2. BlockSays("matters_most", b) = {<<"matters", n>>} \cup said
  BY DEF BlockSays, HeadQuestions
<1>3. b.new => b.repo \in Places /\ b.repo # None /\ n \notin DOMAIN f["assets"]
  <2>1. b.new => b.repo \in Places
    BY DEF Blocks, HeadQuestions
  <2>2. b.new => n \notin DOMAIN f["assets"]
    BY DEF Takes, HeadQuestions, TakesMatter, TakesRepo
  <2> QED
    BY <2>1, <2>2, InterviewAssumption
<1> HIDE DEF g
<1>4. Moves(FieldSays("assets", f["assets"]), FieldSays("assets", w), said, "matters_most", b) /\ Fits("assets", w)
  <2>1. CASE b.new
    <3>1. AssetOf(f, n) = NoAsset
      BY <1>3, <2>1, AssetKnown
    <3>2. /\ a \in Assets /\ a.host = None /\ a.repo = b.repo /\ a.deploys = None
          /\ a.exposure = None /\ a.ports = {}
      BY <1>3, <2>1 DEF NoAsset, Assets
    <3> HIDE DEF a
    <3>3. AssetSays(n, a) = {<<"repo", n, b.repo>>}
      BY <1>3, <2>1, <3>2, AssetIs
    <3>4. AssetSays(n, AssetOf(f, n)) = {}
      BY <3>1 DEF NoAsset, AssetSays
    <3>5. Moves(AssetSays(n, AssetOf(f, n)), AssetSays(n, a), said, "matters_most", b)
      BY <2>1, <3>3, <3>4 DEF Moves
    <3>6. w = Put(f["assets"], n, a)
      BY <2>1
    <3> HIDE DEF w, n, said
    <3> QED
      BY <3>2, <3>5, <3>6, AssetStep
  <2>2. CASE ~b.new
    <3>1. w = f["assets"] /\ said = {}
      BY <2>2
    <3>2. Fits("assets", f["assets"])
      BY DEF Fits, IsFile
    <3> QED
      BY <3>1, <3>2 DEF Moves
  <2> QED
    BY <2>1, <2>2
<1> HIDE DEF w, said
<1>5. Edits(f, e, "assets") /\ e["assets"] = w /\ e["matters"] = f["matters"]
  BY DEF Edits, IsFile
<1>6. Edits(e, g, "matters") /\ g["matters"] = e["matters"] \cup {n}
  BY <1>1 DEF Edits, IsFile
<1> HIDE DEF e, n
<1>7. IsFile(e) /\ DOMAIN f.mfa \subseteq DOMAIN e.mfa
  BY <1>4, <1>5, FileStays
<1>8. "matters" \in Plain
  BY DEF Plain
<1>9. Fits("matters", g["matters"]) /\ \A p, c : Moves(FieldSays("matters", e["matters"]), FieldSays("matters", g["matters"]), {<<"matters", n>>}, p, c)
  BY <1>6, <1>7, <1>8, AddsOne
<1>10. IsFile(g) /\ DOMAIN e.mfa \subseteq DOMAIN g.mfa
  BY <1>6, <1>7, <1>9, FileStays
<1>11. Moves(Facts(f), Facts(e), said, "matters_most", b)
  BY <1>4, <1>5, FieldStep
<1>12. Moves(Facts(e), Facts(g), {<<"matters", n>>}, "roots", b)
  <2>1. Moves(FieldSays("matters", e["matters"]), FieldSays("matters", g["matters"]), {<<"matters", n>>}, "roots", b)
    BY <1>9
  <2> QED
    BY <1>6, <2>1, FieldStep
<1>13. \A x : ~Lost("roots", b, x)
  BY DEF Lost
<1>14. Moves(Facts(f), Facts(g), said \cup {<<"matters", n>>}, "matters_most", b)
  BY <1>11, <1>12, <1>13, MovesTwice
<1>15. BlockSays("matters_most", b) = said \cup {<<"matters", n>>}
  BY <1>2 DEF n
<1> QED
  BY <1>7, <1>10, <1>14, <1>15 DEF BlockHolds, g

\* An MFA entry more, with no sign-in yet.
LEMMA MfaSays ==
    ASSUME NEW base, NEW f, IsFile(f), NEW b \in Blocks("mfa")
    PROVE  BlockHolds(f, With(base, f, "mfa", b), "mfa", b)
<1> DEFINE g == With(base, f, "mfa", b)
           v == f["mfa"]
           w == g["mfa"]
           m == [where |-> b.where, enforced |-> b.enforced, signIn |-> None]
           i == Len(v) + 1
<1>1. Edits(f, g, "mfa") /\ w = Append(v, m)
  BY DEF With, HeadQuestions, WithMFA, Edits, IsFile
<1>2. BlockSays("mfa", b) = {<<"mfa", b.where, b.enforced>>}
  BY DEF BlockSays, HeadQuestions
<1>3. m \in MFAEntries /\ v \in Seq(MFAEntries)
  BY DEF Blocks, HeadQuestions, IsFile, MFAEntries
<1>4. EntrySays(m) = BlockSays("mfa", b)
  BY <1>2 DEF EntrySays
<1> HIDE DEF g, v, w, m
<1>5. w \in Seq(MFAEntries) /\ DOMAIN w = DOMAIN v \cup {i} /\ w[i] = m /\ i \notin DOMAIN v /\ \A l \in DOMAIN v \ {i} : w[l] = v[l]
  BY <1>1, <1>3
<1> HIDE DEF i
<1>6. /\ FieldSays("mfa", w) \subseteq FieldSays("mfa", v) \cup EntrySays(w[i])
      /\ EntrySays(w[i]) \subseteq FieldSays("mfa", w)
      /\ \A x \in FieldSays("mfa", v) : x \in FieldSays("mfa", w) \/ (i \in DOMAIN v /\ x \in EntrySays(v[i]))
  BY <1>5, EntryPut
<1>7. Moves(FieldSays("mfa", v), FieldSays("mfa", w), BlockSays("mfa", b), "mfa", b)
  BY <1>4, <1>5, <1>6 DEF Moves
<1>8. Fits("mfa", w) /\ DOMAIN v \subseteq DOMAIN w
  BY <1>5 DEF Fits
<1> QED
  BY <1>1, <1>7, <1>8, OneField DEF v, w, g

\* The same, of a member of the set.
LEMMA LeastOf ==
    ASSUME NEW S \in SUBSET Nat, S # {}
    PROVE  \E m \in S : \A k \in S : m <= k
BY LeastIn

\* A sign-in, on the first entry of its tenant that waits for one.
LEMMA SignInSays ==
    ASSUME NEW base, IsFile(base), NEW f, IsFile(f), DOMAIN base.mfa \subseteq DOMAIN f.mfa,
           NEW b \in Blocks("mfa_sign_in"), Takes(base, f, "mfa_sign_in", b)
    PROVE  BlockHolds(f, With(base, f, "mfa_sign_in", b), "mfa_sign_in", b)
<1> DEFINE g == With(base, f, "mfa_sign_in", b)
           v == f["mfa"]
           w == g["mfa"]
           mine == {i \in SignInOffers(base) : v[i].where = b.where}
           first == CHOOSE i \in mine : \A j \in mine : i <= j
<1>1. Edits(f, g, "mfa") /\ w = [v EXCEPT ![first] = [@ EXCEPT !.signIn = b.signIn]]
  BY DEF With, HeadQuestions, WithSignIn, Edits, IsFile
<1>2. BlockSays("mfa_sign_in", b) = {<<"signIn", b.where, b.signIn>>}
  BY DEF BlockSays, HeadQuestions
<1>3. b.signIn \in SignIns /\ b.signIn # None
  BY DEF Blocks, HeadQuestions, SignIns, None
<1>4. v \in Seq(MFAEntries)
  BY DEF IsFile
<1>5. mine # {} /\ mine \subseteq DOMAIN v /\ mine \subseteq Nat
  <2>1. mine # {}
    BY DEF Takes, HeadQuestions
  <2>2. SignInOffers(base) \subseteq DOMAIN v
    BY DEF SignInOffers
  <2>3. DOMAIN v \subseteq Nat
    BY <1>4
  <2> QED
    BY <2>1, <2>2, <2>3
<1>6. first \in mine
  <2> HIDE DEF mine
  <2>1. \E i \in mine : \A j \in mine : i <= j
    BY <1>5, LeastOf
  <2> QED
    BY <2>1
<1>7. first \in DOMAIN v /\ v[first].where = b.where
  BY <1>5, <1>6
<1> HIDE DEF g, v, w, first
<1>8. v[first] \in MFAEntries
  BY <1>4, <1>7
<1>9. DOMAIN w = DOMAIN v \cup {first} /\ (\A l \in DOMAIN v \ {first} : w[l] = v[l]) /\ DOMAIN v \subseteq DOMAIN w
  BY <1>1, <1>7
<1>10. /\ w[first] \in MFAEntries /\ w[first].where = v[first].where /\ w[first].enforced = v[first].enforced
       /\ w[first].signIn = b.signIn
  <2>1. w[first] = [v[first] EXCEPT !.signIn = b.signIn]
    BY <1>1, <1>7
  <2> QED
    BY <2>1, <1>3, <1>8 DEF MFAEntries
<1>11. w \in Seq(MFAEntries)
  <2>1. [v EXCEPT ![first] = w[first]] \in Seq(MFAEntries)
    BY <1>4, <1>7, <1>10
  <2>2. w = [v EXCEPT ![first] = w[first]]
    BY <1>1, <1>7
  <2> QED
    BY <2>1, <2>2
<1>12. /\ FieldSays("mfa", w) \subseteq FieldSays("mfa", v) \cup EntrySays(w[first])
       /\ EntrySays(w[first]) \subseteq FieldSays("mfa", w)
       /\ \A x \in FieldSays("mfa", v) : x \in FieldSays("mfa", w) \/ (first \in DOMAIN v /\ x \in EntrySays(v[first]))
       /\ first \in DOMAIN v => EntrySays(v[first]) \subseteq FieldSays("mfa", v)
  BY <1>9, EntryPut
<1>13. /\ EntrySays(w[first]) \subseteq EntrySays(v[first]) \cup BlockSays("mfa_sign_in", b)
       /\ BlockSays("mfa_sign_in", b) \subseteq EntrySays(w[first])
       /\ \A x \in EntrySays(v[first]) : x \in EntrySays(w[first]) \/ Lost("mfa_sign_in", b, x)
  BY <1>2, <1>3, <1>7, <1>10 DEF EntrySays, Lost
<1>14. Moves(FieldSays("mfa", v), FieldSays("mfa", w), BlockSays("mfa_sign_in", b), "mfa_sign_in", b)
  BY <1>7, <1>12, <1>13 DEF Moves
<1>15. Fits("mfa", w)
  BY <1>11 DEF Fits
<1> QED
  BY <1>1, <1>9, <1>14, <1>15, OneField DEF v, w, g

\* The questions in their order, as far as the argument needs it: what is
\* deployed is asked before what data matters, and that is the last but one.
LEMMA QuestionIs ==
    /\ \A q \in Asked : q \in HeadQuestions \cup {"roots", "exclude", "mail", "people", "left", "admins", "deploys", "mfa",
                            "mfa_sign_in", "exposed", "restricted", "reach", "context", "matters_most", "not_used"}
    /\ Len(Questions) = 19 /\ DOMAIN Questions = 1..19
    /\ \A i \in 1..19 : Questions[i] \in Asked
    /\ \A i \in 1..19 : (Questions[i] = "deploys" => i <= 17) /\ (Questions[i] = "matters_most" => i = 18)
<1>1. Len(Questions) = 19 /\ DOMAIN Questions = 1..19
  BY DEF Questions
<1>2. \A i \in 1..19 : Questions[i] \in Asked
  BY <1>1 DEF Asked, ToSet
<1>3. /\ Questions[1] = "trigger" /\ Questions[2] = "name" /\ Questions[3] = "operator" /\ Questions[4] = "timezone"
      /\ Questions[5] = "roots" /\ Questions[6] = "exclude" /\ Questions[7] = "mail" /\ Questions[8] = "people"
      /\ Questions[9] = "left" /\ Questions[10] = "admins" /\ Questions[11] = "deploys" /\ Questions[12] = "mfa"
      /\ Questions[13] = "mfa_sign_in" /\ Questions[14] = "exposed" /\ Questions[15] = "restricted"
      /\ Questions[16] = "reach" /\ Questions[17] = "context" /\ Questions[18] = "matters_most" /\ Questions[19] = "not_used"
  BY DEF Questions
<1>4. \A i \in 1..19 : i \in {1, 2, 3, 4, 5, 6, 7, 8, 9, 10, 11, 12, 13, 14, 15, 16, 17, 18, 19}
  OBVIOUS
<1>5. \A q \in Asked : \E i \in 1..19 : q = Questions[i]
  BY <1>1 DEF Asked, ToSet
<1>6. \A i \in 1..19 : Questions[i] \in HeadQuestions \cup {"roots", "exclude", "mail", "people", "left", "admins", "deploys", "mfa",
                            "mfa_sign_in", "exposed", "restricted", "reach", "context", "matters_most", "not_used"}
  BY <1>3, <1>4 DEF HeadQuestions
<1>7. \A i \in 1..19 : (Questions[i] = "deploys" => i <= 17) /\ (Questions[i] = "matters_most" => i = 18)
  BY <1>3, <1>4
<1> QED
  BY <1>1, <1>2, <1>5, <1>6, <1>7

\* Every block the code takes says what it says and nothing else.
LEMMA BlockSaysSo ==
    ASSUME NEW base, IsFile(base), NEW f, IsFile(f), DOMAIN base.mfa \subseteq DOMAIN f.mfa,
           NEW q \in Asked, NEW b \in Blocks(q), Takes(base, f, q, b)
    PROVE  BlockHolds(f, With(base, f, q, b), q, b)
<1>1. CASE q \in HeadQuestions \cup {"exclude", "mail", "exposed", "restricted"}
  BY <1>1, SimpleSays
<1>2. CASE q \in {"roots", "not_used"}
  BY <1>2, ListSays
<1>3. CASE q \in {"people", "left"}
  BY <1>3, PeopleSay
<1>4. CASE q = "admins"
  BY <1>4, AdminsSay
<1>5. CASE q = "deploys"
  BY <1>5, DeploysSay
<1>6. CASE q = "mfa"
  BY <1>6, MfaSays
<1>7. CASE q = "mfa_sign_in"
  BY <1>7, SignInSays
<1>8. CASE q = "reach"
  BY <1>8, ReachSays
<1>9. CASE q = "context"
  BY <1>9, ContextSay
<1>10. CASE q = "matters_most"
  BY <1>10, MattersSay
<1> QED
  BY <1>1, <1>2, <1>3, <1>4, <1>5, <1>6, <1>7, <1>8, <1>9, <1>10, QuestionIs

\* A fact that is gone was the same question's, about the same thing; only a
\* repository picked for its data is named by two questions, and it is picked
\* after the other was asked.
LEMMA LostIsReplaced ==
    ASSUME NEW c, NEW d, c.q \in Asked, d.q \in Asked, NEW x \in BlockSays(d.q, d.b), Lost(c.q, c.b, x),
           ~(c.q = "deploys" /\ d.q = "matters_most")
    PROVE  Replaces(c, d)
<1> DEFINE q == d.q
           b == d.b
<1>0. q \in HeadQuestions \cup {"roots", "exclude", "mail", "people", "left", "admins", "deploys", "mfa",
                            "mfa_sign_in", "exposed", "restricted", "reach", "context", "matters_most", "not_used"}
  BY QuestionIs
<1>1. CASE q \in HeadQuestions \cup {"roots", "exclude", "exposed", "restricted", "left", "people", "mfa", "not_used", "mail"}
  <2>1. x[1] \in {"head", "roots", "exclude", "exposed", "restricted", "left", "person", "mfa", "notUsed", "senders", "noMail"}
    BY <1>1 DEF BlockSays, HeadQuestions
  <2> QED
    BY <2>1 DEF Lost
<1>2. CASE q = "admins"
  <2>1. x[1] = "admins" /\ x[2] = b.where
    BY <1>2 DEF BlockSays, HeadQuestions
  <2> QED
    BY <1>2, <2>1 DEF Lost, Replaces
<1>3. CASE q = "deploys"
  <2>1. x[1] \in {"repo", "deploys"} /\ x[2] = b.name
    BY <1>3 DEF BlockSays, HeadQuestions
  <2> QED
    BY <1>3, <2>1 DEF Lost, Replaces
<1>4. CASE q = "mfa_sign_in"
  <2>1. x[1] = "signIn" /\ x[2] = b.where
    BY <1>4 DEF BlockSays, HeadQuestions
  <2> QED
    BY <1>4, <2>1 DEF Lost, Replaces
<1>5. CASE q = "reach"
  <2>1. x[1] = "roots" \/ (x[1] = "host" /\ x[2] = b.name)
    BY <1>5 DEF BlockSays, HeadQuestions
  <2> QED
    BY <1>5, <2>1 DEF Lost, Replaces
<1>6. CASE q = "context"
  <2>1. x[1] = "port" \/ (x[1] = "exposure" /\ x[2] = b.name)
    BY <1>6 DEF BlockSays, HeadQuestions
  <2> QED
    BY <1>6, <2>1 DEF Lost, Replaces
<1>7. CASE q = "matters_most"
  <2>1. x[1] \in {"matters", "repo"}
    BY <1>7 DEF BlockSays, HeadQuestions
  <2> QED
    BY <1>7, <2>1 DEF Lost
<1> QED
  BY <1>0, <1>1, <1>2, <1>3, <1>4, <1>5, <1>6, <1>7
\* The first n blocks said, c each with its question, and the file that holds
\* them.
Given(acc, n) == UNION {BlockSays(acc[i].q, acc[i].b) : i \in 1..n}
Held(f, old, acc, n) ==
    /\ IsFile(f)
    /\ \A i \in 1..n : acc[i].q \in Asked /\ acc[i].b \in Blocks(acc[i].q)
    /\ \A i \in 1..n : BlockSays(acc[i].q, acc[i].b) \subseteq Facts(f) \/ \E j \in i + 1 .. n : Replaces(acc[j], acc[i])
    /\ Facts(f) \subseteq Facts(old) \cup Given(acc, n)

\* One block more, and the draft still holds what was said and no more.
LEMMA HeldStep ==
    ASSUME NEW f, NEW old, NEW acc, NEW n \in Nat, Held(f, old, acc, n), NEW g, NEW q \in Asked, NEW b \in Blocks(q),
           acc[n + 1].q = q, acc[n + 1].b = b, BlockHolds(f, g, q, b),
           q = "deploys" => \A i \in 1..n : acc[i].q # "matters_most"
    PROVE  Held(g, old, acc, n + 1)
<1> DEFINE says(i) == BlockSays(acc[i].q, acc[i].b)
<1>1. /\ IsFile(g) /\ Facts(g) \subseteq Facts(f) \cup says(n + 1) /\ says(n + 1) \subseteq Facts(g)
      /\ \A x \in Facts(f) : x \in Facts(g) \/ Lost(q, b, x)
  BY DEF BlockHolds, Moves
<1>2. \A i \in 1 .. n + 1 : acc[i].q \in Asked /\ acc[i].b \in Blocks(acc[i].q)
  BY DEF Held
<1>3. ASSUME NEW i \in 1 .. n + 1
      PROVE  says(i) \subseteq Facts(g) \/ \E j \in i + 1 .. n + 1 : Replaces(acc[j], acc[i])
  <2>1. CASE i = n + 1
    BY <1>1, <2>1
  <2>2. CASE i \in 1..n /\ \E j \in i + 1 .. n : Replaces(acc[j], acc[i])
    BY <2>2
  <2>3. CASE i \in 1..n /\ says(i) \subseteq Facts(f) /\ ~(says(i) \subseteq Facts(g))
    <3>1. PICK x \in says(i) : x \notin Facts(g)
      BY <2>3
    <3>2. Lost(acc[n + 1].q, acc[n + 1].b, x)
      BY <1>1, <2>3, <3>1
    <3>3. Replaces(acc[n + 1], acc[i])
      <4>1. ~(acc[n + 1].q = "deploys" /\ acc[i].q = "matters_most")
        BY <2>3
      <4>2. acc[n + 1].q \in Asked /\ acc[i].q \in Asked
        BY <1>2
      <4> QED
        BY <3>1, <3>2, <4>1, <4>2, LostIsReplaced
    <3> QED
      BY <2>3, <3>3
  <2>4. i = n + 1 \/ (i \in 1..n /\ (says(i) \subseteq Facts(f) \/ \E j \in i + 1 .. n : Replaces(acc[j], acc[i])))
    BY DEF Held
  <2> QED
    BY <2>1, <2>2, <2>3, <2>4
<1>4. Facts(g) \subseteq Facts(old) \cup Given(acc, n + 1)
  <2>1. \A m \in Nat : \A x : x \in Given(acc, m) <=> \E i \in 1..m : x \in says(i)
    BY DEF Given
  <2>2. Given(acc, n) \subseteq Given(acc, n + 1)
    <3> HIDE DEF says
    <3> QED
      BY <2>1
  <2>3. says(n + 1) \subseteq Given(acc, n + 1)
    <3> HIDE DEF says
    <3> QED
      BY <2>1
  <2>4. Facts(f) \subseteq Facts(old) \cup Given(acc, n)
    BY DEF Held
  <2> HIDE DEF says
  <2> QED
    BY <1>1, <2>2, <2>3, <2>4
<1> QED
  BY <1>1, <1>2, <1>3, <1>4 DEF Held

\* What the blocks of an answer make, one after the other.
IsAnswer(made, f, q, blocks, n) ==
    /\ DOMAIN made = 0..n /\ made[0] = [ok |-> TRUE, f |-> f]
    /\ \A i \in 1..n : made[i] = Taken(f, q, made[i - 1], blocks[i])

\* The files an answer makes, block by block, exist: by the least block count
\* that would have none.
LEMMA AnswerExists ==
    ASSUME NEW f, NEW q, NEW blocks, NEW N \in Nat
    PROVE  \A n \in 0..N : \E made : IsAnswer(made, f, q, blocks, n)
<1> DEFINE none == {n \in 0..N : ~ \E made : IsAnswer(made, f, q, blocks, n)}
<1> SUFFICES ASSUME none # {} PROVE FALSE
  OBVIOUS
<1>0. none \in SUBSET Nat
  OBVIOUS
<1>1. PICK n \in none : \A k \in none : n <= k
  <2> HIDE DEF none
  <2> QED
    BY <1>0, LeastOf
<1>2. CASE n = 0
  <2>1. IsAnswer([i \in 0..0 |-> [ok |-> TRUE, f |-> f]], f, q, blocks, 0)
    BY DEF IsAnswer
  <2> QED
    BY <1>2, <2>1
<1>3. CASE n # 0
  <2>1. n \in 1..N /\ n - 1 \in 0..N /\ n - 1 < n
    BY <1>3
  <2>2. n - 1 \notin none
    BY <1>1, <2>1
  <2>3. PICK made : IsAnswer(made, f, q, blocks, n - 1)
    BY <2>1, <2>2
  <2> DEFINE v == Taken(f, q, made[n - 1], blocks[n])
             more == [i \in 0..n |-> IF i = n THEN v ELSE made[i]]
  <2>4. ASSUME NEW i \in 1..n PROVE more[i] = Taken(f, q, more[i - 1], blocks[i])
    <3>1. more[i - 1] = made[i - 1]
      BY <2>1
    <3>2. CASE i = n
      BY <3>1, <3>2
    <3>3. CASE i # n
      <4>1. more[i] = made[i] /\ i \in 1 .. n - 1
        BY <2>1, <3>3
      <4> HIDE DEF more
      <4> QED
        BY <2>3, <3>1, <4>1 DEF IsAnswer
    <3> QED
      BY <3>2, <3>3
  <2>5. DOMAIN more = 0..n /\ more[0] = [ok |-> TRUE, f |-> f]
    <3>1. more[0] = made[0]
      BY <2>1
    <3> QED
      BY <2>3, <3>1 DEF IsAnswer
  <2>6. IsAnswer(more, f, q, blocks, n)
    <3> HIDE DEF more
    <3> QED
      BY <2>4, <2>5 DEF IsAnswer
  <2> QED
    BY <2>6
<1> QED
  BY <1>2, <1>3

\* The recursion of the answer is that function.
LEMMA AppliedIs ==
    ASSUME NEW f, NEW q, NEW blocks, Len(blocks) \in Nat
    PROVE  \E made : IsAnswer(made, f, q, blocks, Len(blocks)) /\ Applied(f, q, blocks) = made[Len(blocks)]
<1> DEFINE N == Len(blocks)
           IsMade(made) == made = [i \in 0..N |-> IF i = 0 THEN [ok |-> TRUE, f |-> f] ELSE Taken(f, q, made[i - 1], blocks[i])]
           made == CHOOSE m : IsMade(m)
<1>0. N \in Nat
  OBVIOUS
<1>1. Applied(f, q, blocks) = made[N]
  BY DEF Applied
<1>2. PICK g : IsAnswer(g, f, q, blocks, N)
  <2>1. N \in 0..N
    BY <1>0
  <2> HIDE DEF N
  <2> QED
    BY <1>0, <2>1, AnswerExists
<1> DEFINE h == [i \in 0..N |-> g[i]]
<1>3. IsMade(h)
  <2>1. DOMAIN h = 0..N
    OBVIOUS
  <2>2. ASSUME NEW i \in 0..N PROVE h[i] = IF i = 0 THEN [ok |-> TRUE, f |-> f] ELSE Taken(f, q, h[i - 1], blocks[i])
    <3>1. CASE i = 0
      BY <1>0, <1>2, <3>1 DEF IsAnswer
    <3>2. CASE i # 0
      <4>1. i \in 1..N /\ i - 1 \in 0..N
        BY <1>0, <3>2
      <4>2. h[i] = g[i] /\ h[i - 1] = g[i - 1]
        BY <4>1
      <4> HIDE DEF h
      <4> QED
        BY <1>2, <3>2, <4>1, <4>2 DEF IsAnswer
    <3> QED
      BY <3>1, <3>2
  <2>3. h = [i \in 0..N |-> h[i]]
    OBVIOUS
  <2> HIDE DEF h
  <2> QED
    BY <2>2, <2>3, Zenon
<1>4. IsMade(made)
  <2> HIDE DEF IsMade, h
  <2> QED
    BY <1>3
<1> HIDE DEF made
<1>5. IsAnswer(made, f, q, blocks, N)
  <2>1. DOMAIN made = 0..N
    BY <1>4
  <2>2. \A i \in 0..N : made[i] = IF i = 0 THEN [ok |-> TRUE, f |-> f] ELSE Taken(f, q, made[i - 1], blocks[i])
    BY <1>4, Zenon
  <2>3. made[0] = [ok |-> TRUE, f |-> f]
    <3>1. 0 \in 0..N
      BY <1>0
    <3> HIDE DEF N
    <3> QED
      BY <2>2, <3>1, Zenon
  <2>4. \A i \in 1..N : i \in 0..N /\ i # 0
    BY <1>0
  <2>5. \A i \in 1..N : made[i] = Taken(f, q, made[i - 1], blocks[i])
    BY <2>2, <2>4
  <2> QED
    BY <2>1, <2>3, <2>5 DEF IsAnswer
<1> QED
  BY <1>1, <1>5
\* Every accepted block, as said: its question and its fields.
Saids == UNION {[q : {p}, b : Blocks(p)] : p \in Asked}

\* The answer parsed and the file holds it and what was accepted before; one
\* sequence is two joined; all is acc and blocks of one question, and held.
CarriesAll(f, old, acc, q, blocks, all) ==
    /\ Held(Applied(f, q, blocks).f, old, all, Len(acc) + Len(blocks))
    /\ \A i \in 1 .. Len(blocks) : blocks[i] \in Blocks(q)
Joins(all, s, t) ==
    /\ Len(all) = Len(s) + Len(t)
    /\ \A i \in 1 .. Len(s) : all[i] = s[i]
    /\ \A i \in 1 .. Len(t) : all[Len(s) + i] = t[i]
Members(t) == {t[i] : i \in DOMAIN t}
HoldsAll(f, old, acc, q, blocks, all) ==
    /\ all \in Seq(Saids) /\ Held(Applied(f, q, blocks).f, old, all, Len(all))
    /\ \A i \in 1 .. Len(all) : all[i].q = q \/ (i \in 1 .. Len(acc) /\ all[i] = acc[i])
    /\ \A i \in 1 .. Len(acc) : i \in 1 .. Len(all) /\ all[i] = acc[i]
    /\ \A i \in 1 .. Len(blocks) : \E j \in 1 .. Len(all) : all[j] = [q |-> q, b |-> blocks[i]]

\* An answer taken to its end leaves a file that holds all of it.
LEMMA AnswerHeld ==
    ASSUME NEW f, NEW old, NEW acc, acc \in Seq(Saids), Held(f, old, acc, Len(acc)),
           NEW q \in Asked, NEW blocks, blocks \in Seq(Members(blocks)), Applied(f, q, blocks).ok,
           q = "deploys" => \A i \in 1 .. Len(acc) : acc[i].q # "matters_most",
           NEW all, \A i \in 1 .. Len(acc) : all[i] = acc[i],
           \A i \in 1 .. Len(blocks) : all[Len(acc) + i] = [q |-> q, b |-> blocks[i]]
    PROVE  CarriesAll(f, old, acc, q, blocks, all)
<1> DEFINE M == Len(blocks)
           L == Len(acc)
<1>1. M \in Nat /\ L \in Nat /\ DOMAIN blocks = 1..M
  OBVIOUS
<1>2. PICK made : IsAnswer(made, f, q, blocks, M) /\ Applied(f, q, blocks) = made[M]
  BY <1>1, AppliedIs
<1>4. (\A i \in 1..L : all[i] = acc[i]) /\ \A i \in 1..M : all[L + i] = [q |-> q, b |-> blocks[i]]
  OBVIOUS
<1> HIDE DEF M, L
<1>5. \A i \in 1..M : made[i].ok => made[i - 1].ok /\ blocks[i] \in Blocks(q) /\ Takes(f, made[i - 1].f, q, blocks[i]) /\ made[i].f = With(f, made[i - 1].f, q, blocks[i])
  <2> TAKE i \in 1..M
  <2>1. made[i] = Taken(f, q, made[i - 1], blocks[i])
    BY <1>2 DEF IsAnswer
  <2> HAVE made[i].ok
  <2> QED
    BY <2>1 DEF Taken
\* Nothing was refused on the way.
<1>6. \A i \in 0..M : made[i].ok
  <2> DEFINE refused == {k \in 0..M : ~made[M - k].ok}
  <2> SUFFICES ASSUME refused # {} PROVE FALSE
    <3>1. ASSUME NEW i \in 0..M, ~made[i].ok PROVE FALSE
      <4>1. M - i \in 0..M /\ M - (M - i) = i
        BY <1>1
      <4>2. M - i \in refused
        BY <3>1, <4>1
      <4> QED
        BY <4>2
    <3> QED
      BY <3>1
  <2>1. refused \in SUBSET Nat
    BY <1>1
  <2>2. PICK k \in refused : \A l \in refused : k <= l
    <3> HIDE DEF refused
    <3> QED
      BY <2>1, LeastOf
  <2>3. k # 0
    BY <1>1, <1>2, <2>2
  <2>4. k - 1 \in 0..M /\ k - 1 < k /\ M - (k - 1) \in 1..M /\ (M - (k - 1)) - 1 = M - k
    BY <1>1, <2>2, <2>3
  <2>5. made[M - (k - 1)].ok
    BY <2>2, <2>4
  <2> QED
    BY <1>5, <2>2, <2>4, <2>5
<1>7. IsFile(f) /\ Held(f, old, all, L)
  <2>1. IsFile(f)
    BY DEF Held
  <2>2. Given(all, L) = Given(acc, L)
    BY <1>4 DEF Given
  <2> QED
    BY <1>1, <1>4, <2>1, <2>2 DEF Held, L
<1> DEFINE Good(i) == Held(made[i].f, old, all, L + i) /\ DOMAIN f.mfa \subseteq DOMAIN made[i].f.mfa
           bad == {i \in 0..M : ~Good(i)}
<1>8. Good(0)
  <2>1. made[0].f = f /\ L + 0 = L
    BY <1>1, <1>2 DEF IsAnswer
  <2> QED
    BY <1>7, <2>1
<1>9. ASSUME NEW i \in 1..M, Good(i - 1) PROVE Good(i)
  <2> DEFINE was == made[i - 1].f
             b == blocks[i]
  <2>1. i \in 0..M /\ L + i = (L + (i - 1)) + 1 /\ L + (i - 1) \in Nat
    BY <1>1
  <2>2. b \in Blocks(q) /\ Takes(f, was, q, b) /\ made[i].f = With(f, was, q, b)
    BY <1>5, <1>6, <2>1
  <2>3. IsFile(was) /\ DOMAIN f.mfa \subseteq DOMAIN was.mfa
    BY <1>9 DEF Held
  <2>4. BlockHolds(was, made[i].f, q, b)
    BY <1>7, <2>2, <2>3, BlockSaysSo
  <2>5. all[(L + (i - 1)) + 1].q = q /\ all[(L + (i - 1)) + 1].b = b
    <3>1. all[L + i] = [q |-> q, b |-> blocks[i]]
      BY <1>4
    <3>2. all[(L + (i - 1)) + 1] = [q |-> q, b |-> blocks[i]]
      BY <2>1, <3>1, Zenon
    <3> HIDE DEF M, L
    <3> QED
      BY <3>2
  <2>6. q = "deploys" => \A k \in 1 .. L + (i - 1) : all[k].q # "matters_most"
    <3> SUFFICES ASSUME q = "deploys", NEW k \in 1 .. L + (i - 1) PROVE all[k].q # "matters_most"
      OBVIOUS
    <3>0. q # "matters_most"
      OBVIOUS
    <3>1. CASE k \in 1..L
      BY <1>4, <3>1 DEF L
    <3>2. CASE k \notin 1..L
      <4>1. PICK j \in 1..M : k = L + j
        <5>1. k - L \in 1..M /\ k = L + (k - L)
          BY <1>1, <3>2
        <5> QED
          BY <5>1
      <4>2. all[k] = [q |-> q, b |-> blocks[j]]
        BY <1>4, <4>1, Zenon
      <4>3. all[k].q = q
        BY <4>2
      <4> QED
        BY <3>0, <4>3
    <3> QED
      BY <3>1, <3>2
  <2>7. Held(was, old, all, L + (i - 1))
    BY <1>9
  <2>8. Held(made[i].f, old, all, (L + (i - 1)) + 1)
    <3> HIDE DEF was, b, Good
    <3> QED
      BY <2>1, <2>2, <2>4, <2>5, <2>6, <2>7, HeldStep
  <2>9. DOMAIN f.mfa \subseteq DOMAIN made[i].f.mfa
    BY <2>3, <2>4 DEF BlockHolds
  <2> QED
    BY <2>1, <2>8, <2>9
<1> HIDE DEF Good
<1>10. bad = {}
  <2> SUFFICES ASSUME bad # {} PROVE FALSE
    OBVIOUS
  <2>1. bad \in SUBSET Nat
    BY <1>1
  <2>2. PICK i \in bad : \A k \in bad : i <= k
    <3> HIDE DEF bad
    <3> QED
      BY <2>1, LeastOf
  <2>3. i # 0 /\ i \in 1..M /\ i - 1 \in 0..M /\ i - 1 < i
    BY <1>1, <1>8, <2>2
  <2>4. Good(i - 1)
    BY <2>2, <2>3
  <2> QED
    BY <1>9, <2>2, <2>3, <2>4
<1>11. Held(made[M].f, old, all, L + M)
  <2>1. M \in 0..M
    BY <1>1
  <2> QED
    BY <1>10, <2>1 DEF Good
<1>12. \A i \in 1..M : blocks[i] \in Blocks(q)
  <2> TAKE i \in 1..M
  <2>1. i \in 0..M
    BY <1>1
  <2> QED
    BY <1>5, <1>6, <2>1
<1> QED
  BY <1>2, <1>11, <1>12 DEF L, M, CarriesAll

\* Two sequences joined.
LEMMA ConcatIs ==
    ASSUME NEW S, NEW T, NEW s \in Seq(S), NEW t \in Seq(T)
    PROVE  s \o t \in Seq(S \cup T) /\ Joins(s \o t, s, t)
BY DEF Joins

\* So an accepted answer, joined to those before it, is held.
LEMMA AnswerHolds ==
    ASSUME NEW f, NEW old, NEW acc, acc \in Seq(Saids), Held(f, old, acc, Len(acc)),
           NEW q \in Asked, NEW blocks, blocks \in Seq(Members(blocks)), Applied(f, q, blocks).ok,
           q = "deploys" => \A i \in 1 .. Len(acc) : acc[i].q # "matters_most",
           NEW all
    PROVE  all = acc \o [i \in DOMAIN blocks |-> [q |-> q, b |-> blocks[i]]] =>
             HoldsAll(f, old, acc, q, blocks, all)
<1> DEFINE M == Len(blocks)
           L == Len(acc)
           new == [i \in DOMAIN blocks |-> [q |-> q, b |-> blocks[i]]]
           T == [q : {q}, b : Members(blocks)]
<1>1. M \in Nat /\ L \in Nat /\ DOMAIN blocks = 1..M
  OBVIOUS
<1>2. new \in Seq(T) /\ Len(new) = M /\ \A i \in 1..M : new[i] = [q |-> q, b |-> blocks[i]]
  BY <1>1
<1> HIDE DEF new, T
<1>3. acc \o new \in Seq(Saids \cup T) /\ Joins(acc \o new, acc, new)
  BY <1>2, ConcatIs, Zenon
<1>4. ASSUME all \in Seq(Saids \cup T), Joins(all, acc, new)
      PROVE  HoldsAll(f, old, acc, q, blocks, all)
  <2>0. Len(all) = L + M /\ (\A i \in 1..L : all[i] = acc[i]) /\ \A i \in 1..M : all[L + i] = new[i]
    BY <1>2, <1>4, Zenon DEF Joins
  <2>1. \A i \in 1..M : all[L + i] = [q |-> q, b |-> blocks[i]]
    BY <1>2, <2>0, Zenon
  <2>2. CarriesAll(f, old, acc, q, blocks, all)
    <3>1. \A i \in 1..L : all[i] = acc[i]
      BY <2>0, Zenon
    <3> QED
      BY <3>1, <2>1, AnswerHeld, Zenon
  <2>3. \A i \in 1..M : [q |-> q, b |-> blocks[i]] \in Saids
    <3> TAKE i \in 1..M
    <3>1. [q |-> q, b |-> blocks[i]] \in [q : {q}, b : Blocks(q)]
      BY <2>2 DEF CarriesAll
    <3> QED
      BY <3>1 DEF Saids
  <2>4. \A i \in 1..L : acc[i] \in Saids
    OBVIOUS
  <2> HIDE DEF M, L
  <2>5. ASSUME NEW i \in 1 .. L + M PROVE all[i] \in Saids /\ (all[i].q = q \/ (i \in 1..L /\ all[i] = acc[i]))
    <3>1. CASE i \in 1..L
      BY <2>0, <2>4, <3>1, Zenon
    <3>2. CASE i \notin 1..L
      <4>1. PICK j \in 1..M : i = L + j
        <5>1. i - L \in 1..M /\ i = L + (i - L)
          BY <1>1, <3>2
        <5> QED
          BY <5>1
      <4>2. all[i] = [q |-> q, b |-> blocks[j]]
        BY <2>1, <4>1, Zenon
      <4>3. all[i].q = q
        BY <4>2
      <4>4. all[i] \in Saids
        BY <2>3, <4>2, Zenon
      <4> QED
        BY <4>3, <4>4
    <3> QED
      BY <3>1, <3>2
  <2>6. all \in Seq(Saids)
    <3>1. \A i \in 1 .. Len(all) : all[i] \in Saids
      BY <2>0, <2>5, Zenon
    <3>2. all \in Seq(Saids \cup T)
      BY <1>4
    <3> QED
      BY <3>1, <3>2
  <2>7. Held(Applied(f, q, blocks).f, old, all, Len(all))
    BY <2>0, <2>2, Zenon DEF CarriesAll, L, M
  <2>8. \A i \in 1 .. Len(all) : all[i].q = q \/ (i \in 1 .. Len(acc) /\ all[i] = acc[i])
    BY <2>0, <2>5, Zenon DEF L
  <2>9. \A i \in 1 .. Len(acc) : i \in 1 .. Len(all) /\ all[i] = acc[i]
    BY <1>1, <2>0 DEF L
  <2>10. \A i \in 1 .. Len(blocks) : \E j \in 1 .. Len(all) : all[j] = [q |-> q, b |-> blocks[i]]
    <3> SUFFICES ASSUME NEW i \in 1..M PROVE \E j \in 1 .. Len(all) : all[j] = [q |-> q, b |-> blocks[i]]
      BY DEF M
    <3>1. L + i \in 1 .. Len(all)
      BY <1>1, <2>0
    <3>2. all[L + i] = [q |-> q, b |-> blocks[i]]
      BY <2>1, Zenon
    <3> QED
      BY <3>1, <3>2, Zenon
  <2> QED
    BY <2>6, <2>7, <2>8, <2>9, <2>10, Zenon DEF HoldsAll
<1>5. all = acc \o [i \in DOMAIN blocks |-> [q |-> q, b |-> blocks[i]]] <=> all = acc \o new
  BY Zenon DEF new
<1> QED
  BY <1>3, <1>4, <1>5, Zenon

\* What is typed is a sequence of lines; what was typed of an accepted answer
\* is noted: the block of each of its paragraphs was accepted.
IsText(p) == \E n \in Nat : DOMAIN p = 1..n
Noted(acc, x) ==
    x.q \in DOMAIN BlockFields =>
        \A n \in DOMAIN x.t : IsText(x.t[n]) /\ \E i \in 1 .. Len(acc) : acc[i] = [q |-> x.q, b |-> BlockOf(x.q, x.t[n])]
Texts == [q : Asked, t : {<<>>} \cup UNION {UNION {x.replies[p] : p \in Asked} : x \in Interviews}]

\* A block that parses has every line of its paragraph but those given again.
LEMMA BlockHears ==
    ASSUME NEW q \in DOMAIN BlockFields, NEW p, IsText(p), BlockOf(q, p) \in Blocks(q)
    PROVE  Hears(q, p, BlockOf(q, p))
<1> DEFINE b == BlockOf(q, p)
<1> SUFFICES ASSUME NEW i \in DOMAIN p, p[i].field \in BlockFields[q]
             PROVE  IF p[i].field = "ports" THEN p[i].value \in b.ports
                    ELSE b[p[i].field] = p[i].value \/ \E j \in LinesOf(p, p[i].field) : i < j
  BY DEF Hears
<1>1. CASE p[i].field = "ports"
  <2>1. q = "context"
    BY <1>1 DEF BlockFields
  <2>2. b["ports"] = PortsSaid(p) /\ b.ports = b["ports"]
    BY <1>1 DEF BlockOf
  <2>3. b.ports \in SUBSET Nat
    BY <2>1 DEF Blocks, HeadQuestions
  <2>4. PortsSaid(p) = {p[j].value : j \in LinesOf(p, "ports")}
    BY <2>2, <2>3, InterviewAssumption DEF PortsSaid
  <2>5. i \in LinesOf(p, "ports")
    BY <1>1 DEF LinesOf
  <2> HIDE DEF b
  <2> QED
    BY <1>1, <2>2, <2>4, <2>5
<1>2. CASE p[i].field # "ports"
  <2> DEFINE k == p[i].field
             given == LinesOf(p, k)
  <2>1. b[k] = LastSaid(p, k)
    BY <1>2 DEF BlockOf
  <2>2. i \in given /\ given \subseteq DOMAIN p
    BY DEF LinesOf
  <2>3. \E m \in given : \A j \in given : j <= m
    <3>1. PICK n \in Nat : DOMAIN p = 1..n
      BY DEF IsText
    <3> DEFINE left == {n - j : j \in given}
    <3>2. left \in SUBSET Nat /\ left # {}
      <4> HIDE DEF given
      <4> QED
        BY <2>2, <3>1
    <3> HIDE DEF left
    <3>3. PICK l \in left : \A j \in left : l <= j
      BY <3>2, LeastOf
    <3> HIDE DEF given
    <3>4. PICK m \in given : l = n - m
      BY <3>3 DEF left
    <3>5. ASSUME NEW j \in given PROVE j <= m
      <4>1. n - j \in left
        BY DEF left
      <4>2. n - m <= n - j /\ j \in Nat /\ m \in Nat
        BY <2>2, <3>1, <3>3, <3>4, <4>1
      <4> QED
        BY <4>2
    <3> QED
      BY <3>5
  <2> DEFINE last == CHOOSE m \in given : \A j \in given : j <= m
  <2>4. LastSaid(p, k) = p[last].value
    BY <2>2 DEF LastSaid
  <2> HIDE DEF given
  <2>5. last \in given /\ i <= last
    BY <2>2, <2>3
  <2> HIDE DEF last
  <2>6. last \in Nat /\ i \in Nat
    <3>1. PICK n \in Nat : DOMAIN p = 1..n
      BY DEF IsText
    <3> QED
      BY <2>2, <2>5, <3>1
  <2>7. last = i \/ i < last
    BY <2>5, <2>6
  <2> HIDE DEF b
  <2>8. \/ b[p[i].field] = p[i].value
        \/ \E j \in LinesOf(p, p[i].field) : i < j
    BY <2>1, <2>4, <2>5, <2>7 DEF given
  <2> QED
    BY <1>2, <2>8
<1> QED
  BY <1>1, <1>2

\* The draft holds what was accepted and no more, the file is as it was found
\* until the interview is over, and a repository is picked for its data only
\* once what is deployed was asked.
InterviewIInv ==
    /\ talk \in Interviews /\ accepted \in Seq(Saids) /\ at \in 0..20
    /\ Held(draft, talk.found, accepted, Len(accepted))
    /\ at \in 1..18 => \A i \in 1 .. Len(accepted) : accepted[i].q # "matters_most"
    /\ disk \in {talk.found, draft}
    /\ at # 0 => disk = talk.found
    /\ typed \in Seq(Texts) /\ \A k \in DOMAIN typed : Noted(accepted, typed[k])

\* Nothing was said yet and the draft is the file found.
LEMMA InterviewStarts == InterviewInit => InterviewIInv
<1> SUFFICES ASSUME InterviewInit PROVE InterviewIInv
  OBVIOUS
<1>1. talk \in Interviews /\ draft = talk.found /\ disk = talk.found /\ at = 1 /\ accepted = <<>> /\ typed = <<>>
  BY DEF InterviewInit
<1>2. IsFile(talk.found)
  BY <1>1, InterviewAssumption
<1>3. Len(accepted) = 0 /\ accepted \in Seq(Saids) /\ 1..0 = {}
  BY <1>1
<1>4. Held(draft, talk.found, accepted, Len(accepted))
  BY <1>1, <1>2, <1>3 DEF Held
<1>5. typed \in Seq(Texts) /\ DOMAIN typed = {}
  BY <1>1
<1> QED
  BY <1>1, <1>3, <1>4, <1>5 DEF InterviewIInv

\* The next question is at the one asked or after it.
LEMMA NextIs ==
    ASSUME NEW f, NEW i \in 1..19
    PROVE  NextQuestion(f, i) \in i..20
<1> DEFINE open == {j \in i .. Len(Questions) : ~IsAnswered(f, Questions[j])}
<1>1. Len(Questions) = 19
  BY QuestionIs
<1>2. CASE open = {}
  <2>1. NextQuestion(f, i) = Len(Questions) + 1
    BY <1>2, Zenon DEF NextQuestion
  <2>2. NextQuestion(f, i) = 20
    <3> HIDE DEF open
    <3> QED
      BY <1>1, <2>1
  <2> QED
    BY <2>2
<1>3. CASE open # {}
  <2>1. open \in SUBSET Nat /\ open \subseteq i..19
    BY <1>1
  <2>2. NextQuestion(f, i) = CHOOSE j \in open : \A k \in open : j <= k
    BY <1>3 DEF NextQuestion
  <2> HIDE DEF open
  <2>3. \E j \in open : \A k \in open : j <= k
    BY <1>3, <2>1, LeastOf
  <2>4. PICK j \in open : NextQuestion(f, i) = j
    BY <2>2, <2>3, Zenon
  <2>5. j \in i..19
    BY <2>1, <2>4
  <2>6. j \in i..20
    BY <2>5
  <2> QED
    BY <2>4, <2>6, Zenon
<1> QED
  BY <1>2, <1>3

\* Every step keeps it.
LEMMA InterviewSteps == InterviewIInv /\ [InterviewNext]_interviewVars => InterviewIInv'
<1> SUFFICES ASSUME InterviewIInv, [InterviewNext]_interviewVars PROVE InterviewIInv'
  OBVIOUS
<1>0. /\ DOMAIN Questions = 1..19 /\ Len(Questions) = 19
      /\ \A i \in 1..19 : /\ Questions[i] \in Asked
                          /\ (Questions[i] = "deploys" => i <= 17) /\ (Questions[i] = "matters_most" => i = 18)
  BY QuestionIs
<1> DEFINE NonePicked(n) == n \in 1..18 => \A i \in 1 .. Len(accepted) : accepted[i].q # "matters_most"
<1>1. CASE SkipAnswered
  <2>1. at \in 1..19 /\ at' = NextQuestion(draft, at) /\ UNCHANGED <<talk, draft, disk, accepted, typed>>
    BY <1>1, <1>0 DEF SkipAnswered
  <2>2. at' \in at..20
    BY <2>1, NextIs
  <2>3. NonePicked(at)
    BY DEF InterviewIInv
  <2>4. NonePicked(at')
    BY <2>1, <2>2, <2>3
  <2>5. at' \in 0..20 /\ at # 0 /\ talk' = talk /\ draft' = draft /\ disk' = disk /\ accepted' = accepted /\ typed' = typed
    BY <2>1, <2>2
  <2> QED
    BY <2>4, <2>5 DEF InterviewIInv
<1>2. CASE AskQuestion
  <2> DEFINE q == Questions[at]
  <2>1. at \in 1..19 /\ UNCHANGED <<talk, disk>>
    BY <1>2, <1>0 DEF AskQuestion
  <2>2. PICK t \in talk.replies[q] \cup {<<>>} :
             LET blocks == BlocksOf(q, t)
                 made == ApplyAnswer(draft, q, blocks)
             IN  /\ draft' = IF made.ok THEN made.f ELSE TakeBack(draft, made.f)
                 /\ accepted' = IF made.ok THEN accepted \o [i \in DOMAIN blocks |-> [q |-> q, b |-> blocks[i]]] ELSE accepted
                 /\ typed' = IF made.ok THEN Append(typed, [q |-> q, t |-> t]) ELSE typed
                 /\ at' = IF made.ok THEN at + 1 ELSE IF talk.terminal THEN at ELSE 0
    BY <1>2 DEF AskQuestion
  <2>3. q \in Asked /\ (q = "deploys" => at <= 17) /\ (q = "matters_most" => at = 18)
    <3>2. at \in 1..19
      BY <2>1
    <3>3. Questions[at] \in Asked /\ (Questions[at] = "deploys" => at <= 17) /\ (Questions[at] = "matters_most" => at = 18)
      BY <1>0, <3>2, Zenon
    <3> QED
      BY <3>3, Zenon
  <2> DEFINE blocks == BlocksOf(q, t)
  <2>4. t \in Seq(Members(t)) /\ (q \in DOMAIN BlockFields => \A n \in DOMAIN t : IsText(t[n]))
    <3>1. CASE t \in talk.replies[q]
      <4>1. /\ t \in Seq(ToSet(t))
            /\ q \in DOMAIN BlockFields => \A i \in DOMAIN t : t[i] \in Seq(ToSet(t[i]))
        BY <2>3, <3>1, InterviewAssumption DEF InterviewIInv, Asked
      <4>2. t \in Seq(Members(t))
        BY <4>1 DEF Members, ToSet
      <4>3. ASSUME q \in DOMAIN BlockFields, NEW n \in DOMAIN t PROVE IsText(t[n])
        <5>1. t[n] \in Seq(ToSet(t[n]))
          BY <4>1, <4>3
        <5> DEFINE s == t[n]
                   S == ToSet(s)
        <5>2. s \in Seq(S)
          BY <5>1
        <5> HIDE DEF S, s
        <5>3. Len(s) \in Nat /\ DOMAIN s = 1 .. Len(s)
          BY <5>2
        <5>4. IsText(s)
          BY <5>3 DEF IsText
        <5> QED
          BY <5>4 DEF s
      <4> QED
        BY <4>2, <4>3
    <3>2. CASE t = <<>>
      BY <3>2 DEF Members
    <3> QED
      BY <2>2, <3>1, <3>2
  <2>7. blocks \in Seq(Members(blocks)) /\ DOMAIN blocks = DOMAIN t /\ DOMAIN t = 1 .. Len(t) /\ Len(blocks) = Len(t)
    <3>1. CASE q \in DOMAIN BlockFields
      <4>1. blocks = [i \in DOMAIN t |-> BlockOf(q, t[i])]
        BY <3>1 DEF BlocksOf
      <4>2. Len(t) \in Nat /\ DOMAIN t = 1 .. Len(t)
        BY <2>4
      <4> HIDE DEF blocks, q
      <4> QED
        BY <4>1, <4>2 DEF Members
    <3>2. CASE q \notin DOMAIN BlockFields
      BY <2>4, <3>2 DEF BlocksOf
    <3> QED
      BY <3>1, <3>2
  <2>8. [q |-> q, t |-> t] \in Texts
    BY <2>2, <2>3 DEF Texts, InterviewIInv
  <2>9. q \in DOMAIN BlockFields => \A n \in DOMAIN t : blocks[n] = BlockOf(q, t[n])
    BY DEF BlocksOf
  <2>10. LET made == ApplyAnswer(draft, q, blocks)
         IN  /\ draft' = IF made.ok THEN made.f ELSE TakeBack(draft, made.f)
             /\ accepted' = IF made.ok THEN accepted \o [i \in DOMAIN blocks |-> [q |-> q, b |-> blocks[i]]] ELSE accepted
             /\ typed' = IF made.ok THEN Append(typed, [q |-> q, t |-> t]) ELSE typed
             /\ at' = IF made.ok THEN at + 1 ELSE IF talk.terminal THEN at ELSE 0
    BY <2>2
  <2> HIDE DEF blocks
  <2> HIDE DEF q
  <2> DEFINE made == ApplyAnswer(draft, q, blocks)
  <2>5. CASE made.ok
    <3>1. Applied(draft, q, blocks).ok /\ made.f = Applied(draft, q, blocks).f
      BY <2>5 DEF ApplyAnswer
    <3> HIDE DEF made
    <3> DEFINE all == accepted \o [i \in DOMAIN blocks |-> [q |-> q, b |-> blocks[i]]]
    <3>2. draft' = Applied(draft, q, blocks).f /\ accepted' = all /\ at' = at + 1 /\ typed' = Append(typed, [q |-> q, t |-> t])
      BY <2>10, <2>5, <3>1 DEF made
    <3>3. NonePicked(at) /\ accepted \in Seq(Saids) /\ Held(draft, talk.found, accepted, Len(accepted)) /\ disk = talk.found
      <4>1. at # 0
        BY <2>1
      <4> QED
        BY <4>1, Zenon DEF InterviewIInv
    <3>4. q = "deploys" => \A i \in 1 .. Len(accepted) : accepted[i].q # "matters_most"
      BY <2>1, <2>3, <3>3
    <3>5. HoldsAll(draft, talk.found, accepted, q, blocks, all)
      <4>1. all = accepted \o [i \in DOMAIN blocks |-> [q |-> q, b |-> blocks[i]]]
        OBVIOUS
      <4> HIDE DEF all
      <4> QED
        BY <2>3, <2>7, <3>1, <3>3, <3>4, <4>1, AnswerHolds, Zenon
    <3> HIDE DEF all
    <3>6. at' \in 1..18 => \A i \in 1 .. Len(all) : all[i].q # "matters_most"
      BY <2>1, <2>3, <3>2, <3>3, <3>5 DEF HoldsAll
    <3>7. at' \in 0..20
      BY <2>1, <3>2
    <3>8. talk' = talk /\ disk' = disk /\ talk \in Interviews
      BY <2>1 DEF InterviewIInv
    <3>9. typed' \in Seq(Texts) /\ \A k \in DOMAIN typed' : Noted(all, typed'[k])
      <4>1. typed \in Seq(Texts) /\ \A k \in DOMAIN typed : Noted(accepted, typed[k])
        BY DEF InterviewIInv
      <4>2. /\ \A i \in 1 .. Len(accepted) : i \in 1 .. Len(all) /\ all[i] = accepted[i]
            /\ \A i \in 1 .. Len(blocks) : \E j \in 1 .. Len(all) : all[j] = [q |-> q, b |-> blocks[i]]
        BY <3>5, Zenon DEF HoldsAll
      <4>3. ASSUME NEW k \in DOMAIN typed PROVE Noted(all, typed[k])
        BY <4>1, <4>2, Zenon DEF Noted
      <4>4. Noted(all, [q |-> q, t |-> t])
        <5> SUFFICES ASSUME q \in DOMAIN BlockFields, NEW n \in DOMAIN t
                     PROVE  IsText(t[n]) /\ \E i \in 1 .. Len(all) : all[i] = [q |-> q, b |-> BlockOf(q, t[n])]
          BY DEF Noted
        <5>1. n \in 1 .. Len(blocks) /\ blocks[n] = BlockOf(q, t[n])
          BY <2>7, <2>9
        <5>2. PICK j \in 1 .. Len(all) : all[j] = [q |-> q, b |-> blocks[n]]
          BY <4>2, <5>1, Zenon
        <5>3. all[j] = [q |-> q, b |-> BlockOf(q, t[n])]
          BY <5>1, <5>2, Zenon
        <5> QED
          BY <2>4, <5>3, Zenon
      <4> DEFINE x == [q |-> q, t |-> t]
      <4>5. x \in Texts /\ Noted(all, x) /\ typed' = Append(typed, x)
        BY <2>8, <3>2, <4>4
      <4> HIDE DEF x
      <4>6. \A k \in DOMAIN typed' : typed'[k] = x \/ (k \in DOMAIN typed /\ typed'[k] = typed[k])
        BY <4>1, <4>5
      <4>7. typed' \in Seq(Texts)
        BY <4>1, <4>5
      <4>8. \A k \in DOMAIN typed' : Noted(all, typed'[k])
        BY <4>3, <4>5, <4>6, Zenon
      <4> QED
        BY <4>7, <4>8
    <3>10. talk' \in Interviews /\ accepted' \in Seq(Saids) /\ at' \in 0..20 /\ Held(draft', talk'.found, accepted', Len(accepted'))
      BY <3>2, <3>5, <3>7, <3>8 DEF HoldsAll
    <3> QED
      BY <3>2, <3>3, <3>6, <3>8, <3>9, <3>10 DEF InterviewIInv
  <2>6. CASE ~made.ok
    <3>1. draft' = draft /\ accepted' = accepted /\ typed' = typed /\ at' \in {at, 0}
      BY <2>10, <2>6 DEF TakeBack
    <3>2. talk' = talk /\ disk' = disk /\ at # 0 /\ at' \in 0..20 /\ (at' \in 1..18 => at \in 1..18)
      BY <2>1, <3>1
    <3>3. draft' = draft /\ accepted' = accepted /\ typed' = typed
      BY <3>1
    <3> HIDE DEF made
    <3> QED
      BY <3>2, <3>3, Zenon DEF InterviewIInv
  <2> QED
    BY <2>5, <2>6
<1>3. CASE CutOff
  BY <1>3 DEF CutOff, InterviewIInv
<1>4. CASE WriteFile
  BY <1>4, <1>0 DEF WriteFile, InterviewIInv
<1>5. CASE UNCHANGED interviewVars
  BY <1>5 DEF interviewVars, InterviewIInv
<1> QED
  BY <1>1, <1>2, <1>3, <1>4, <1>5 DEF InterviewNext

\* What init writes is what it heard of the accepted answers: of every
\* paragraph typed a block with each line not passed over or given again, in
\* the file every fact of every accepted block unless said again, and no other
\* that the file found did not say: cmd/scheck/init.go runInit and interview.go
\* Answer and blocksOf, for any file, questions left and replies, refused ones
\* included.
THEOREM AlwaysWrittenAsHeard == InterviewSpec => []WrittenAsHeard
<1>1. InterviewIInv => WrittenAsHeard
  <2> SUFFICES ASSUME InterviewIInv, disk # talk.found
               PROVE  /\ \A k \in DOMAIN typed : typed[k].q \in DOMAIN BlockFields =>
                            \A n \in DOMAIN typed[k].t : \E i \in DOMAIN accepted :
                                accepted[i].q = typed[k].q /\ Hears(typed[k].q, typed[k].t[n], accepted[i].b)
                      /\ \A i \in DOMAIN accepted : Kept(i)
                      /\ Facts(disk) \subseteq Facts(talk.found) \cup Said
    BY DEF WrittenAsHeard
  <2>1. disk = draft /\ DOMAIN accepted = 1 .. Len(accepted)
    BY DEF InterviewIInv
  <2>2. Said = Given(accepted, Len(accepted))
    BY <2>1 DEF Said, Given
  <2>3. /\ \A i \in DOMAIN accepted : accepted[i].b \in Blocks(accepted[i].q) /\ Kept(i)
        /\ Facts(disk) \subseteq Facts(talk.found) \cup Said
    BY <2>1, <2>2 DEF InterviewIInv, Held, Kept
  <2>4. ASSUME NEW k \in DOMAIN typed, typed[k].q \in DOMAIN BlockFields, NEW n \in DOMAIN typed[k].t
        PROVE  \E i \in DOMAIN accepted : accepted[i].q = typed[k].q /\ Hears(typed[k].q, typed[k].t[n], accepted[i].b)
    <3> DEFINE q == typed[k].q
               p == typed[k].t[n]
    <3>1. Noted(accepted, typed[k])
      BY DEF InterviewIInv
    <3>2. IsText(p) /\ \E i \in DOMAIN accepted : accepted[i] = [q |-> q, b |-> BlockOf(q, p)]
      BY <2>1, <2>4, <3>1, Zenon DEF Noted
    <3>3. PICK i \in DOMAIN accepted : accepted[i] = [q |-> q, b |-> BlockOf(q, p)]
      BY <3>2
    <3> HIDE DEF q, p
    <3>4. accepted[i].q = q /\ accepted[i].b = BlockOf(q, p)
      BY <3>3
    <3>5. BlockOf(q, p) \in Blocks(q)
      BY <2>3, <3>4, Zenon
    <3>6. q \in DOMAIN BlockFields
      BY <2>4 DEF q
    <3>7. Hears(q, p, BlockOf(q, p))
      BY <3>2, <3>5, <3>6, BlockHears, Zenon
    <3>8. accepted[i].q = q /\ Hears(q, p, accepted[i].b)
      BY <3>4, <3>7, Zenon
    <3> QED
      BY <3>8 DEF q, p
  <2> QED
    BY <2>3, <2>4
<1> QED
  BY <1>1, InterviewStarts, InterviewSteps, PTL DEF InterviewSpec
=============================================================================
