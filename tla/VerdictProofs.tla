---------------------------- MODULE VerdictProofs ----------------------------
(***************************************************************************)
(* Theorems of what a run concludes: the store of findings (Findings),     *)
(* their grades (Severity), the report (Report), the two loops that ask a  *)
(* model, the agent arm (Agent) and the bounded arm (Bounded), and the     *)
(* rules of a Workspace tenant (TenantRules) and of a host (HostRules).    *)
(* Each is an invariant of its own specification, from an inductive one    *)
(* stated first; the grades' is of its steps.                              *)
(***************************************************************************)
EXTENDS Findings, Severity, Report, Agent, Bounded, TenantRules, HostRules, FiniteSetTheorems, WellFoundedInduction, TLAPS

-----------------------------------------------------------------------------
(* The store of findings.                                                  *)
StoreSpec == NewStore /\ [][StoreNext]_storeVars

Categories == {Catalog[id].category : id \in DOMAIN Catalog} \cup {"custom"}
FindingRecords == [source : {"rule", "model"}, custom : BOOLEAN, service : Listeners \cup {NoService},
                   confidence : 1..3, evidence : SUBSET (Evidences \cup {"rule"}), base : 0..4,
                   category : Categories]

\* A rule's finding is one its rules matched and a custom one is outside the
\* catalog: so a premise that is a finding was matched, or never disproved.
StoreIInv ==
    /\ VerdictsApart /\ DisprovedStays
    /\ \A id \in DOMAIN findings :
          /\ id \in DOMAIN Catalog \cup CustomIds /\ findings[id] \in FindingRecords
          /\ findings[id].custom => id \in CustomIds
          /\ findings[id].source = "rule" => ~findings[id].custom /\ "matched" \in assessed[id]

-----------------------------------------------------------------------------
(* What the table makes of a finding.                                      *)

Grades(f) == {g \in [sev : 0..4, raised : BOOLEAN] : g.sev > High => g.raised \/ f.base > High}

LEMMA Shifted == ASSUME NEW sev \in 0..4, NEW delta \in Int PROVE Shift(sev, delta) \in 0..4
  BY DEF Shift, Critical

LEMMA AppliedGrade ==
    ASSUME NEW f \in FindingRecords, NEW g \in Grades(f), NEW a, a.delta \in Int
    PROVE  Apply(f, g, a) \in Grades(f)
<1> DEFINE next == Shift(g.sev, a.delta)
<1>1. g.sev \in 0..4 /\ g.raised \in BOOLEAN /\ (g.sev > High => g.raised \/ f.base > High)
  BY DEF Grades
<1>2. next \in 0..4
  BY <1>1, Shifted
<1>3. Apply(f, g, a) = IF ~a.on \/ (f.custom /\ next > g.sev) THEN g
                       ELSE [sev |-> next, raised |-> g.raised \/ (next > High /\ g.sev <= High)]
  BY Zenon DEF Apply
<1> HIDE DEF next
<1> DEFINE up == g.raised \/ (next > High /\ g.sev <= High)
<1>4. up \in BOOLEAN /\ (next > High => up \/ f.base > High)
  BY <1>1, <1>2 DEF High
<1> HIDE DEF up
<1>5. [sev |-> next, raised |-> up] \in Grades(f)
  BY <1>2, <1>4 DEF Grades
<1> QED
  BY <1>3, <1>5 DEF up

LEMMA TableGrade ==
    ASSUME NEW f \in FindingRecords, NEW c
    PROVE  Graded(f, c) \in 0..4 /\ (Graded(f, c) > High => f.base > High)
<1> DEFINE start == [sev |-> f.base, raised |-> FALSE]
           t == Adjustments(f, c)
           table == IF c.given
                    THEN Apply(f, Apply(f, Apply(f, Apply(f, Apply(f, start, t[1]), t[2]), t[3]), t[4]), t[5])
                    ELSE start
<1>1. start \in Grades(f)
  BY DEF Grades, FindingRecords, High
<1>2. \A i \in 1..5 : t[i].delta \in Int
  BY DEF Adjustments, FindingRecords
<1> HIDE DEF start, t
<1>3. Apply(f, start, t[1]) \in Grades(f)
  BY <1>1, <1>2, AppliedGrade
<1>4. Apply(f, Apply(f, start, t[1]), t[2]) \in Grades(f)
  BY <1>2, <1>3, AppliedGrade
<1>5. Apply(f, Apply(f, Apply(f, start, t[1]), t[2]), t[3]) \in Grades(f)
  BY <1>2, <1>4, AppliedGrade
<1>6. Apply(f, Apply(f, Apply(f, Apply(f, start, t[1]), t[2]), t[3]), t[4]) \in Grades(f)
  BY <1>2, <1>5, AppliedGrade
<1>7. table \in Grades(f)
  BY <1>1, <1>2, <1>6, AppliedGrade
<1>8. Graded(f, c) = LET capped == IF table.raised /\ table.sev > High THEN High ELSE table.sev
                     IN  IF f.custom /\ capped > Medium THEN Medium ELSE capped
  BY DEF Graded, start, t
<1> HIDE DEF table
<1>9. table.sev \in 0..4 /\ (table.sev > High => table.raised \/ f.base > High) /\ f.base \in 0..4
  BY <1>7 DEF Grades, FindingRecords
<1> DEFINE capped == IF table.raised /\ table.sev > High THEN High ELSE table.sev
<1>10. capped \in 0..4 /\ (capped > High => f.base > High)
  BY <1>9 DEF High
<1> HIDE DEF capped
<1>11. Graded(f, c) = IF f.custom /\ capped > Medium THEN Medium ELSE capped
  BY <1>8 DEF capped
<1> QED
  BY <1>10, <1>11 DEF Medium, High

-----------------------------------------------------------------------------
(* The store's steps.                                                      *)

LEMMA CandidateFinding ==
    ASSUME NEW c \in Reports
    PROVE  /\ c.id \in DOMAIN Catalog \cup CustomIds /\ AsFinding(c) \in FindingRecords
           /\ AsFinding(c).source = "model" /\ (AsFinding(c).custom <=> c.id \in CustomIds)
<1>1. c \in Candidate
  BY ReportsAssumption DEF ReportsAssumption
<1>2. c.id \notin CustomIds => Catalog[c.id].base \in 0..4 /\ Catalog[c.id].category \in Categories
  BY <1>1, CatalogAssumption DEF CatalogAssumption, Categories, Candidate
<1>3. c.proposed \in 0..4 /\ c.id \in DOMAIN Catalog \cup CustomIds /\ c.confidence \in 1..3
      /\ c.evidence \in SUBSET Evidences /\ c.service \in Listeners \cup {NoService}
  BY <1>1 DEF Candidate, Critical
<1> DEFINE base == IF c.id \notin CustomIds THEN Catalog[c.id].base ELSE IF c.proposed > Medium THEN Medium ELSE c.proposed
           category == IF c.id \in CustomIds THEN "custom" ELSE Catalog[c.id].category
           custom == c.id \in CustomIds
<1>4. base \in 0..4 /\ category \in Categories
  BY <1>2, <1>3 DEF Medium, Categories
<1>8. custom \in BOOLEAN
  OBVIOUS
<1>5. AsFinding(c) = [source |-> "model", custom |-> custom, service |-> c.service, confidence |-> c.confidence,
                      evidence |-> c.evidence, base |-> base, category |-> category]
  BY DEF AsFinding
<1>6. c.evidence \in SUBSET (Evidences \cup {"rule"})
  BY <1>3
<1> HIDE DEF base, category, custom
<1>7. AsFinding(c) \in FindingRecords
  BY <1>3, <1>4, <1>5, <1>6, <1>8 DEF FindingRecords
<1>9. AsFinding(c).source = "model" /\ AsFinding(c).custom = custom
  BY <1>5
<1> QED
  BY <1>3, <1>7, <1>9 DEF custom

\* A merge keeps what a finding is; of one of the rules, how sure it is too.
LEMMA Merged ==
    ASSUME NEW f \in FindingRecords, NEW in \in FindingRecords
    PROVE  LET m == Merge(f, in)
           IN  /\ m \in FindingRecords
               /\ m.source = f.source /\ m.custom = f.custom /\ m.base = f.base /\ m.category = f.category
               /\ f.evidence \subseteq m.evidence
               /\ f.source = "rule" => m.confidence = f.confidence
<1> DEFINE e == f.evidence \cup in.evidence
           v == IF f.service = NoService THEN in.service ELSE f.service
           k == IF f.source = "model" /\ in.confidence > f.confidence THEN in.confidence ELSE f.confidence
<1>1. Merge(f, in) = [f EXCEPT !.evidence = e, !.service = v, !.confidence = k]
  BY DEF Merge, FindingRecords
<1>2. e \in SUBSET (Evidences \cup {"rule"}) /\ f.evidence \subseteq e
  BY DEF FindingRecords
<1>3. v \in Listeners \cup {NoService}
  BY DEF FindingRecords
<1>4. k \in 1..3 /\ (f.source = "rule" => k = f.confidence)
  BY DEF FindingRecords
<1> HIDE DEF e, v, k
<1>5. [f EXCEPT !.evidence = e, !.service = v, !.confidence = k] \in FindingRecords
  BY <1>2, <1>3, <1>4 DEF FindingRecords
<1> QED
  BY <1>1, <1>2, <1>4, <1>5 DEF FindingRecords

LEMMA ReportHolds ==
    ASSUME StoreIInv, NEW c \in Reports, Report(c)
    PROVE  StoreIInv'
<1> DEFINE v == IF Seeded(c.id) THEN Merge(findings[c.id], AsFinding(c)) ELSE AsFinding(c)
<1>1. /\ Valid(c) /\ findings' = With(findings, c.id, v)
      /\ ruledOut' = IF Seeded(c.id) THEN ruledOut ELSE ruledOut \ {c.id}
      /\ assessed' = assessed /\ context' = context
  BY DEF Report
<1>2. /\ c.id \in DOMAIN Catalog \cup CustomIds /\ AsFinding(c) \in FindingRecords
      /\ AsFinding(c).source = "model" /\ (AsFinding(c).custom <=> c.id \in CustomIds)
  BY CandidateFinding
<1>3. Seeded(c.id) => findings[c.id] \in FindingRecords
  BY DEF StoreIInv, Seeded
<1>4. /\ v \in FindingRecords
      /\ Seeded(c.id) => v.source = findings[c.id].source /\ v.custom = findings[c.id].custom
      /\ ~Seeded(c.id) => v.source = "model" /\ (v.custom <=> c.id \in CustomIds)
  BY <1>2, <1>3, Merged
<1> HIDE DEF v
<1>5. /\ DOMAIN findings' = DOMAIN findings \cup {c.id} /\ findings'[c.id] = v
      /\ \A x \in DOMAIN findings : x # c.id => findings'[x] = findings[x]
  BY <1>1 DEF With
<1>6. VerdictsApart'
  BY <1>1, <1>5 DEF StoreIInv, VerdictsApart, Seeded
<1>7. ASSUME NEW x \in DOMAIN findings'
      PROVE  /\ x \in DOMAIN Catalog \cup CustomIds /\ findings'[x] \in FindingRecords
             /\ findings'[x].custom => x \in CustomIds
             /\ findings'[x].source = "rule" => ~findings'[x].custom /\ "matched" \in assessed'[x]
  <2>1. CASE x = c.id
    BY <1>1, <1>2, <1>4, <1>5, <2>1 DEF StoreIInv, Seeded
  <2>2. CASE x # c.id
    BY <1>1, <1>5, <1>7, <2>2 DEF StoreIInv
  <2> QED
    BY <2>1, <2>2
<1>8. ASSUME NEW x \in DOMAIN findings', findings'[x].source = "model", ~findings'[x].custom,
             NEW p \in Catalog[x].premise \cup {x}, Disproved(p)
      PROVE  "matched" \in assessed[p]
  <2>1. CASE x \in DOMAIN findings
    <3>1. findings[x].source = "model" /\ ~findings[x].custom
      BY <1>4, <1>5, <1>8, <2>1 DEF Seeded
    <3> QED
      BY <1>8, <2>1, <3>1 DEF StoreIInv, DisprovedStays
  <2>2. CASE x \notin DOMAIN findings
    <3>1. x = c.id /\ x \notin CustomIds /\ ~Seeded(x)
      BY <1>4, <1>5, <1>8, <2>2 DEF Seeded
    <3>2. RuleAllows(x) /\ x \in DOMAIN Catalog
      BY <1>1, <1>2, <3>1 DEF Valid
    <3>3. p # x /\ p \in Catalog[x].premise /\ Seeded(p)
      BY <1>8, <3>1, <3>2 DEF RuleAllows
    <3>4. p \in DOMAIN Catalog /\ p \notin CustomIds /\ p \in DOMAIN findings
      BY <3>2, <3>3, CatalogAssumption DEF CatalogAssumption, Seeded
    <3>5. ~findings[p].custom /\ findings[p].source \in {"rule", "model"}
      BY <3>4 DEF StoreIInv, FindingRecords
    <3>6. findings[p].source = "model" => "matched" \in assessed[p]
      BY <1>8, <3>4, <3>5 DEF StoreIInv, DisprovedStays
    <3> QED
      BY <3>4, <3>5, <3>6 DEF StoreIInv
  <2> QED
    BY <2>1, <2>2
<1>9. DisprovedStays'
  BY <1>1, <1>8 DEF DisprovedStays, Disproved
<1> QED
  BY <1>6, <1>7, <1>9 DEF StoreIInv

LEMMA StoreInvariant == StoreSpec => []StoreIInv
<1>1. NewStore => StoreIInv
  <2> SUFFICES ASSUME NewStore PROVE StoreIInv
    OBVIOUS
  <2>1. /\ DOMAIN findings = {i \in DOMAIN Catalog : "matched" \in assessed[i]} /\ ruledOut = {}
        /\ \A id \in DOMAIN findings : findings[id] = Seed(id)
    BY DEF NewStore
  <2>2. ASSUME NEW id \in DOMAIN Catalog PROVE Seed(id) \in FindingRecords
    BY CatalogAssumption DEF Seed, FindingRecords, Categories, CatalogAssumption
  <2>3. ASSUME NEW id \in DOMAIN findings PROVE findings[id].source = "rule" /\ findings[id].custom = FALSE
    <3>1. findings[id] = Seed(id)
      BY <2>1
    <3> QED
      BY <3>1 DEF Seed
  <2> QED
    BY <2>1, <2>2, <2>3 DEF StoreIInv, VerdictsApart, DisprovedStays
<1>2. ASSUME StoreIInv, NEW c \in Reports, RuleOut(c) PROVE StoreIInv'
  BY <1>2 DEF StoreIInv, RuleOut, VerdictsApart, DisprovedStays, Seeded, Disproved
<1>3. StoreIInv /\ UNCHANGED storeVars => StoreIInv'
  BY DEF StoreIInv, storeVars, VerdictsApart, DisprovedStays, Disproved
<1>4. StoreIInv /\ [StoreNext]_storeVars => StoreIInv'
  BY <1>2, <1>3, ReportHolds DEF StoreNext
<1> QED
  BY <1>1, <1>4, PTL DEF StoreSpec

\* A finding and its denial never both stand, nothing the rules disproved is
\* raised, and the table stops at high, for any catalog, rules, reports and
\* context (store.go Report, RuleOut, ruleAllows; grade.go Grade).
THEOREM StoreAlwaysSound == StoreSpec => []StoreSound
<1>1. StoreIInv => StoreSound
  <2> SUFFICES ASSUME StoreIInv PROVE StoreSound
    OBVIOUS
  <2>1. TableStopsAtHigh
    BY TableGrade DEF StoreIInv, TableStopsAtHigh
  <2> QED
    BY <2>1 DEF StoreIInv, StoreSound
<1> QED
  BY <1>1, StoreInvariant, PTL

\* What a posture rule found is the floor of every later report (store.go
\* merge, grade.go Grade).
THEOREM FloorAlwaysKept == StoreSpec => FloorKept
<1> DEFINE Floor ==
        \A id \in DOMAIN findings : findings[id].source = "rule" =>
          /\ id \in DOMAIN findings'
          /\ LET was == findings[id] now == findings'[id]
             IN  /\ now.source = "rule" /\ GradedConfidence(now) = GradedConfidence(was)
                 /\ was.evidence \subseteq now.evidence
                 /\ Graded(now, context) >= Graded(was, context) \/ was.service # now.service
<1>1. ASSUME StoreIInv, NEW id \in DOMAIN findings, id \in DOMAIN findings', findings'[id] = findings[id],
             findings[id].source = "rule"
      PROVE  LET was == findings[id] now == findings'[id]
             IN  /\ now.source = "rule" /\ GradedConfidence(now) = GradedConfidence(was)
                 /\ was.evidence \subseteq now.evidence
                 /\ Graded(now, context) >= Graded(was, context) \/ was.service # now.service
  <2>1. Graded(findings[id], context) \in 0..4
    BY <1>1, TableGrade DEF StoreIInv
  <2>2. Graded(findings'[id], context) >= Graded(findings[id], context)
    BY <1>1, <2>1
  <2> QED
    BY <1>1, <2>2
<1>2. ASSUME StoreIInv, NEW c \in Reports, Report(c), NEW id \in DOMAIN findings, findings[id].source = "rule"
      PROVE  /\ id \in DOMAIN findings'
             /\ LET was == findings[id] now == findings'[id]
                IN  /\ now.source = "rule" /\ GradedConfidence(now) = GradedConfidence(was)
                    /\ was.evidence \subseteq now.evidence
                    /\ Graded(now, context) >= Graded(was, context) \/ was.service # now.service
  <2>1. /\ DOMAIN findings' = DOMAIN findings \cup {c.id}
        /\ id # c.id => findings'[id] = findings[id]
        /\ id = c.id => findings'[id] = Merge(findings[id], AsFinding(c))
    BY <1>2 DEF Report, With, Seeded
  <2>2. CASE id # c.id
    BY <1>1, <1>2, <2>1, <2>2
  <2>3. CASE id = c.id
    <3> DEFINE was == findings[id]
               now == Merge(findings[id], AsFinding(c))
    <3>1. was \in FindingRecords /\ AsFinding(c) \in FindingRecords
      BY <1>2, CandidateFinding DEF StoreIInv
    <3>2. /\ now \in FindingRecords
          /\ now.source = was.source /\ now.custom = was.custom /\ now.base = was.base /\ now.category = was.category
          /\ was.evidence \subseteq now.evidence /\ now.confidence = was.confidence
      BY <1>2, <3>1, Merged
    <3>3. findings'[id] = now /\ was.source = "rule"
      BY <1>2, <2>1, <2>3
    <3> HIDE DEF now, was
    <3>4. GradedConfidence(now) = GradedConfidence(was)
      BY <3>2 DEF GradedConfidence
    <3>5. ASSUME now.service = was.service PROVE Graded(now, context) >= Graded(was, context)
      <4>5. now.base = was.base /\ now.service = was.service /\ now.category = was.category
        BY <3>2, <3>5
      <4>1. Adjustments(now, context) = Adjustments(was, context)
        BY <4>5, Zenon DEF Adjustments
      <4>2. \A g, a : Apply(now, g, a) = Apply(was, g, a)
        BY <3>2, Zenon DEF Apply
      <4>3. Graded(now, context) = Graded(was, context)
        BY <3>2, <4>1, <4>2 DEF Graded
      <4>4. Graded(was, context) \in 0..4
        BY <3>1, TableGrade
      <4> QED
        BY <4>3, <4>4
    <3>6. /\ now.source = "rule" /\ GradedConfidence(now) = GradedConfidence(was)
          /\ was.evidence \subseteq now.evidence
          /\ Graded(now, context) >= Graded(was, context) \/ was.service # now.service
      BY <3>2, <3>3, <3>4, <3>5
    <3> QED
      BY <2>1, <3>3, <3>6 DEF was
  <2> QED
    BY <2>2, <2>3
<1>3. ASSUME StoreIInv, NEW c \in Reports, RuleOut(c) PROVE Floor
  <2>1. findings' = findings
    BY <1>3 DEF RuleOut
  <2> QED
    BY <1>1, <1>3, <2>1
<1>4. StoreIInv /\ StoreNext => Floor
  BY <1>2, <1>3 DEF StoreNext
<1> HIDE DEF Floor
<1>5. StoreIInv /\ [StoreNext]_storeVars => [Floor]_storeVars
  BY <1>4
<1>6. StoreSpec => [][Floor]_storeVars
  BY <1>5, StoreInvariant, PTL DEF StoreSpec
<1> QED
  BY <1>6 DEF FloorKept, Floor

-----------------------------------------------------------------------------
(* The report: what it says of an acceptance, and of an absence.           *)
ReportSpec == ReportInit /\ [][ReportNext]_reportVars

\* A world of hosts has no subjects to lose, and a check with no command here,
\* or of another platform, had nothing to find.
ReportIInv ==
    /\ onHost \in BOOLEAN /\ entries \in EntryLists
    /\ live \subseteq (IF onHost THEN Members ELSE Instances)
    /\ got \in [DOMAIN Owner -> {"none", "read", "unread", "unlisted", "cut"}]
    /\ ~onHost => NamesOne \/ OnePerAsset(Instances)
    /\ checks \in [Members -> {"whole", "partial", "seen", "failed", "missing", "elsewhere"}]
    /\ onHost => got = Whole
    /\ \A m \in Members : checks[m] \in {"missing", "elsewhere"} => m \notin live

LEMMA ReportInvariant == ReportSpec => []ReportIInv
<1>1. ReportInit => ReportIInv
  <2> SUFFICES ASSUME ReportInit PROVE ReportIInv
    OBVIOUS
  <2>1. CASE got = Whole
    <3>1. got \in [DOMAIN Owner -> {"none", "read", "unread", "unlisted", "cut"}] /\ (PerAsset => OnePerAsset(Instances))
      <4>1. ASSUME PerAsset PROVE OnePerAsset(Instances)
        <5>1. PICK S \in SUBSET DOMAIN Owner : OnePerAsset(S) /\ got = OnlyOn(S)
          BY <4>1 DEF PerAsset
        <5>2. Instances = S
          BY <5>1 DEF OnlyOn, Instances
        <5> QED
          BY <5>1, <5>2
      <4> QED
        BY <2>1, <4>1 DEF Whole
    <3> QED
      BY <2>1, <3>1 DEF ReportInit, ReportIInv, ValidWorld, PerSubject
  <2>2. CASE got # Whole
    <3>1. ~onHost /\ PerAsset
      BY <2>2 DEF ReportInit, ValidWorld, PerSubject
    <3>2. PICK S \in SUBSET DOMAIN Owner : OnePerAsset(S) /\ got = OnlyOn(S)
      BY <3>1 DEF PerAsset
    <3>3. Instances = S /\ got \in [DOMAIN Owner -> {"none", "read", "unread", "unlisted", "cut"}]
      BY <3>2 DEF OnlyOn, Instances
    <3> QED
      BY <3>1, <3>2, <3>3 DEF ReportInit, ReportIInv
  <2> QED
    BY <2>1, <2>2
<1>2. ReportIInv /\ [ReportNext]_reportVars => ReportIInv'
  <2> SUFFICES ASSUME ReportIInv, [ReportNext]_reportVars PROVE ReportIInv'
    OBVIOUS
  <2>1. ASSUME NEW s \in DOMAIN Owner, NEW how \in {"unread", "unlisted", "cut"}, ~onHost, LoseRead(s, how)
        PROVE  ReportIInv'
    <3>1. /\ got \in [DOMAIN Owner -> {"none", "read", "unread", "unlisted", "cut"}]
          /\ got[s] = "read" /\ got' = [got EXCEPT ![s] = how] /\ UNCHANGED <<live, checks, entries, superseded, onHost>>
      BY <2>1 DEF ReportIInv, LoseRead
    <3>2. Instances' = Instances
      BY <2>1, <3>1 DEF Instances
    <3>3. got' \in [DOMAIN Owner -> {"none", "read", "unread", "unlisted", "cut"}]
      BY <2>1, <3>1
    <3>4. NamesOne' = NamesOne /\ OnePerAsset(Instances)' = OnePerAsset(Instances)
      BY <3>1, <3>2 DEF NamesOne, OnePerAsset
    <3> QED
      BY <2>1, <3>1, <3>2, <3>3, <3>4 DEF ReportIInv
  <2>2. ASSUME NEW m \in Members, NEW how \in {"partial", "failed", "seen", "missing", "elsewhere"}, onHost,
               how \in {"missing", "elsewhere"} => m \notin live, LoseCheck(m, how)
        PROVE  ReportIInv'
    BY <2>2 DEF ReportIInv, LoseCheck, Whole, Instances, NamesOne, OnePerAsset
  <2>3. CASE UNCHANGED reportVars
    BY <2>3 DEF ReportIInv, reportVars, Whole, Instances, NamesOne, OnePerAsset
  <2> QED
    BY <2>1, <2>2, <2>3 DEF ReportNext
<1> QED
  BY <1>1, <1>2, PTL DEF ReportSpec

\* The last of a bounded set of positions is one of them.
LEMMA LatestIn ==
    ASSUME NEW n \in Nat, NEW S \in SUBSET (1..n), S # {}
    PROVE  Latest(S) \in S
<1> DEFINE T == {n - k : k \in S}
<1>1. T \in SUBSET Nat /\ T # {}
  <2>1. \A k \in S : n - k \in Nat
    <3> TAKE k \in S
    <3>1. k \in 1..n
      OBVIOUS
    <3> QED
      BY <3>1
  <2> QED
    BY <2>1
<1>2. PICK m \in T : \A k \in T : ~(<<k, m>> \in OpToRel(<, Nat))
  BY <1>1, NatLessThanWellFounded, WFMin
<1>3. PICK i \in S : m = n - i
  BY <1>2
<1>4. \A k \in S : k <= i
  <2> TAKE k \in S
  <2>1. n - k \in T /\ n - k \in Nat /\ n - i \in Nat /\ k \in Nat /\ i \in Nat
    OBVIOUS
  <2>2. n - k < n - i => <<n - k, m>> \in OpToRel(<, Nat)
    BY <1>3, <2>1 DEF OpToRel
  <2>3. ~(n - k < n - i)
    BY <1>2, <2>1, <2>2
  <2> QED
    BY <2>1, <2>3
<1> QED
  BY <1>4 DEF Latest

\* The entry that takes effect on a subject names it.
LEMMA EffectiveNames ==
    ASSUME ReportIInv, NEW s, Effective(s) # 0
    PROVE  Effective(s) \in DOMAIN entries /\ Names(entries[Effective(s)], s)
<1> DEFINE S == {i \in DOMAIN entries : Names(entries[i], s)}
<1>1. PICK n \in Nat : DOMAIN entries = 1..n
  BY EntriesAssumption DEF ReportIInv, EntriesAssumption
<1>2. S # {} /\ Effective(s) = Latest(S)
  BY DEF Effective, Latest
<1>3. Latest(S) \in S
  BY <1>1, <1>2, LatestIn
<1> QED
  BY <1>2, <1>3

\* A judgment that fired is of an instance.
LEMMA FiredIsThere ==
    ASSUME ReportIInv, NEW s \in DOMAIN Owner, VerdictOn(s) = "fired"
    PROVE  s \in Instances
  BY DEF VerdictOn, ReportIInv, Instances, Whole

\* What an applied entry says, and what a finding accepted under it says, are
\* of one set of instances, read at one time.
LEMMA AppliedIsAccepted ==
    ASSUME ReportIInv, NEW i \in DOMAIN entries
    PROVE  JudgedOutcome(i) = "applied" <=> \E s \in DOMAIN Owner \ Unseen : Reported(s) /\ AcceptedBy(s) = i
<1> DEFINE e == entries[i]
           on(verdict) == {s \in Judged(e.asset, verdict) : e.subject \in {"any", s}}
           fired == {s \in on("fired") : Reported(s)}
           at == AcceptanceAt(i)
<1>1. i # 0
  BY EntriesAssumption DEF ReportIInv, EntriesAssumption
<1>2. JudgedOutcome(i) = "applied" <=>
         fired # {} /\ ~(\A s \in fired : Effective(s) # i) /\ at # 0 /\ ~Expired(e, at)
  BY DEF JudgedOutcome
<1>3. \A s : s \in fired <=> /\ s \in DOMAIN Owner \ Unseen /\ Names(e, s) /\ Reported(s)
  <2>1. \A s \in DOMAIN Owner : Reported(s) => s \in Instances
    BY FiredIsThere DEF Reported
  <2> QED
    BY <2>1 DEF Judged, Listed, SubjectsOf, Names, Reported, Instances
<1> HIDE DEF fired
<1>4. Holds(i) <=> at # 0 /\ ~Expired(e, at)
  BY DEF Holds
<1> HIDE DEF at
<1>5. ASSUME NEW s \in DOMAIN Owner \ Unseen, Reported(s)
      PROVE  AcceptedBy(s) = i <=> s \in fired /\ Effective(s) = i /\ Holds(i)
  <2>1. AcceptedBy(s) = i <=> Effective(s) = i /\ Holds(i)
    BY <1>1 DEF AcceptedBy
  <2>2. Effective(s) = i => Names(e, s)
    BY <1>1, EffectiveNames
  <2> QED
    BY <1>3, <1>5, <2>1, <2>2
<1> QED
  BY <1>2, <1>3, <1>4, <1>5

\* An entry is applied exactly when a finding is accepted under it, and exit 0
\* is said of nothing left open, for any instances, reads lost and entries
\* (judged.go reported, acceptanceAt, effective, judgedOutcome; build.go exit).
THEOREM OutcomesAlwaysAgree == ReportSpec => []OutcomesAgree
<1>1. ASSUME ReportIInv, ~onHost, NEW i \in DOMAIN entries
      PROVE  Outcome(i) = "applied" <=> \E s \in DOMAIN Owner \ Unseen : Reported(s) /\ AcceptedBy(s) = i
  BY <1>1, AppliedIsAccepted DEF Outcome
<1>2. ASSUME ReportIInv, Exit = 0, Rating >= Threshold, onHost, HostAssessment.status = "matched"
      PROVE  Applying # 0 /\ ~Expired(entries[Applying], HostDay)
  <2>1. ~OpenAbove
    BY <1>2 DEF Exit
  <2>2. PICK i \in DOMAIN entries : HostOutcome(i) = "applied"
    BY <1>2, <2>1 DEF OpenAbove, HostOpen
  <2>3. i # 0
    BY <1>2, EntriesAssumption DEF ReportIInv, EntriesAssumption
  <2>4. Applying = i /\ ~Expired(entries[i], HostDay)
    BY <1>2, <2>2 DEF HostOutcome
  <2> QED
    BY <2>3, <2>4
<1>3. ASSUME ReportIInv, Exit = 0, Rating >= Threshold, ~onHost, NEW s \in live \ superseded
      PROVE  got[s] # "cut" /\ (got[s] = "read" => AcceptedBy(s) # 0)
  <2>1. Status = "collected" /\ ~OpenAbove /\ s \in DOMAIN Owner
    BY <1>3 DEF Exit, ReportIInv, Instances
  <2>2. got[s] # "cut"
    BY <2>1 DEF Status
  <2>3. ASSUME got[s] = "read" PROVE AcceptedBy(s) # 0
    <3>1. s \in DOMAIN Owner \ Unseen /\ Reported(s)
      BY <1>3, <2>1, <2>3 DEF Unseen, Reported, VerdictOn
    <3>2. OpenFindings = {}
      BY <1>3, <2>1 DEF OpenAbove
    <3> QED
      BY <3>1, <3>2 DEF OpenFindings
  <2> QED
    BY <2>2, <2>3
<1>4. ReportIInv => ExitEarned
  BY <1>2, <1>3 DEF ExitEarned
<1>5. ReportIInv => OutcomesAgree
  BY <1>1, <1>4 DEF OutcomesAgree
<1> QED
  BY <1>5, ReportInvariant, PTL

\* A host's family decided as "not matched" on complete evidence holds nothing:
\* a rule whose part is there neither failed unexcused nor answered from a part.
LEMMA NothingOnHost ==
    ASSUME ReportIInv, onHost, HostAssessment.status = "not_matched", HostAssessment.complete
    PROVE  live = {}
<1> DEFINE is(status) == {m \in Members : MemberStatus(m) = status}
<1>1. is("matched") = {} /\ FamilyComplete
  BY DEF HostAssessment
<1>2. ASSUME NEW m \in live PROVE FALSE
  <2>1. m \in Members /\ checks[m] \in {"whole", "partial", "seen", "failed"}
    BY <1>2 DEF ReportIInv
  <2>2. MemberStatus(m) # "matched"
    BY <1>1, <2>1
  <2>3. checks[m] # "whole" /\ checks[m] # "seen"
    BY <1>2, <2>1, <2>2 DEF MemberStatus
  <2>4. CASE checks[m] = "failed"
    <3>1. ~Answered(m) /\ MemberStatus(m) # "not_applicable" /\ ~Excused(m)
      BY <2>4 DEF Answered, MemberStatus, Excused
    <3> QED
      BY <1>1, <2>1, <3>1 DEF FamilyComplete
  <2>5. CASE checks[m] = "partial"
    <3>1. Answered(m) /\ MemberStatus(m) # "not_applicable"
      BY <2>5 DEF Answered, MemberStatus
    <3> QED
      BY <1>1, <2>1, <2>5, <3>1 DEF FamilyComplete
  <2> QED
    BY <2>1, <2>3, <2>4, <2>5
<1> QED
  BY <1>2

\* A subject listed that nobody judged either way had its own read lost.
LEMMA ListedIsJudged ==
    ASSUME NEW asset, NEW s \in Listed(asset)
    PROVE  \/ s \in Judged(asset, "abstained")
           \/ s \in live /\ s \in Judged(asset, "fired")
           \/ s \notin live /\ s \in Judged(asset, "disproved")
  BY DEF Judged, VerdictOn

\* An absence the report states is one it read, for any instances, reads lost,
\* entries and families of rules (build.go outcome, judged.go judgedOutcome,
\* host.go assessments, matters.go mattersMost).
THEOREM AbsenceAlwaysEarned == ReportSpec => []AbsenceEarned
<1>1. ASSUME ReportIInv, ~onHost, NEW i \in DOMAIN entries, Outcome(i) \in {"subject_not_found", "not_matched"},
             NEW s \in live \ superseded, Names(entries[i], s)
      PROVE  FALSE
  <2> DEFINE e == entries[i]
             on(verdict) == {x \in Judged(e.asset, verdict) : e.subject \in {"any", x}}
             fired == {x \in on("fired") : Reported(x)}
             whole == /\ Listed(e.asset) # {} /\ Judged(e.asset, "abstained") = {}
                      /\ Status = "collected" /\ ~PopulationIncomplete
  <2>1. Outcome(i) = JudgedOutcome(i)
    BY <1>1 DEF Outcome
  <2>2. s \in SubjectsOf(e.asset) /\ e.subject \in {"any", s}
    BY <1>1 DEF SubjectsOf, Names, ReportIInv
  <2>3. CASE JudgedOutcome(i) = "subject_not_found"
    <3>1. on("fired") = {} /\ on("disproved") \cup on("abstained") = {} /\ whole
      BY <2>3 DEF JudgedOutcome
    <3>2. s \in Listed(e.asset)
      BY <2>2, <3>1 DEF Listed, PopulationIncomplete
    <3>3. s \in Judged(e.asset, "abstained") \/ s \in Judged(e.asset, "fired")
      BY <1>1, <3>2, ListedIsJudged
    <3> QED
      BY <2>2, <3>1, <3>3
  \* Something it names was disproved, and that can only be s, which is there.
  <2>4. CASE JudgedOutcome(i) = "not_matched"
    <3>1. PICK x \in Judged(e.asset, "disproved") : e.subject \in {"any", x}
      BY <2>4 DEF JudgedOutcome
    <3>2. x \in SubjectsOf(e.asset) /\ x \notin live
      BY <3>1 DEF Judged, Listed, VerdictOn
    <3>3. NamesOne \/ OnePerAsset(Instances)
      BY <1>1 DEF ReportIInv
    <3>4. x = s
      <4>1. CASE NamesOne
        BY <2>2, <3>1, <4>1 DEF NamesOne
      <4>2. CASE OnePerAsset(Instances)
        BY <2>2, <3>2, <4>2 DEF OnePerAsset, SubjectsOf
      <4> QED
        BY <3>3, <4>1, <4>2
    <3> QED
      BY <1>1, <3>2, <3>4
  <2> QED
    BY <1>1, <2>1, <2>3, <2>4
<1>2. ASSUME ReportIInv, onHost, NEW i \in DOMAIN entries,
             Outcome(i) = "subject_not_found" \/ Outcome(i) = "not_matched"
      PROVE  live = {}
  <2>1. Outcome(i) = HostOutcome(i)
    BY <1>2 DEF Outcome
  <2>2. HostAssessment.status = "not_matched" /\ HostAssessment.complete
    BY <1>2, <2>1 DEF HostOutcome
  <2> QED
    BY <1>2, <2>2, NothingOnHost
<1>3. ASSUME ReportIInv, onHost, MattersMost = "read" PROVE live = {}
  <2>1. HostAssessment.status = "not_matched" /\ HostAssessment.complete
    BY <1>3 DEF MattersMost
  <2> QED
    BY <1>3, <2>1, NothingOnHost
<1>4. ASSUME ReportIInv, ~onHost, MattersMost = "read", Unseen = {}, NEW s \in live \cap SubjectsOf("root")
      PROVE  FALSE
  <2>1. superseded = {} /\ ~\E x \in Listed("root") : Reported(x)
    BY <1>4 DEF MattersMost
  <2>2. \A x \in Judged("root", "fired") : Reported(x) /\ x \in Listed("root")
    BY <2>1 DEF Judged, Reported
  <2>3. Judged("root", "fired") = {}
    BY <2>1, <2>2
  <2>4. Assessment("root").status # "matched"
    BY <2>3 DEF Assessment
  <2>5. Assessment("root").complete
    BY <1>4, <2>1, <2>4 DEF MattersMost
  <2>6. Judged("root", "abstained") = {}
    BY <2>5 DEF Assessment
  <2>7. s \in Listed("root")
    BY <1>4 DEF Listed
  <2> QED
    BY <1>4, <2>3, <2>6, <2>7, ListedIsJudged
<1>5. ASSUME ReportIInv, PlanMark = "assessed", NEW s \in SubjectsOf("root") PROVE got[s] = "read"
  <2>1. Judged("root", "abstained") = {} /\ Unseen = {}
    BY <1>5 DEF PlanMark, PopulationIncomplete
  <2>2. s \in DOMAIN Owner /\ s \in Listed("root") /\ got[s] # "none"
    BY <2>1 DEF Listed, SubjectsOf, Instances
  <2>3. got[s] # "unread"
    BY <2>1, <2>2 DEF Judged, VerdictOn
  <2> QED
    BY <1>5, <2>1, <2>2, <2>3 DEF Unseen, ReportIInv
<1>6. ASSUME ReportIInv PROVE AbsenceEarned
  <2>1. ASSUME NEW i \in DOMAIN entries,
               Outcome(i) \in {"subject_not_found", "not_matched"}
        PROVE  Gone(i)
    BY <1>1, <1>2, <1>6, <2>1 DEF Gone
  <2>2. MattersMost = "read" /\ Unseen = {} => live \cap (IF onHost THEN Members ELSE SubjectsOf("root")) = {}
    BY <1>3, <1>4, <1>6
  <2>3. PlanMark = "assessed" => \A s \in SubjectsOf("root") : got[s] = "read"
    BY <1>5, <1>6
  <2> QED
    BY <2>1, <2>2, <2>3 DEF AbsenceEarned
<1> QED
  BY <1>6, ReportInvariant, PTL

\* Both together: what the report says agrees with the findings and with what
\* was read of them (report/judged.go, host.go, build.go).
THEOREM ReportAlwaysHonest == ReportSpec => []ReportHonest
  BY OutcomesAlwaysAgree, AbsenceAlwaysEarned, PTL DEF ReportHonest

-----------------------------------------------------------------------------
(* The agent arm: no budget is passed.                                     *)
AgentSpec == AgentInit /\ [][AgentNext]_agentVars

Counters == {"turn", "checks", "wall", "input", "shown", "investigating", "unread", "asked", "results"}
AgentRecords == [pc : {"start", "turn", "post", "stream", "calls", "done"},
                 turn : Nat, checks : Nat, wall : Nat, input : Nat, shown : Nat,
                 stop : {"none", "input", "checks", "wall"}, investigating : Nat, unread : Nat,
                 asked : Nat, results : Nat, status : {"complete", "incomplete"}, over : BOOLEAN]

\* What the budgets rest on: a model that is still talked to was stopped by
\* none of them, what it was handed is part of what was accounted for, and the
\* calls answered and the calls left are the calls of the reply.
AgentIInv ==
    /\ agent \in AgentRecords /\ todo \in Seq(Tools)
    /\ agent.turn <= MaxIterations
    /\ agent.pc \in {"turn", "post", "stream"} => agent.turn < MaxIterations
    /\ agent.checks <= AgentChecks
    /\ agent.shown <= agent.input /\ agent.shown <= ModelInputTotal
    /\ agent.stop = "none" => agent.input <= ModelInputTotal
    /\ agent.pc \in {"start", "turn", "post", "stream"} => agent.stop = "none"
    /\ agent.pc = "stream" => agent.unread = 0
    /\ agent.pc = "start" => agent.shown = 0 /\ agent.results = agent.asked /\ agent.turn = 0
    /\ agent.pc \in {"turn", "post"} => agent.results = agent.asked
    /\ agent.pc = "calls" =>
          /\ agent.unread = agent.investigating /\ agent.results + Len(todo) = agent.asked
          /\ todo # <<>> => agent.stop = "none"
    /\ agent.status = "complete" => agent.pc = "done" /\ agent.stop = "none" /\ agent.unread = 0

Kept(t, s) ==
    /\ t.checks = s.checks /\ t.shown = s.shown /\ t.pc = s.pc /\ t.turn = s.turn /\ t.status = s.status
    /\ t.investigating = s.investigating /\ t.unread = s.unread /\ t.asked = s.asked /\ t.results = s.results

\* Accounting keeps the reason that came first and the count of what was accounted.
LEMMA Accounted ==
    ASSUME NEW s \in AgentRecords, NEW n \in Nat
    PROVE  LET t == Account(s, n)
           IN  /\ t \in AgentRecords /\ t.input = s.input + n
               /\ t.stop = "none" => s.stop = "none" /\ t.input <= ModelInputTotal
               /\ Kept(t, s)
<1>1. ModelInputTotal \in Nat
  BY AgentAssumption DEF AgentAssumption
<1> DEFINE t == [s EXCEPT !.input = @ + n]
<1>2. t \in AgentRecords /\ t.input = s.input + n /\ t.stop = s.stop /\ Kept(t, s)
  BY DEF AgentRecords, Kept
<1>3. [t EXCEPT !.stop = "input"] \in AgentRecords /\ [t EXCEPT !.stop = "input"].input = t.input
      /\ [t EXCEPT !.stop = "input"].stop = "input"
      /\ Kept([t EXCEPT !.stop = "input"], s)
  BY <1>2 DEF AgentRecords, Kept
<1>4. Account(s, n) = IF t.input > ModelInputTotal /\ t.stop = "none" THEN [t EXCEPT !.stop = "input"] ELSE t
  BY DEF Account
<1>5. t.input \in Nat
  BY <1>2 DEF AgentRecords
<1> HIDE DEF t
<1>6. CASE t.input > ModelInputTotal /\ t.stop = "none"
  BY <1>1, <1>2, <1>3, <1>4, <1>5, <1>6
<1>7. CASE ~(t.input > ModelInputTotal /\ t.stop = "none")
  BY <1>1, <1>2, <1>4, <1>5, <1>7
<1> QED
  BY <1>6, <1>7

\* A check executed, or refused by a budget: the counts move together, within
\* their bounds, and only what the input budget allows is handed over.
LEMMA Executed ==
    ASSUME NEW s \in AgentRecords, NEW time \in Nat, NEW bytes \in Nat, s.stop = "none",
           s.checks <= AgentChecks, s.shown <= s.input, s.shown <= ModelInputTotal, s.input <= ModelInputTotal
    PROVE  LET t == Execute(s, time, bytes)
           IN  /\ t \in AgentRecords
               /\ t.checks <= AgentChecks /\ t.shown <= t.input /\ t.shown <= ModelInputTotal
               /\ t.stop = "none" => t.input <= ModelInputTotal
               /\ t.pc = s.pc /\ t.turn = s.turn /\ t.status = s.status /\ t.investigating = s.investigating
               /\ t.unread = s.unread /\ t.asked = s.asked /\ t.results = s.results
<1>1. ModelInputTotal \in Nat /\ AgentChecks \in Nat /\ AgentWallClock \in Nat
  BY AgentAssumption DEF AgentAssumption
<1>2. CASE s.checks >= AgentChecks
  BY <1>1, <1>2 DEF Execute, AgentRecords
<1>3. CASE ~(s.checks >= AgentChecks) /\ s.wall >= AgentWallClock
  BY <1>1, <1>3 DEF Execute, AgentRecords
<1>4. CASE ~(s.checks >= AgentChecks) /\ ~(s.wall >= AgentWallClock)
  <2> DEFINE r == [s EXCEPT !.checks = @ + 1, !.wall = @ + time]
             t == Account(r, bytes)
  <2>0. s.checks \in Nat /\ s.wall \in Nat /\ s.checks + 1 \in Nat /\ s.wall + time \in Nat
    BY DEF AgentRecords
  <2>1. /\ r \in AgentRecords /\ r.checks = s.checks + 1 /\ r.shown = s.shown
        /\ r.input = s.input /\ r.pc = s.pc /\ r.turn = s.turn /\ r.status = s.status
        /\ r.investigating = s.investigating /\ r.unread = s.unread /\ r.asked = s.asked
        /\ r.results = s.results
    BY <2>0 DEF AgentRecords
  <2>9. r.checks <= AgentChecks
    BY <1>1, <1>4, <2>0, <2>1
  <2>2. /\ t \in AgentRecords /\ t.input = r.input + bytes
        /\ t.stop = "none" => t.input <= ModelInputTotal
        /\ Kept(t, r)
    <3> HIDE DEF r
    <3> QED
      BY <2>1, Accounted
  <2>3. Execute(s, time, bytes) = IF t.stop = "none" THEN [t EXCEPT !.shown = @ + bytes] ELSE t
    BY <1>4 DEF Execute
  <2> HIDE DEF r, t
  <2>4. /\ t.checks = r.checks /\ t.shown = r.shown /\ t.pc = r.pc /\ t.turn = r.turn /\ t.status = r.status
        /\ t.investigating = r.investigating /\ t.unread = r.unread /\ t.asked = r.asked /\ t.results = r.results
    BY <2>2 DEF Kept
  <2>5. s.shown \in Nat /\ s.input \in Nat
    BY DEF AgentRecords
  <2>6. CASE t.stop = "none"
    <3>1. Execute(s, time, bytes) = [t EXCEPT !.shown = s.shown + bytes]
      BY <2>1, <2>3, <2>4, <2>6
    <3>2. s.shown + bytes \in Nat /\ s.shown + bytes <= t.input /\ s.shown + bytes <= ModelInputTotal
      BY <1>1, <2>1, <2>2, <2>5, <2>6
    <3> QED
      BY <2>1, <2>2, <2>4, <2>6, <2>9, <3>1, <3>2 DEF AgentRecords
  <2>7. CASE t.stop # "none"
    <3>1. Execute(s, time, bytes) = t
      BY <2>3, <2>7
    <3> QED
      BY <1>1, <2>1, <2>2, <2>4, <2>5, <2>7, <2>9, <3>1
  <2> QED
    BY <2>6, <2>7
<1> QED
  BY <1>2, <1>3, <1>4

LEMMA AgentStartHolds == ASSUME AgentIInv, AgentStart PROVE AgentIInv'
<1>1. /\ agent \in AgentRecords /\ agent.pc = "start" /\ agent.stop = "none" /\ agent.shown = 0
      /\ agent.results = agent.asked /\ agent.turn = 0 /\ agent.checks <= AgentChecks
      /\ agent.status # "complete" /\ todo \in Seq(Tools) /\ todo' = todo
      /\ MaxIterations \in Nat \ {0} /\ ModelInputTotal \in Nat /\ agent.input \in Nat
      /\ agent.shown <= agent.input
  BY AgentAssumption DEF AgentIInv, AgentStart, AgentAssumption, AgentRecords
<1>2. PICK facts \in 0..(ModelInputTotal + 1) :
         agent' = IF Account(agent, facts).stop # "none" THEN [Account(agent, facts) EXCEPT !.pc = "done"]
                  ELSE [Account(agent, facts) EXCEPT !.pc = "turn", !.shown = @ + facts]
  BY DEF AgentStart
<1> DEFINE s == Account(agent, facts)
<1>3. facts \in Nat
  BY <1>1
<1>4. /\ s \in AgentRecords /\ s.input = agent.input + facts
      /\ s.stop = "none" => s.input <= ModelInputTotal
      /\ Kept(s, agent)
  BY <1>1, <1>3, Accounted
<1>5. agent' = IF s.stop # "none" THEN [s EXCEPT !.pc = "done"]
               ELSE [s EXCEPT !.pc = "turn", !.shown = facts]
  <2>1. s.shown = 0 /\ s.shown + facts = facts
    BY <1>1, <1>3, <1>4 DEF Kept
  <2> HIDE DEF s
  <2>2. [s EXCEPT !.pc = "turn", !.shown = @ + facts] = [s EXCEPT !.pc = "turn", !.shown = facts]
    BY <2>1
  <2> QED
    BY <1>2, <2>2 DEF s
<1> HIDE DEF s
<1>8. s.input \in Nat /\ s.shown = 0 /\ s.pc = "start" /\ s.turn = 0 /\ s.checks = agent.checks
      /\ s.status = agent.status /\ s.results = s.asked
  BY <1>1, <1>4 DEF Kept, AgentRecords
<1>6. CASE s.stop # "none"
  <2>1. agent' = [s EXCEPT !.pc = "done"]
    BY <1>5, <1>6
  <2>2. /\ agent' \in AgentRecords /\ agent'.pc = "done" /\ agent'.turn = 0 /\ agent'.checks = agent.checks
        /\ agent'.shown = 0 /\ agent'.input = s.input /\ agent'.stop # "none" /\ agent'.status # "complete"
    BY <1>1, <1>4, <1>6, <1>8, <2>1 DEF AgentRecords
  <2> QED
    BY <1>1, <1>8, <2>2 DEF AgentIInv
<1>7. CASE s.stop = "none"
  <2>1. agent' = [s EXCEPT !.pc = "turn", !.shown = facts]
    BY <1>5, <1>7
  <2>2. /\ agent' \in AgentRecords /\ agent'.pc = "turn" /\ agent'.turn = 0 /\ agent'.checks = agent.checks
        /\ agent'.shown = facts /\ agent'.input = s.input /\ agent'.stop = "none" /\ agent'.status # "complete"
        /\ agent'.results = agent'.asked
    BY <1>1, <1>3, <1>4, <1>7, <1>8, <2>1 DEF AgentRecords
  <2>3. facts <= s.input /\ s.input <= ModelInputTotal
    BY <1>1, <1>3, <1>4, <1>7
  <2> QED
    BY <1>1, <1>3, <1>8, <2>2, <2>3 DEF AgentIInv
<1> QED
  BY <1>6, <1>7

LEMMA AgentTurnHolds == ASSUME AgentIInv, AgentTurn PROVE AgentIInv'
<1>1. /\ agent.pc = "turn" /\ todo' = todo
      /\ agent' = [agent EXCEPT !.pc = "done", !.status = "incomplete"] \/ agent' = [agent EXCEPT !.pc = "post"]
  BY DEF AgentTurn, AgentEnds
<1>2. CASE agent' = [agent EXCEPT !.pc = "done", !.status = "incomplete"]
  BY <1>1, <1>2 DEF AgentIInv, AgentRecords
<1>3. CASE agent' = [agent EXCEPT !.pc = "post"]
  BY <1>1, <1>3 DEF AgentIInv, AgentRecords
<1> QED
  BY <1>1, <1>2, <1>3

LEMMA PostHolds == ASSUME AgentIInv, Post PROVE AgentIInv'
<1>1. agent' = [agent EXCEPT !.pc = "stream", !.unread = 0] \/ agent' = AgentEnds("incomplete") \/ agent' = agent
  BY DEF Post
<1>2. agent.pc = "post" /\ todo' = todo
  BY DEF Post
<1>3. CASE agent' = agent
  BY <1>2, <1>3 DEF AgentIInv
<1>4. CASE agent' = [agent EXCEPT !.pc = "stream", !.unread = 0]
  BY <1>2, <1>4 DEF AgentIInv, AgentRecords
<1>5. CASE agent' = AgentEnds("incomplete")
  BY <1>2, <1>5 DEF AgentIInv, AgentEnds, AgentRecords
<1> QED
  BY <1>1, <1>3, <1>4, <1>5

LEMMA ReplyHolds == ASSUME AgentIInv, Reply PROVE AgentIInv'
<1>1. /\ agent \in AgentRecords /\ agent.pc = "stream" /\ agent.stop = "none" /\ agent.unread = 0
      /\ agent.turn < MaxIterations /\ agent.checks <= AgentChecks /\ agent.shown <= agent.input
      /\ agent.shown <= ModelInputTotal /\ agent.input <= ModelInputTotal /\ todo \in Seq(Tools)
      /\ agent.turn \in Nat /\ MaxIterations \in Nat /\ agent.status # "complete"
      /\ agent.turn + 1 \in Nat
  <2>1. agent \in AgentRecords /\ agent.pc = "stream"
    BY DEF AgentIInv, Reply
  <2>2. agent.turn \in Nat /\ MaxIterations \in Nat
    BY <2>1, AgentAssumption DEF AgentAssumption, AgentRecords
  <2>3. agent.stop = "none" /\ agent.turn < MaxIterations
    BY <2>1 DEF AgentIInv
  <2> QED
    BY <2>1, <2>2, <2>3 DEF AgentIInv
<1>2. CASE agent' = AgentEnds("incomplete") /\ todo' = todo
  <2>1. agent' = [agent EXCEPT !.pc = "done", !.status = "incomplete"]
    BY <1>2 DEF AgentEnds
  <2>2. /\ agent' \in AgentRecords /\ agent'.pc = "done" /\ agent'.turn = agent.turn
        /\ agent'.checks = agent.checks /\ agent'.shown = agent.shown /\ agent'.input = agent.input
        /\ agent'.status = "incomplete"
    BY <1>1, <2>1 DEF AgentRecords
  <2> QED
    BY <1>1, <1>2, <2>2 DEF AgentIInv
<1>3. ASSUME NEW calls \in Replies, NEW stop \in {"end", "cut"},
             todo' = IF stop = "cut" THEN <<>> ELSE calls,
             agent' = IF stop = "cut" THEN [AgentEnds("incomplete") EXCEPT !.turn = @ + 1]
                      ELSE IF calls = <<>> THEN [AgentEnds("complete") EXCEPT !.turn = @ + 1]
                      ELSE [agent EXCEPT !.pc = "calls", !.turn = @ + 1, !.investigating = 0,
                                         !.asked = Len(calls), !.results = 0]
      PROVE  AgentIInv'
  <2>1. calls \in Seq(Tools) /\ Len(calls) \in Nat /\ todo' \in Seq(Tools)
    BY <1>3, AgentAssumption DEF AgentAssumption
  <2>2. CASE stop = "cut"
    <3>1. agent' = [agent EXCEPT !.pc = "done", !.status = "incomplete", !.turn = agent.turn + 1]
      BY <1>1, <1>3, <2>2 DEF AgentEnds, AgentRecords
    <3>9. /\ agent' \in AgentRecords /\ agent'.pc = "done" /\ agent'.turn = agent.turn + 1
          /\ agent'.checks = agent.checks /\ agent'.shown = agent.shown /\ agent'.input = agent.input
          /\ agent'.stop = "none" /\ agent'.unread = 0 /\ agent'.status = "incomplete"
      BY <1>1, <2>1, <3>1 DEF AgentRecords
    <3> QED
      BY <1>1, <2>1, <3>1, <3>9 DEF AgentIInv
  <2>3. CASE stop # "cut" /\ calls = <<>>
    <3>1. agent' = [agent EXCEPT !.pc = "done", !.status = "complete", !.turn = agent.turn + 1]
      BY <1>1, <1>3, <2>3 DEF AgentEnds, AgentRecords
    <3>9. /\ agent' \in AgentRecords /\ agent'.pc = "done" /\ agent'.turn = agent.turn + 1
          /\ agent'.checks = agent.checks /\ agent'.shown = agent.shown /\ agent'.input = agent.input
          /\ agent'.stop = "none" /\ agent'.unread = 0 /\ agent'.status = "complete"
      BY <1>1, <2>1, <3>1 DEF AgentRecords
    <3> QED
      BY <1>1, <2>1, <3>1, <3>9 DEF AgentIInv
  <2>4. CASE stop # "cut" /\ calls # <<>>
    <3>1. agent' = [agent EXCEPT !.pc = "calls", !.turn = agent.turn + 1, !.investigating = 0,
                                 !.asked = Len(calls), !.results = 0]
          /\ todo' = calls
      BY <1>3, <2>4
    <3>2. agent'.asked = Len(calls) /\ agent'.results = 0 /\ agent'.investigating = 0
      BY <1>1, <3>1 DEF AgentRecords
    <3>3. agent.pc # "calls" /\ Len(calls) \in Nat /\ agent.turn + 1 \in Nat
      BY <1>1, <2>1
    <3>4. agent' \in AgentRecords
      <4> DEFINE turn == agent.turn + 1
                 asked == Len(calls)
      <4>1. turn \in Nat /\ asked \in Nat
        BY <3>3
      <4>2. agent' = [agent EXCEPT !.pc = "calls", !.turn = turn, !.investigating = 0, !.asked = asked, !.results = 0]
        BY <3>1
      <4> HIDE DEF turn, asked
      <4> QED
        BY <1>1, <4>1, <4>2 DEF AgentRecords
    <3>9. /\ agent'.pc = "calls" /\ agent'.turn = agent.turn + 1
          /\ agent'.checks = agent.checks /\ agent'.shown = agent.shown /\ agent'.input = agent.input
          /\ agent'.stop = "none" /\ agent'.unread = 0 /\ agent'.status # "complete"
      BY <1>1, <3>1 DEF AgentRecords
    <3> QED
      BY <1>1, <2>1, <3>1, <3>2, <3>4, <3>9 DEF AgentIInv
  <2> QED
    BY <2>2, <2>3, <2>4
<1> QED
  BY <1>2, <1>3 DEF Reply

LEMMA EndTurnHolds == ASSUME AgentIInv, EndTurn PROVE AgentIInv'
<1>1. MaxIterations \in Nat /\ agent.pc = "calls" /\ todo' = todo /\ agent' = TurnEnds /\ agent \in AgentRecords
      /\ Len(todo) = 0 /\ agent.results \in Nat /\ agent.results = agent.asked
  BY AgentAssumption DEF AgentIInv, EndTurn, AgentAssumption, AgentRecords
<1>5. agent.turn \in Nat
  BY <1>1 DEF AgentRecords
<1>6. ASSUME agent' = [agent EXCEPT !.pc = "done", !.status = "incomplete"] PROVE AgentIInv'
  <2>1. agent' \in AgentRecords /\ agent'.pc = "done" /\ agent'.status = "incomplete"
    BY <1>1, <1>6 DEF AgentRecords
  <2>2. agent'.turn = agent.turn /\ agent'.checks = agent.checks /\ agent'.shown = agent.shown
        /\ agent'.input = agent.input /\ agent'.stop = agent.stop
    BY <1>1, <1>6 DEF AgentRecords
  <2> QED
    BY <1>1, <2>1, <2>2 DEF AgentIInv
<1>2. CASE agent.stop # "none" \/ (~(agent.turn < MaxIterations) /\ agent.investigating # 0)
  <2>1. TurnEnds = AgentEnds("incomplete")
    BY <1>2 DEF TurnEnds
  <2> QED
    BY <1>1, <1>6, <2>1 DEF AgentEnds
<1>3. CASE agent.stop = "none" /\ agent.turn < MaxIterations
  <2>1. agent' = [agent EXCEPT !.pc = "turn"]
    BY <1>3, <1>1 DEF TurnEnds
  <2> QED
    BY <1>1, <1>3, <2>1 DEF AgentIInv, AgentRecords
<1>4. CASE agent.stop = "none" /\ ~(agent.turn < MaxIterations) /\ agent.investigating = 0
  <2>1. TurnEnds = [agent EXCEPT !.pc = "done", !.status = "complete"]
    BY <1>4 DEF TurnEnds, AgentEnds
  <2> QED
    BY <1>1, <1>4, <2>1 DEF AgentIInv, AgentRecords
<1> QED
  BY <1>2, <1>3, <1>4

LEMMA AgentTimesOutHolds == ASSUME AgentIInv, AgentTimesOut PROVE AgentIInv'
  BY DEF AgentIInv, AgentTimesOut, AgentRecords

LEMMA CallHolds == ASSUME AgentIInv, Call PROVE AgentIInv'
<1>1. /\ agent \in AgentRecords /\ agent.pc = "calls" /\ todo # <<>> /\ agent.stop = "none"
      /\ agent.unread = agent.investigating /\ agent.results + Len(todo) = agent.asked
      /\ agent.turn <= MaxIterations /\ agent.checks <= AgentChecks /\ agent.shown <= agent.input
      /\ agent.shown <= ModelInputTotal /\ agent.input <= ModelInputTotal /\ todo \in Seq(Tools)
      /\ agent.status # "complete"
  BY DEF AgentIInv, Call
<1>2. /\ Tail(todo) \in Seq(Tools) /\ Len(Tail(todo)) = Len(todo) - 1 /\ Len(todo) \in Nat \ {0}
      /\ <<>> \in Seq(Tools) /\ Len(<<>>) = 0
  BY <1>1
<1>3. PICK time \in 0..1, bytes \in 0..1 :
         LET s == [(IF Head(todo) = "check" THEN Execute(agent, time, bytes) ELSE agent)
                   EXCEPT !.investigating = @ + (IF Head(todo) = "report" THEN 0 ELSE 1),
                          !.unread = @ + (IF Head(todo) = "report" THEN 0 ELSE 1),
                          !.results = @ + 1]
         IN  IF s.stop = "none" THEN agent' = s /\ todo' = Tail(todo)
             ELSE agent' = [s EXCEPT !.results = @ + Len(todo) - 1] /\ todo' = <<>>
  BY DEF Call
<1> DEFINE t == IF Head(todo) = "check" THEN Execute(agent, time, bytes) ELSE agent
           n == IF Head(todo) = "report" THEN 0 ELSE 1
           s == [t EXCEPT !.investigating = @ + n, !.unread = @ + n, !.results = @ + 1]
<1>4. /\ t \in AgentRecords
      /\ t.checks <= AgentChecks /\ t.shown <= t.input /\ t.shown <= ModelInputTotal
      /\ t.stop = "none" => t.input <= ModelInputTotal
      /\ t.pc = agent.pc /\ t.turn = agent.turn /\ t.status = agent.status /\ t.investigating = agent.investigating
      /\ t.unread = agent.unread /\ t.asked = agent.asked /\ t.results = agent.results
  BY <1>1, Executed
<1>5. n \in Nat
  OBVIOUS
<1>6. IF s.stop = "none" THEN agent' = s /\ todo' = Tail(todo)
      ELSE agent' = [s EXCEPT !.results = @ + Len(todo) - 1] /\ todo' = <<>>
  BY <1>3
<1> HIDE DEF t, n
<1>10. /\ t.investigating \in Nat /\ t.unread \in Nat /\ t.results \in Nat
       /\ t.investigating + n \in Nat /\ t.unread + n \in Nat /\ t.results + 1 \in Nat
       /\ t.unread + n = t.investigating + n
  <2>1. t.investigating \in Nat /\ t.unread \in Nat /\ t.results \in Nat
    BY <1>4 DEF AgentRecords
  <2>2. t.unread = t.investigating
    BY <1>1, <1>4
  <2> QED
    BY <1>5, <2>1, <2>2
<1>7. /\ s \in AgentRecords /\ s.results = t.results + 1 /\ s.unread = s.investigating /\ s.stop = t.stop
      /\ s.pc = "calls" /\ s.turn = t.turn /\ s.checks = t.checks /\ s.input = t.input /\ s.shown = t.shown
      /\ s.asked = t.asked /\ s.status = t.status
  BY <1>1, <1>4, <1>10 DEF AgentRecords
<1> HIDE DEF s
<1>8. CASE s.stop = "none"
  <2>1. agent' = s /\ todo' = Tail(todo) /\ agent.results \in Nat
    BY <1>1, <1>6, <1>8 DEF AgentRecords
  <2>2. s.results + Len(todo') = s.asked
    BY <1>1, <1>2, <1>4, <1>7, <2>1
  <2> QED
    BY <1>1, <1>2, <1>4, <1>7, <1>8, <2>1, <2>2 DEF AgentIInv
<1>9. CASE s.stop # "none"
  <2>1. agent' = [s EXCEPT !.results = s.results + Len(todo) - 1] /\ todo' = <<>>
    BY <1>6, <1>9
  <2>6. s.results \in Nat /\ agent.results \in Nat
    BY <1>1, <1>7 DEF AgentRecords
  <2>2. s.results \in Nat /\ s.results + Len(todo) - 1 \in Nat /\ agent.results \in Nat
    BY <1>2, <2>6
  <2>3. s.results + Len(todo) - 1 = s.asked
    BY <1>1, <1>2, <1>4, <1>7, <2>2
  <2>4. agent' = [s EXCEPT !.results = s.asked] /\ s.asked \in Nat
    BY <2>1, <2>2, <2>3
  <2>5. agent' \in AgentRecords /\ agent'.results = s.asked
    BY <1>7, <2>4 DEF AgentRecords
  <2> QED
    <3>1. /\ agent'.pc = "calls" /\ agent'.turn = agent.turn /\ agent'.checks = t.checks /\ agent'.shown = t.shown
          /\ agent'.input = t.input /\ agent'.stop = t.stop /\ agent'.unread = agent'.investigating
          /\ agent'.asked = s.asked /\ agent'.status # "complete" /\ t.stop # "none"
      BY <1>1, <1>4, <1>7, <1>9, <2>4 DEF AgentRecords
    <3>2. agent'.results + Len(todo') = agent'.asked
      BY <1>2, <2>1, <2>4, <2>5, <3>1
    <3> QED
      BY <1>1, <1>2, <1>4, <2>1, <2>5, <3>1, <3>2 DEF AgentIInv
<1> QED
  BY <1>8, <1>9

\* No budget of the agent is passed, and an assessment one of them cut is not
\* called complete, for any budgets and any replies (agent.go Run, execute,
\* account, call).
THEOREM BudgetsAlwaysHold == AgentSpec => []BudgetsHold
<1>1. AgentInit => AgentIInv
  BY AgentAssumption DEF AgentInit, AgentIInv, AgentRecords, AgentAssumption
<1>2. AgentIInv /\ [AgentNext]_agentVars => AgentIInv'
  <2> SUFFICES ASSUME AgentIInv, [AgentNext]_agentVars PROVE AgentIInv'
    OBVIOUS
  <2>1. CASE UNCHANGED agentVars
    BY <2>1 DEF agentVars, AgentIInv
  <2> QED
    BY <2>1, AgentStartHolds, AgentTurnHolds, PostHolds, ReplyHolds, CallHolds, EndTurnHolds,
       AgentTimesOutHolds DEF AgentNext
<1>3. AgentIInv => BudgetsHold
  BY DEF AgentIInv, BudgetsHold, CompleteIsEarned
<1> QED
  BY <1>1, <1>2, <1>3, PTL DEF AgentSpec

-----------------------------------------------------------------------------
(* The bounded arm: what is filed, and what is sent.                       *)
BoundedSpec == BoundedInit /\ [][BoundedNext]_boundedVars

ItemRecords == [kind : KindSet, key : Nat, writable : BOOLEAN, entry : {"none", "unit", "cron", "launchd"},
                status : {"judged", "filtered", "insufficient", "over_budget", "no_answer"},
                sent : BOOLEAN, answered : BOOLEAN, read : {"none", "output", "note"},
                filed : {"no", "medium", "high"}, signal : BOOLEAN]
PlaceRecords == [at : Nat \ {0}, step : {"item", "read", "ask", "done"}, judged : Nat,
                 ended : {"complete", "items", "run timeout"}, over : BOOLEAN]

Sent == {k \in DOMAIN items : items[k].sent}

\* An item's filing and its sending, apart from the loop's place.
ItemSound(it) ==
    /\ it.filed # "no" => it.sent /\ it.answered /\ it.signal /\ it.status = "judged"
    /\ it.status \in {"filtered", "insufficient", "over_budget"} => ~it.sent

\* The item being resolved or asked about was counted and not sent yet, and
\* nothing after the loop's place was.
BoundedIInv ==
    /\ items \in Seq(ItemRecords) /\ place \in PlaceRecords
    /\ \A k \in DOMAIN items : ItemSound(items[k])
    /\ place.step # "done" => \A k \in DOMAIN items : k >= place.at => ~items[k].sent
    /\ place.step \in {"read", "ask"} => place.at \in DOMAIN items /\ Here.status = "judged"
    /\ place.judged <= MaxItems
    /\ Cardinality(Sent) + (IF place.step \in {"read", "ask"} THEN 1 ELSE 0) <= place.judged

\* A sequence changed at one place.
LEMMA ChangedAt ==
    ASSUME items \in Seq(ItemRecords), NEW at \in DOMAIN items, NEW it \in ItemRecords,
           items' = [items EXCEPT ![at] = it]
    PROVE  /\ items' \in Seq(ItemRecords) /\ DOMAIN items' = DOMAIN items /\ items'[at] = it
           /\ \A k \in DOMAIN items : k # at => items'[k] = items[k]
  OBVIOUS

LEMMA SentFinite ==
    ASSUME items \in Seq(ItemRecords) PROVE IsFiniteSet(Sent) /\ Cardinality(Sent) \in Nat
<1>1. Sent \subseteq 1..Len(items) /\ Len(items) \in Nat
  BY DEF Sent
<1>2. IsFiniteSet(1..Len(items))
  BY <1>1, FS_Interval
<1> QED
  BY <1>1, <1>2, FS_Subset, FS_CardinalityType

LEMMA ItemFresh ==
    ASSUME NEW r \in FactRecords
    PROVE  ItemOf(r) \in ItemRecords /\ ItemSound(ItemOf(r)) /\ ~ItemOf(r).sent
<1> DEFINE status == CASE r.kind = "listener" -> ListenerStatus(r)
                       [] r.kind = "admin"    -> AdminStatus(r)
                       [] OTHER               -> Sufficiency(r)
<1>1. Sufficiency(r) \in {"judged", "insufficient"}
  BY DEF Sufficiency
<1>2. AdminStatus(r) \in {"judged", "insufficient", "filtered"}
  BY <1>1 DEF AdminStatus
<1>3. ListenerStatus(r) \in {"judged", "insufficient", "filtered"}
  BY DEF ListenerStatus
<1>4. status \in {"judged", "insufficient", "filtered"}
  BY <1>1, <1>2, <1>3
<1>5. ItemOf(r) = [kind |-> r.kind, key |-> r.key, writable |-> r.writable, entry |-> r.entry, status |-> status,
                   sent |-> FALSE, answered |-> FALSE, read |-> "none", filed |-> "no", signal |-> FALSE]
  BY DEF ItemOf
<1> HIDE DEF status
<1> QED
  BY <1>4, <1>5 DEF ItemRecords, FactRecords, ItemSound

LEMMA BoundedStarts == ASSUME BoundedInit PROVE BoundedIInv
<1>1. PICK recs \in Candidates : items \in Enumerate(recs)
  BY DEF BoundedInit
<1>2. recs \in Seq(FactRecords)
  BY BoundedAssumption DEF BoundedAssumption
<1> DEFINE n == Cardinality(First(recs))
<1>3. First(recs) \subseteq 1..Len(recs) /\ Len(recs) \in Nat /\ DOMAIN recs = 1..Len(recs)
  BY <1>2 DEF First
<1>4. IsFiniteSet(First(recs)) /\ n \in Nat
  <2>1. IsFiniteSet(1..Len(recs))
    BY <1>3, FS_Interval
  <2> QED
    BY <1>3, <2>1, FS_Subset, FS_CardinalityType
<1>5. PICK o \in [1..n -> First(recs)] : items = [k \in 1..n |-> ItemOf(recs[o[k]])]
  BY <1>1 DEF Enumerate
<1> HIDE DEF n
<1>6. ASSUME NEW k \in 1..n PROVE items[k] \in ItemRecords /\ ItemSound(items[k]) /\ ~items[k].sent
  <2>1. o[k] \in 1..Len(recs) /\ items[k] = ItemOf(recs[o[k]])
    BY <1>3, <1>5
  <2>2. recs[o[k]] \in FactRecords
    BY <1>2, <1>3, <2>1
  <2> QED
    BY <2>1, <2>2, ItemFresh
<1>7. items \in Seq(ItemRecords) /\ DOMAIN items = 1..n
  BY <1>4, <1>5, <1>6
<1>8. Sent = {}
  BY <1>6, <1>7 DEF Sent
<1>9. Cardinality(Sent) = 0
  BY <1>8, FS_EmptySet
<1>10. place = [at |-> 1, step |-> "item", judged |-> 0, ended |-> "complete", over |-> FALSE] /\ MaxItems \in Nat
  BY BoundedAssumption DEF BoundedInit, BoundedAssumption
<1> QED
  BY <1>6, <1>7, <1>9, <1>10 DEF BoundedIInv, PlaceRecords

\* Moving on, counting, and a step that changes no item.
LEMMA TakeItemHolds == ASSUME BoundedIInv, TakeItem PROVE BoundedIInv'
<1>1. /\ items \in Seq(ItemRecords) /\ place \in PlaceRecords /\ place.step = "item" /\ place.at <= Len(items)
      /\ \A k \in DOMAIN items : ItemSound(items[k]) /\ (k >= place.at => ~items[k].sent)
      /\ place.judged <= MaxItems /\ Cardinality(Sent) <= place.judged
  <2>1. items \in Seq(ItemRecords) /\ place.step = "item"
    BY DEF BoundedIInv, TakeItem
  <2>2. Cardinality(Sent) \in Nat
    BY <2>1, SentFinite
  <2> QED
    BY <2>1, <2>2 DEF BoundedIInv, TakeItem
<1>2. /\ place.at \in Nat \ {0} /\ place.judged \in Nat /\ MaxItems \in Nat /\ place.at \in DOMAIN items
      /\ place.at + 1 \in Nat \ {0} /\ place.judged + 1 \in Nat /\ Cardinality(Sent) \in Nat
      /\ DOMAIN items \subseteq Nat
  <2>1. place.at \in Nat \ {0} /\ place.judged \in Nat
    BY <1>1 DEF PlaceRecords
  <2>2. Len(items) \in Nat /\ DOMAIN items = 1..Len(items)
    BY <1>1
  <2> QED
    BY <1>1, <2>1, <2>2, SentFinite, BoundedAssumption DEF BoundedAssumption
<1>3. CASE items' = items /\ place' = NextItem
  <2>1. place' \in PlaceRecords /\ place'.at = place.at + 1 /\ place'.step = "item" /\ place'.judged = place.judged
    BY <1>1, <1>2, <1>3 DEF NextItem, PlaceRecords
  <2>2. Sent' = Sent
    BY <1>3 DEF Sent
  <2> QED
    BY <1>1, <1>2, <1>3, <2>1, <2>2 DEF BoundedIInv
<1>4. CASE Here.status = "judged" /\ place.judged >= MaxItems
  <2> DEFINE it == [items[place.at] EXCEPT !.status = "over_budget"]
  <2>1. items' = [items EXCEPT ![place.at] = it] /\ place' = [NextItem EXCEPT !.ended = "items"]
    BY <1>4 DEF TakeItem, JudgeItem
  <2>2. items[place.at] \in ItemRecords /\ ~items[place.at].sent /\ items[place.at].filed = "no"
    <3>1. items[place.at] \in ItemRecords /\ ~items[place.at].sent /\ ItemSound(items[place.at])
      BY <1>1, <1>2
    <3> QED
      BY <3>1 DEF ItemSound
  <2>3. it \in ItemRecords /\ ~it.sent /\ ItemSound(it)
    BY <2>2 DEF ItemRecords, ItemSound
  <2> HIDE DEF it
  <2>4. /\ items' \in Seq(ItemRecords) /\ DOMAIN items' = DOMAIN items /\ items'[place.at] = it
        /\ \A k \in DOMAIN items : k # place.at => items'[k] = items[k]
    BY <1>1, <1>2, <2>1, <2>3, ChangedAt
  <2>5. Sent' = Sent
    BY <2>2, <2>3, <2>4 DEF Sent
  <2>6. place' \in PlaceRecords /\ place'.at = place.at + 1 /\ place'.step = "item" /\ place'.judged = place.judged
    BY <1>1, <1>2, <2>1 DEF NextItem, PlaceRecords
  <2>7. \A k \in DOMAIN items' : ItemSound(items'[k]) /\ (k >= place'.at => ~items'[k].sent)
    BY <1>1, <1>2, <2>3, <2>4, <2>6
  <2> QED
    BY <1>1, <1>2, <2>4, <2>5, <2>6, <2>7 DEF BoundedIInv
<1>5. CASE Here.status = "judged" /\ ~(place.judged >= MaxItems)
  <2>1. items' = items /\ place' = [place EXCEPT !.step = "read", !.judged = place.judged + 1]
    BY <1>5 DEF TakeItem, JudgeItem
  <2>2. place' \in PlaceRecords /\ place'.at = place.at /\ place'.step = "read" /\ place'.judged = place.judged + 1
    BY <1>1, <1>2, <2>1 DEF PlaceRecords
  <2>3. Sent' = Sent /\ Here' = Here
    BY <2>1, <2>2 DEF Sent, Here
  <2> QED
    BY <1>1, <1>2, <1>5, <2>1, <2>2, <2>3 DEF BoundedIInv
<1> QED
  BY <1>3, <1>4, <1>5 DEF TakeItem

LEMMA AtHand ==
    ASSUME BoundedIInv, place.step \in {"read", "ask"}
    PROVE  /\ items \in Seq(ItemRecords) /\ place \in PlaceRecords /\ place.at \in DOMAIN items
           /\ Here \in ItemRecords /\ Here.status = "judged" /\ Here.sent = FALSE /\ Here.filed = "no"
           /\ \A k \in DOMAIN items : ItemSound(items[k]) /\ (k >= place.at => ~items[k].sent)
           /\ place.at \in Nat \ {0} /\ place.judged \in Nat /\ MaxItems \in Nat /\ DOMAIN items \subseteq Nat
           /\ place.judged <= MaxItems /\ Cardinality(Sent) \in Nat /\ Cardinality(Sent) + 1 <= place.judged
<1>1. /\ items \in Seq(ItemRecords) /\ place \in PlaceRecords /\ place.at \in DOMAIN items /\ Here.status = "judged"
      /\ \A k \in DOMAIN items : ItemSound(items[k]) /\ (k >= place.at => ~items[k].sent)
      /\ place.judged <= MaxItems /\ Cardinality(Sent) + 1 <= place.judged
  BY DEF BoundedIInv
<1>2. place.at \in Nat \ {0} /\ place.judged \in Nat /\ MaxItems \in Nat /\ DOMAIN items \subseteq Nat
  <2>1. place.at \in Nat \ {0} /\ place.judged \in Nat
    BY <1>1 DEF PlaceRecords
  <2>2. DOMAIN items = 1..Len(items)
    BY <1>1
  <2> QED
    BY <2>1, <2>2, BoundedAssumption DEF BoundedAssumption
<1>3. Here \in ItemRecords /\ ~Here.sent /\ ItemSound(Here)
  BY <1>1, <1>2 DEF Here
<1>4. Here.sent = FALSE /\ Here.filed = "no"
  BY <1>3 DEF ItemSound, ItemRecords
<1> QED
  BY <1>1, <1>2, <1>3, <1>4, SentFinite

LEMMA ResolveHolds == ASSUME BoundedIInv, Resolve PROVE BoundedIInv'
<1>1. /\ items \in Seq(ItemRecords) /\ place \in PlaceRecords /\ place.at \in DOMAIN items
      /\ Here \in ItemRecords /\ Here.status = "judged" /\ Here.sent = FALSE /\ Here.filed = "no"
      /\ \A k \in DOMAIN items : ItemSound(items[k]) /\ (k >= place.at => ~items[k].sent)
      /\ place.at \in Nat \ {0} /\ place.judged \in Nat /\ MaxItems \in Nat /\ DOMAIN items \subseteq Nat
      /\ place.judged <= MaxItems /\ Cardinality(Sent) \in Nat /\ Cardinality(Sent) + 1 <= place.judged
  BY AtHand DEF Resolve
<1>2. place' = [place EXCEPT !.step = "ask"]
  BY DEF Resolve
<1>3. place' \in PlaceRecords /\ place'.at = place.at /\ place'.step = "ask" /\ place'.judged = place.judged
  BY <1>1, <1>2 DEF PlaceRecords
<1>4. CASE items' = items
  <2>1. Sent' = Sent /\ Here' = Here
    BY <1>3, <1>4 DEF Sent, Here
  <2> QED
    BY <1>1, <1>3, <1>4, <2>1 DEF BoundedIInv
<1>5. ASSUME NEW p \in Paths, NEW whole \in BOOLEAN, items' = [items EXCEPT ![place.at].read = FileRead(p, whole)]
      PROVE  BoundedIInv'
  <2> DEFINE it == [Here EXCEPT !.read = FileRead(p, whole)]
  <2>1. items' = [items EXCEPT ![place.at] = it]
    BY <1>5 DEF Here
  <2>2. FileRead(p, whole) \in {"output", "note"}
    BY DEF FileRead
  <2>3. it \in ItemRecords /\ it.sent = FALSE /\ it.status = "judged" /\ it.filed = "no"
    BY <1>1, <2>2 DEF ItemRecords
  <2> HIDE DEF it
  <2>4. /\ items' \in Seq(ItemRecords) /\ DOMAIN items' = DOMAIN items /\ items'[place.at] = it
        /\ \A k \in DOMAIN items : k # place.at => items'[k] = items[k]
    BY <1>1, <2>1, <2>3, ChangedAt
  <2>5. Sent' = Sent
    BY <1>1, <2>3, <2>4 DEF Sent, Here
  <2>6. ItemSound(it)
    BY <2>3 DEF ItemSound
  <2>7. \A k \in DOMAIN items' : ItemSound(items'[k]) /\ (k >= place'.at => ~items'[k].sent)
    BY <1>1, <1>3, <2>3, <2>4, <2>6
  <2>8. Here' = it
    BY <1>3, <2>4 DEF Here
  <2> QED
    BY <1>1, <1>3, <2>3, <2>4, <2>5, <2>7, <2>8 DEF BoundedIInv
<1> QED
  BY <1>4, <1>5 DEF Resolve

\* Every rule of Decide needs a signal from the item itself.
LEMMA DecidedOnSignal ==
    ASSUME NEW it \in ItemRecords, NEW a \in Answers(it.kind), DecideItem(it, a).file
    PROVE  Signal(it, a)
<1>1. a.hallmarks \in 0..4 /\ a.vendor \in 0..4 /\ a.person \in 0..4
  BY DEF Answers, Levels
<1>2. it.kind \in {"listener", "persistence", "suid", "admin"}
  <2>1. KindSet = {"listener", "persistence", "suid", "admin"}
    <3>1. 1..4 = {1, 2, 3, 4}
      OBVIOUS
    <3> QED
      BY <3>1 DEF KindSet, Kinds
  <2> QED
    BY <2>1 DEF ItemRecords
<1>3. CASE it.kind = "listener"
  BY <1>3 DEF DecideItem, Signal
<1>4. CASE it.kind = "persistence"
  <2>1. DecideItem(it, a).file => a.hallmarks >= Strong \/ a.hallmarks >= Affirmative
    BY <1>4 DEF DecideItem
  <2>2. a.hallmarks >= Strong => a.hallmarks >= Affirmative
    BY <1>1 DEF Affirmative, Strong
  <2> QED
    BY <2>1, <2>2 DEF Signal
<1>5. CASE it.kind = "suid"
  BY <1>5 DEF DecideItem, Signal
<1>6. CASE it.kind = "admin"
  BY <1>6 DEF DecideItem, Signal
<1> QED
  BY <1>2, <1>3, <1>4, <1>5, <1>6

\* The item at hand is answered, one way or the other, and the loop moves on
\* or ends.
LEMMA AnsweredHolds ==
    ASSUME BoundedIInv, place.step = "ask", NEW it \in ItemRecords, it.sent, ItemSound(it),
           items' = [items EXCEPT ![place.at] = it],
           place' = NextItem \/ place' = [place EXCEPT !.step = "done", !.ended = "run timeout"]
    PROVE  BoundedIInv'
<1>1. /\ items \in Seq(ItemRecords) /\ place \in PlaceRecords /\ place.at \in DOMAIN items
      /\ Here.sent = FALSE
      /\ \A k \in DOMAIN items : ItemSound(items[k]) /\ (k >= place.at => ~items[k].sent)
      /\ place.at \in Nat \ {0} /\ place.judged \in Nat /\ MaxItems \in Nat /\ DOMAIN items \subseteq Nat
      /\ place.judged <= MaxItems /\ Cardinality(Sent) \in Nat /\ Cardinality(Sent) + 1 <= place.judged
  BY AtHand
<1>2. /\ items' \in Seq(ItemRecords) /\ DOMAIN items' = DOMAIN items /\ items'[place.at] = it
      /\ \A k \in DOMAIN items : k # place.at => items'[k] = items[k]
  BY <1>1, ChangedAt
<1>3. Sent' = Sent \cup {place.at}
  BY <1>1, <1>2 DEF Sent
<1>4. place.at \notin Sent /\ IsFiniteSet(Sent)
  BY <1>1, SentFinite DEF Sent, Here
<1>5. Cardinality(Sent') = Cardinality(Sent) + 1
  BY <1>3, <1>4, FS_AddElement
<1>6. /\ place' \in PlaceRecords /\ place'.judged = place.judged /\ place'.step \in {"item", "done"}
      /\ place'.step = "item" => place'.at = place.at + 1
  <2>1. place.at + 1 \in Nat \ {0}
    BY <1>1
  <2> QED
    BY <1>1, <2>1 DEF NextItem, PlaceRecords
<1>7. \A k \in DOMAIN items' : ItemSound(items'[k]) /\ (place'.step = "item" /\ k >= place'.at => ~items'[k].sent)
  BY <1>1, <1>2, <1>6
<1> QED
  BY <1>1, <1>2, <1>5, <1>6, <1>7 DEF BoundedIInv

LEMMA AskHolds == ASSUME BoundedIInv, Ask PROVE BoundedIInv'
<1>1. place.step = "ask" /\ Here \in ItemRecords /\ Here.status = "judged" /\ Here.filed = "no"
  BY AtHand DEF Ask
<1>2. CASE \E failed \in BOOLEAN :
             /\ items' = [items EXCEPT ![place.at].sent = TRUE, ![place.at].status = "no_answer"]
             /\ place' = IF failed /\ place.over
                         THEN [place EXCEPT !.step = "done", !.ended = "run timeout"] ELSE NextItem
  <2> DEFINE it == [Here EXCEPT !.sent = TRUE, !.status = "no_answer"]
  <2>1. items' = [items EXCEPT ![place.at] = it]
    BY <1>1, <1>2, AtHand DEF Here
  <2>2. it \in ItemRecords /\ it.sent /\ it.filed = "no" /\ it.status = "no_answer"
    BY <1>1 DEF ItemRecords
  <2>3. place' = NextItem \/ place' = [place EXCEPT !.step = "done", !.ended = "run timeout"]
    BY <1>2
  <2> HIDE DEF it
  <2> QED
    BY <1>1, <2>1, <2>2, <2>3, AnsweredHolds DEF ItemSound
<1>3. ASSUME NEW a \in Answers(Here.kind), NEW stored \in BOOLEAN,
             items' = [items EXCEPT ![place.at].sent = TRUE, ![place.at].answered = TRUE,
                          ![place.at].signal = Signal(Here, a),
                          ![place.at].filed = IF DecideItem(Here, a).file /\ stored
                                              THEN (IF DecideItem(Here, a).strong THEN "high" ELSE "medium")
                                              ELSE "no"],
             place' = NextItem
      PROVE  BoundedIInv'
  <2> DEFINE signal == Signal(Here, a)
             filed == IF DecideItem(Here, a).file /\ stored
                      THEN (IF DecideItem(Here, a).strong THEN "high" ELSE "medium") ELSE "no"
             it == [Here EXCEPT !.sent = TRUE, !.answered = TRUE, !.signal = signal, !.filed = filed]
  <2>1. items' = [items EXCEPT ![place.at] = it]
    BY <1>1, <1>3, AtHand DEF Here
  <2>2. filed \in {"no", "medium", "high"}
    OBVIOUS
  <2>3. signal \in BOOLEAN
    BY DEF Signal
  <2>4. filed # "no" => signal
    BY <1>1, DecidedOnSignal
  <2> HIDE DEF filed, signal
  <2>5. /\ it \in ItemRecords /\ it.sent /\ it.answered /\ it.filed = filed /\ it.signal = signal
        /\ it.status = "judged"
    BY <1>1, <2>2, <2>3 DEF ItemRecords
  <2> HIDE DEF it
  <2>6. ItemSound(it)
    BY <2>4, <2>5 DEF ItemSound
  <2> QED
    BY <1>1, <1>3, <2>1, <2>5, <2>6, AnsweredHolds
<1> QED
  BY <1>2, <1>3 DEF Ask

\* Nothing is filed but on an answer that showed something, and no more items
\* are sent than the budget has, for any records and any answers (run.go Run,
\* decide.go Decide).
THEOREM AlwaysFiledOnSignal == BoundedSpec => []FiledOnSignal
<1>1. BoundedInit => BoundedIInv
  BY BoundedStarts
<1>2. BoundedIInv /\ [BoundedNext]_boundedVars => BoundedIInv'
  <2> SUFFICES ASSUME BoundedIInv, [BoundedNext]_boundedVars PROVE BoundedIInv'
    OBVIOUS
  <2>1. CASE UNCHANGED boundedVars
    BY <2>1 DEF boundedVars, BoundedIInv, Sent, Here
  <2>2. CASE BoundedTimesOut
    <3>1. /\ items' = items /\ place' \in PlaceRecords /\ place'.at = place.at /\ place'.step = place.step
          /\ place'.judged = place.judged
      BY <2>2 DEF BoundedTimesOut, BoundedIInv, PlaceRecords
    <3>2. Sent' = Sent /\ Here' = Here
      BY <3>1 DEF Sent, Here
    <3> QED
      BY <3>1, <3>2 DEF BoundedIInv
  <2>3. CASE BoundedReturns
    <3>1. /\ items' = items /\ place' \in PlaceRecords /\ place'.step = "done" /\ place.step = "item"
          /\ place'.judged = place.judged
      BY <2>3 DEF BoundedReturns, BoundedIInv, PlaceRecords
    <3>2. Sent' = Sent
      BY <3>1 DEF Sent
    <3> QED
      BY <3>1, <3>2 DEF BoundedIInv
  <2> QED
    BY <2>1, <2>2, <2>3, TakeItemHolds, ResolveHolds, AskHolds DEF BoundedNext
<1>3. BoundedIInv => FiledOnSignal
  <2> SUFFICES ASSUME BoundedIInv PROVE FiledOnSignal
    OBVIOUS
  <2>1. Cardinality(Sent) <= MaxItems
    <3>1. Cardinality(Sent) \in Nat /\ place.judged \in Nat /\ MaxItems \in Nat
      BY SentFinite, BoundedAssumption DEF BoundedIInv, PlaceRecords, BoundedAssumption
    <3> QED
      BY <3>1 DEF BoundedIInv
  <2> QED
    BY <2>1 DEF BoundedIInv, FiledOnSignal, ItemSound, Sent
<1> QED
  BY <1>1, <1>2, <1>3, PTL DEF BoundedSpec

-----------------------------------------------------------------------------
(* The rules of a Google Workspace tenant.                                 *)
TenantSpec == TenantInit /\ [][TenantNext]_tenantVars

\* Evidence e was read of what w is the whole evidence of: an account in e is as
\* it is in w but for flags that were not read, a part that calls itself whole
\* is, and nothing is missing in w.
UsersPart(e, w) ==
    /\ DOMAIN e.users \subseteq DOMAIN w.users /\ IsFiniteSet(DOMAIN w.users)
    /\ \A u \in DOMAIN e.users :
          /\ \A f \in UserFields \ {"admin", "enforced"} : e.users[u][f] = w.users[u][f]
          /\ e.users[u].admin \in {w.users[u].admin, "?"} /\ e.users[u].enforced \in {w.users[u].enforced, "?"}
    /\ e.complete => DOMAIN e.users = DOMAIN w.users
AccessPart(e, w) ==
    /\ e.roles \subseteq w.roles /\ (e.rolesWhole => e.roles = w.roles)
    /\ \A u \in DOMAIN e.users :
          e.assigned[u].items \subseteq w.assigned[u].items /\ (e.assigned[u].whole => e.assigned[u].items = w.assigned[u].items)
GrantsPart(e, w) ==
    /\ DOMAIN e.grants \subseteq DOMAIN e.users /\ DOMAIN w.grants = DOMAIN w.users
    /\ \A u \in DOMAIN e.grants : e.grants[u] = w.grants[u]
BoxesPart(e, w) ==
    /\ e.domains \subseteq w.domains /\ (e.domainsWhole => e.domains = w.domains)
    /\ DOMAIN e.boxes \subseteq DOMAIN e.users /\ DOMAIN w.boxes = DOMAIN w.users
    /\ \A u \in DOMAIN e.boxes :
          /\ e.boxes[u].filters \subseteq w.boxes[u].filters /\ e.boxes[u].auto \in {w.boxes[u].auto, "?"}
          /\ e.boxes[u].whole => e.boxes[u].filters = w.boxes[u].filters
WholeEvidence(w) ==
    /\ w.complete /\ w.dated /\ w.tree /\ w.units /\ w.rolesWhole /\ w.domainsWhole
    /\ w.conflicts = {} /\ w.flagConflicts = {}
    /\ w.detailed = DOMAIN w.users /\ DOMAIN w.grants = DOMAIN w.users /\ DOMAIN w.boxes = DOMAIN w.users
    /\ \A u \in DOMAIN w.users : w.assigned[u].whole /\ w.boxes[u].whole
PartOf(e, w) == UsersPart(e, w) /\ AccessPart(e, w) /\ GrantsPart(e, w) /\ BoxesPart(e, w) /\ WholeEvidence(w)

\* What was read of tenant t when l was lost, field by field.
IsCollected(e, t, l, seen) ==
    /\ e.users = [u \in seen |-> IF u \in l.flags THEN Flagless(t[u]) ELSE t[u]]
    /\ e.complete <=> (l.users = {} /\ ~l.cut)
    /\ e.dated <=> ~l.undated
    /\ e.conflicts = l.conflicts \cap seen /\ e.flagConflicts = l.stepConflicts \cap seen
    /\ e.detailed = seen \ l.details
    /\ \A u \in seen : /\ e.assigned[u].items = (IF u \in l.details THEN {} ELSE t[u].assigned)
                       /\ e.assigned[u].whole <=> u \notin l.details
    /\ e.roles = (IF l.roles THEN {} ELSE DOMAIN Privileges)
    /\ e.rolesWhole <=> ~l.roles
    /\ e.tree <=> ~l.tree
    /\ e.units <=> ~l.units
    /\ e.grants = [u \in seen \ l.details |-> t[u].grants]
    /\ DOMAIN e.boxes = seen \ l.details
    /\ \A u \in seen \ l.details : /\ e.boxes[u].auto = (IF u \in l.mail THEN "?" ELSE t[u].auto)
                                   /\ e.boxes[u].filters = (IF u \in l.mail THEN {} ELSE t[u].filters)
                                   /\ e.boxes[u].whole <=> u \notin l.mail
    /\ e.domains = (IF l.domains THEN {} ELSE {"own"})
    /\ e.domainsWhole <=> ~l.domains

LEMMA PartParts ==
    ASSUME NEW s, NEW lost \in BOOLEAN
    PROVE  Part(s, lost).items = (IF lost THEN {} ELSE s) /\ (Part(s, lost).whole <=> ~lost)
BY DEF Part
LEMMA BoxParts ==
    ASSUME NEW who, NEW lost \in BOOLEAN
    PROVE  /\ Box(who, lost).auto = (IF lost THEN "?" ELSE who.auto)
           /\ Box(who, lost).filters = (IF lost THEN {} ELSE who.filters)
           /\ Box(who, lost).whole <=> ~lost
BY DEF Box

LEMMA Collects == ASSUME NEW t, NEW l PROVE IsCollected(Collect(t, l), t, l, DOMAIN t \ l.users)
<1> DEFINE seen == DOMAIN t \ l.users
           e == Collect(t, l)
<1>1. DOMAIN PopulationUsers(t, l).users = seen
      /\ PopulationUsers(t, l).complete = (l.users = {} /\ ~l.cut)
  BY DEF PopulationUsers, Keep
<1>2. e.assigned = [u \in seen |-> Part(t[u].assigned, u \in l.details)]
  BY <1>1 DEF Collect
<1>3. e.boxes = [u \in seen \ l.details |-> Box(t[u], u \in l.mail)]
  BY <1>1 DEF Collect, BoxesRead
<1>4. \A u \in seen : /\ e.assigned[u].items = (IF u \in l.details THEN {} ELSE t[u].assigned)
                      /\ e.assigned[u].whole <=> u \notin l.details
  <2> SUFFICES ASSUME NEW u \in seen
               PROVE  /\ e.assigned[u].items = (IF u \in l.details THEN {} ELSE t[u].assigned)
                      /\ e.assigned[u].whole <=> u \notin l.details
    OBVIOUS
  <2> DEFINE lost == u \in l.details
  <2>1. e.assigned[u] = Part(t[u].assigned, lost)
    BY <1>2, Zenon
  <2>3. lost \in BOOLEAN
    OBVIOUS
  <2> HIDE DEF lost
  <2>2. e.assigned[u].items = (IF lost THEN {} ELSE t[u].assigned) /\ (e.assigned[u].whole <=> ~lost)
    BY <2>1, <2>3, PartParts
  <2> QED
    BY <2>2 DEF lost
<1>5. \A u \in seen \ l.details : /\ e.boxes[u].auto = (IF u \in l.mail THEN "?" ELSE t[u].auto)
                                  /\ e.boxes[u].filters = (IF u \in l.mail THEN {} ELSE t[u].filters)
                                  /\ e.boxes[u].whole <=> u \notin l.mail
  <2> SUFFICES ASSUME NEW u \in seen \ l.details
               PROVE  /\ e.boxes[u].auto = (IF u \in l.mail THEN "?" ELSE t[u].auto)
                      /\ e.boxes[u].filters = (IF u \in l.mail THEN {} ELSE t[u].filters)
                      /\ e.boxes[u].whole <=> u \notin l.mail
    OBVIOUS
  <2> DEFINE lost == u \in l.mail
  <2>1. e.boxes[u] = Box(t[u], lost)
    BY <1>3, Zenon
  <2>3. lost \in BOOLEAN
    OBVIOUS
  <2> HIDE DEF lost
  <2>2. /\ e.boxes[u].auto = (IF lost THEN "?" ELSE t[u].auto) /\ e.boxes[u].filters = (IF lost THEN {} ELSE t[u].filters)
        /\ e.boxes[u].whole <=> ~lost
    BY <2>1, <2>3, BoxParts
  <2> QED
    BY <2>2 DEF lost
<1> QED
  BY <1>1, <1>3, <1>4, <1>5 DEF Collect, GrantsRead, IsCollected

LEMMA CollectedPart ==
    ASSUME NEW t \in Tenants, NEW l
    PROVE  PartOf(Collect(t, l), Collect(t, NothingLost))
<1> DEFINE e == Collect(t, l)
           w == Collect(t, NothingLost)
           seen == DOMAIN t \ l.users
<1>1. IsFiniteSet(DOMAIN t) /\ \A u \in DOMAIN t : t[u] = [f \in UserFields |-> t[u][f]]
  BY TenantAssumption DEF TenantAssumption
<1>2. IsCollected(e, t, l, seen) /\ IsCollected(w, t, NothingLost, DOMAIN t \ NothingLost.users)
  BY Collects
<1> HIDE DEF e, w
<1>3. /\ NothingLost.flags = {} /\ NothingLost.mail = {} /\ NothingLost.details = {}
      /\ NothingLost.conflicts = {} /\ NothingLost.stepConflicts = {} /\ NothingLost.users = {}
  BY DEF NothingLost
<1>13. DOMAIN t \ {} = DOMAIN t
  OBVIOUS
<1>4. /\ ~NothingLost.cut /\ ~NothingLost.undated /\ ~NothingLost.roles /\ ~NothingLost.tree /\ ~NothingLost.units
      /\ ~NothingLost.domains
  BY DEF NothingLost
<1> HIDE DEF seen
<1>5. /\ w.users = [u \in DOMAIN t |-> t[u]]
      /\ w.conflicts = {} /\ w.flagConflicts = {} /\ w.detailed = DOMAIN t
      /\ w.roles = DOMAIN Privileges
      /\ w.grants = [u \in DOMAIN t |-> t[u].grants] /\ w.domains = {"own"}
  BY <1>2, <1>3, <1>4 DEF IsCollected
<1>6. /\ w.complete /\ w.dated /\ w.rolesWhole /\ w.tree /\ w.units /\ w.domainsWhole
  BY <1>2, <1>3, <1>4 DEF IsCollected
<1>7. /\ DOMAIN w.boxes = DOMAIN t
      /\ \A u \in DOMAIN t : /\ w.assigned[u].items = t[u].assigned /\ w.assigned[u].whole
                             /\ w.boxes[u].auto = t[u].auto /\ w.boxes[u].filters = t[u].filters /\ w.boxes[u].whole
  BY <1>2, <1>3, <1>13 DEF IsCollected
<1>8. UsersPart(e, w)
  <2>1. /\ e.users = [u \in seen |-> IF u \in l.flags THEN Flagless(t[u]) ELSE t[u]]
        /\ e.complete => seen = DOMAIN t
        /\ seen \subseteq DOMAIN t
    BY <1>2 DEF IsCollected, seen
  <2>2. ASSUME NEW u \in DOMAIN t
        PROVE  /\ Flagless(t[u]).admin = "?" /\ Flagless(t[u]).enforced = "?"
               /\ \A f \in UserFields \ {"admin", "enforced"} : Flagless(t[u])[f] = t[u][f]
    BY <1>1 DEF UserFields, Flagless
  <2> QED
    BY <1>1, <1>5, <2>1, <2>2 DEF UsersPart
<1>9. AccessPart(e, w)
  <2>1. \A u \in seen : /\ e.assigned[u].items \subseteq w.assigned[u].items
                        /\ e.assigned[u].whole => e.assigned[u].items = w.assigned[u].items
    BY <1>2, <1>7 DEF IsCollected, seen
  <2>2. DOMAIN e.users = seen /\ e.roles \subseteq w.roles /\ (e.rolesWhole => e.roles = w.roles)
    BY <1>2, <1>5 DEF IsCollected
  <2> QED
    BY <2>1, <2>2 DEF AccessPart
<1>10. GrantsPart(e, w)
  BY <1>2, <1>5 DEF GrantsPart, IsCollected, seen
<1>11. BoxesPart(e, w)
  <2>1. /\ DOMAIN e.boxes \subseteq seen /\ seen \subseteq DOMAIN t
        /\ DOMAIN e.users = seen /\ DOMAIN w.users = DOMAIN t
    BY <1>2, <1>5 DEF IsCollected, seen
  <2>2. e.domains \subseteq w.domains /\ (e.domainsWhole => e.domains = w.domains)
    BY <1>2, <1>5 DEF IsCollected
  <2>3. \A u \in DOMAIN e.boxes : /\ e.boxes[u].filters \subseteq w.boxes[u].filters /\ e.boxes[u].auto \in {w.boxes[u].auto, "?"}
                                  /\ e.boxes[u].whole => e.boxes[u].filters = w.boxes[u].filters
    BY <1>2, <1>7 DEF IsCollected, seen
  <2> QED
    BY <1>2, <1>7, <2>1, <2>2, <2>3 DEF BoxesPart, IsCollected
<1>12. WholeEvidence(w)
  BY <1>5, <1>6, <1>7 DEF WholeEvidence
<1> QED
  BY <1>8, <1>9, <1>10, <1>11, <1>12 DEF PartOf, e, w

-----------------------------------------------------------------------------
(* What a part of the evidence says of one account.                        *)
LEMMA SameAccount ==
    ASSUME NEW e, NEW w, PartOf(e, w), NEW u \in DOMAIN e.users
    PROVE  /\ u \in DOMAIN w.users
           /\ \A f \in UserFields \ {"admin", "enforced"} : e.users[u][f] = w.users[u][f]
           /\ e.users[u].admin \in {w.users[u].admin, "?"} /\ e.users[u].enforced \in {w.users[u].enforced, "?"}
           /\ ~Conflict(u, w) /\ Steady(u, w)
           /\ \A a : HasAddress(u, a, e) <=> HasAddress(u, a, w)
<1>1. /\ u \in DOMAIN w.users
      /\ \A f \in UserFields \ {"admin", "enforced"} : e.users[u][f] = w.users[u][f]
      /\ e.users[u].admin \in {w.users[u].admin, "?"} /\ e.users[u].enforced \in {w.users[u].enforced, "?"}
  BY DEF PartOf, UsersPart
<1>2. e.users[u]["aliases"] = w.users[u]["aliases"]
  BY <1>1 DEF UserFields
<1> QED
  BY <1>1, <1>2 DEF PartOf, WholeEvidence, Conflict, Steady, HasAddress

LEMMA SameFields ==
    ASSUME NEW e, NEW w, PartOf(e, w), NEW u \in DOMAIN e.users
    PROVE  /\ e.users[u].id = w.users[u].id /\ e.users[u].active = w.users[u].active
           /\ e.users[u].suspended = w.users[u].suspended /\ e.users[u].enrolled = w.users[u].enrolled
           /\ e.users[u].mailbox = w.users[u].mailbox /\ e.users[u].unit = w.users[u].unit
           /\ e.users[u].login = w.users[u].login
BY SameAccount DEF UserFields

LEMMA MoreMatches ==
    ASSUME NEW e, NEW w, PartOf(e, w), NEW a
    PROVE  Matches(a, e) \subseteq Matches(a, w) /\ (e.complete => Matches(a, e) = Matches(a, w))
<1>1. DOMAIN e.users \subseteq DOMAIN w.users /\ (e.complete => DOMAIN e.users = DOMAIN w.users) /\ w.complete
  BY DEF PartOf, UsersPart, WholeEvidence
<1>2. \A u \in DOMAIN e.users : e.users[u].aliases = w.users[u].aliases
  BY SameAccount DEF UserFields
<1>3. CASE a \in DOMAIN e.users
  BY <1>1, <1>3 DEF Matches
<1>4. CASE a \notin DOMAIN e.users /\ e.complete
  <2>1. {u \in DOMAIN e.users : a \in e.users[u].aliases} = {u \in DOMAIN w.users : a \in w.users[u].aliases}
    BY <1>1, <1>2, <1>4
  <2> QED
    BY <1>1, <1>4, <2>1 DEF Matches
<1>5. CASE a \notin DOMAIN e.users /\ ~e.complete
  BY <1>5 DEF Matches
<1> QED
  BY <1>3, <1>4, <1>5

LEMMA MoreClaims ==
    ASSUME NEW e, NEW w, PartOf(e, w), NEW u
    PROVE  Claims(u, e) \subseteq Claims(u, w) /\ (e.complete => Claims(u, e) = Claims(u, w))
BY MoreMatches DEF Claims

LEMMA ClaimAddress ==
    ASSUME NEW e, NEW u \in DOMAIN e.users, NEW h \in Claims(u, e)
    PROVE  h \in DOMAIN Persons /\ \E a \in Persons[h].addresses : HasAddress(u, a, e)
<1>1. PICK a \in Persons[h].addresses : u \in Matches(a, e)
  BY DEF Claims
<1>2. HasAddress(u, a, e)
  BY <1>1 DEF Matches, TheOnly, HasAddress
<1> QED
  BY <1>1, <1>2 DEF Claims

LEMMA HeldBy ==
    ASSUME NEW e, NEW u, NEW h, Claims(u, e) = {h}
    PROVE  Known(u, e) /\ Holder(u, e) = Persons[h] /\ Kind(u, e) = Persons[h].kind
<1>1. Known(u, e)
  BY DEF Known, TheOnly
<1>2. (CHOOSE g \in Claims(u, e) : TRUE) = h
  OBVIOUS
<1> QED
  BY <1>1, <1>2 DEF Holder, Kind

LEMMA Holders ==
    ASSUME NEW e, NEW w, PartOf(e, w), NEW u \in DOMAIN e.users
    PROVE  /\ Known(u, e) /\ Known(u, w) => Holder(u, e) = Holder(u, w) /\ Kind(u, e) = Kind(u, w)
           /\ Known(u, e) /\ ~Known(u, w) => Ambiguous(u, w)
           /\ Kind(u, e) \in Exempt /\ ~PossibleExemption(u, w) => Kind(u, w) = Kind(u, e)
           /\ Kind(u, w) \in Exempt /\ ~PossibleExemption(u, e) => Kind(u, e) = Kind(u, w)
<1>1. Claims(u, e) \subseteq Claims(u, w) /\ u \in DOMAIN w.users
  BY MoreClaims, SameAccount
<1>2. \A x, y : Known(y, x) => \E h : Claims(y, x) = {h}
  BY DEF Known, TheOnly
<1>3. \A x, y : Kind(y, x) \in Exempt => Known(y, x)
  BY DEF Kind, Exempt
<1>4. ASSUME Known(u, e), Known(u, w)
      PROVE  Holder(u, e) = Holder(u, w) /\ Kind(u, e) = Kind(u, w)
  <2>1. PICK h : Claims(u, e) = {h}
    BY <1>2, <1>4
  <2>2. Claims(u, w) = {h}
    BY <1>1, <1>2, <1>4, <2>1
  <2> QED
    BY <2>1, <2>2, HeldBy
<1>5. ASSUME Known(u, e), ~Known(u, w)
      PROVE  Ambiguous(u, w) /\ (Kind(u, e) \in Exempt => PossibleExemption(u, w))
  <2>1. PICK h : Claims(u, e) = {h}
    BY <1>2, <1>5
  <2>2. h \in DOMAIN Persons /\ \E a \in Persons[h].addresses : HasAddress(u, a, w)
    BY <1>1, <2>1, ClaimAddress
  <2>3. Kind(u, e) = Persons[h].kind
    BY <2>1, HeldBy
  <2> QED
    BY <1>5, <2>2, <2>3 DEF Ambiguous, PossibleExemption
<1>6. ASSUME Kind(u, w) \in Exempt, ~PossibleExemption(u, e)
      PROVE  Known(u, e) /\ Known(u, w)
  <2>1. PICK h : Claims(u, w) = {h}
    BY <1>2, <1>3, <1>6
  <2>2. h \in DOMAIN Persons /\ Persons[h].kind \in Exempt
    BY <1>1, <1>6, <2>1, HeldBy, ClaimAddress
  <2>3. \E a \in Persons[h].addresses : HasAddress(u, a, e)
    BY <1>1, <2>1, ClaimAddress, SameAccount
  <2> QED
    BY <1>3, <1>6, <2>2, <2>3 DEF PossibleExemption
<1> QED
  BY <1>3, <1>4, <1>5, <1>6

LEMMA SameHolders ==
    ASSUME NEW e, NEW w, PartOf(e, w), NEW u \in DOMAIN e.users, e.complete
    PROVE  /\ Known(u, e) <=> Known(u, w)
           /\ Kind(u, e) = Kind(u, w)
           /\ Ambiguous(u, e) <=> Ambiguous(u, w)
           /\ PossibleExemption(u, e) <=> PossibleExemption(u, w)
<1>1. Claims(u, e) = Claims(u, w)
  BY MoreClaims
<1>2. \A a : HasAddress(u, a, e) <=> HasAddress(u, a, w)
  BY SameAccount
<1> QED
  BY <1>1, <1>2 DEF Known, Kind, Holder, Ambiguous, PossibleExemption

LEMMA MoreAdmin ==
    ASSUME NEW e, NEW w, PartOf(e, w), NEW u \in DOMAIN e.users
    PROVE  /\ AdminYes(u, e) => AdminYes(u, w)
           /\ AdminKnown(u, e) => AdminKnown(u, w) /\ (AdminYes(u, w) => AdminYes(u, e))
<1>1. /\ e.roles \subseteq w.roles /\ (e.rolesWhole => e.roles = w.roles) /\ w.rolesWhole /\ w.tree
      /\ e.assigned[u].items \subseteq w.assigned[u].items
      /\ e.assigned[u].whole => e.assigned[u].items = w.assigned[u].items
      /\ w.assigned[u].whole
  BY SameAccount DEF PartOf, AccessPart, WholeEvidence
<1>2. e.users[u].admin \in {w.users[u].admin, "?"} /\ ~Conflict(u, w)
  BY SameAccount
<1>3. \A x : Grants(x, e) => Grants(x, w)
  BY <1>1 DEF Grants
<1>4. AdminYes(u, e) => AdminYes(u, w)
  BY <1>1, <1>2, <1>3 DEF AdminYes
<1>5. ASSUME AdminKnown(u, e), ~AdminYes(u, e)
      PROVE  AdminKnown(u, w) /\ ~AdminYes(u, w)
  <2>1. /\ ~Conflict(u, e) /\ e.users[u].admin = "f" /\ e.assigned[u].whole /\ e.rolesWhole /\ e.tree
        /\ \A x \in e.assigned[u].items : x.expiry # "odd" /\ (Current(x) => Understood(x, e))
    BY <1>5 DEF AdminKnown
  <2>2. \A x : Understood(x, e) => Understood(x, w) /\ (Grants(x, w) => Grants(x, e))
    BY <1>1, <2>1 DEF Understood, Grants
  <2>3. ~AdminYes(u, w)
    BY <1>1, <1>2, <1>5, <2>1, <2>2 DEF AdminYes
  <2> QED
    BY <1>1, <1>2, <2>1, <2>2, <2>3 DEF AdminKnown
<1> QED
  BY <1>4, <1>5 DEF AdminKnown

-----------------------------------------------------------------------------
(* Each rule over a part agrees with itself over the whole.                *)
Agree(v, x) == "abstained" \in {v, x} \/ v = x

LEMMA AdminAgrees ==
    ASSUME NEW e, NEW w, PartOf(e, w), NEW u \in DOMAIN e.users
    PROVE  /\ Agree(UnexpectedAdmin(u, e), UnexpectedAdmin(u, w))
           /\ Agree(UnattributedAdmin(u, e), UnattributedAdmin(u, w))
           /\ Agree(SuspendedAdmin(u, e), SuspendedAdmin(u, w))
           /\ \A k : Agree(AdminOfKind(k, u, e), AdminOfKind(k, u, w))
           /\ Known(u, e) /\ Known(u, w) => Agree(Former(u, e), Former(u, w))
<1>1. e.users[u].admin \in {w.users[u].admin, "?"} /\ ~Conflict(u, w) /\ w.complete /\ w.dated
  BY SameAccount DEF PartOf, WholeEvidence
<1>2. /\ Known(u, e) /\ Known(u, w) => Holder(u, e) = Holder(u, w) /\ Kind(u, e) = Kind(u, w)
      /\ Known(u, e) /\ ~Known(u, w) => Ambiguous(u, w)
  BY Holders
<1>3. e.complete => (Known(u, e) <=> Known(u, w)) /\ (Ambiguous(u, e) <=> Ambiguous(u, w))
  BY SameHolders
<1>4. /\ AdminYes(u, e) => AdminYes(u, w)
      /\ AdminKnown(u, e) => AdminKnown(u, w) /\ (AdminYes(u, w) => AdminYes(u, e))
  BY MoreAdmin
<1>5. AdminYes(u, e) => AdminKnown(u, e)
  BY DEF AdminKnown
<1>6. SuperKnown(u, e) => SuperKnown(u, w) /\ (Super(u, e) <=> Super(u, w))
  BY <1>1 DEF SuperKnown, Super
<1>7. Known(u, e) /\ Known(u, w) /\ Left(u, e) \in {"not", "passed"} =>
         Left(u, e) = Left(u, w) \/ Left(u, w) = "unknown"
  BY <1>1, <1>2 DEF Left, LeftAt
<1>8. Agree(UnexpectedAdmin(u, e), UnexpectedAdmin(u, w))
  BY <1>2, <1>6 DEF Agree, UnexpectedAdmin, Decided
<1>9. Agree(UnattributedAdmin(u, e), UnattributedAdmin(u, w))
  BY <1>2, <1>3, <1>4, <1>5 DEF Agree, UnattributedAdmin, Decided
<1>10. Agree(SuspendedAdmin(u, e), SuspendedAdmin(u, w))
  BY <1>4, <1>5, SameFields DEF Agree, SuspendedAdmin, Decided
<1>11. ASSUME NEW k PROVE Agree(AdminOfKind(k, u, e), AdminOfKind(k, u, w))
  BY <1>2, <1>6 DEF Agree, AdminOfKind, Decided
<1>12. Known(u, e) /\ Known(u, w) => Agree(Former(u, e), Former(u, w))
  BY <1>2, SameFields DEF Agree, Former, Decided
<1> QED
  BY <1>8, <1>9, <1>10, <1>11, <1>12

LEMMA TwoStepAgrees ==
    ASSUME NEW e, NEW w, PartOf(e, w), NEW u \in DOMAIN e.users
    PROVE  /\ Affected(u, e) => Affected(u, w)
           /\ Protected(u, e) => Protected(u, w) /\ ~Affected(u, w)
           /\ Inactive(u, e) => Inactive(u, w) /\ ~Affected(u, w)
           /\ Agree(AdminTwoStep(u, e).verdict, AdminTwoStep(u, w).verdict)
<1>1. e.users[u].enforced \in {w.users[u].enforced, "?"} /\ ~Conflict(u, w) /\ Steady(u, w)
  BY SameAccount
<1>2. e.users[u].active = w.users[u].active /\ e.users[u].enrolled = w.users[u].enrolled
  BY SameFields
<1>3. /\ Affected(u, e) => Affected(u, w)
      /\ Protected(u, e) => Protected(u, w) /\ ~Affected(u, w)
      /\ Inactive(u, e) => Inactive(u, w) /\ ~Affected(u, w)
  BY <1>1, <1>2 DEF Affected, Protected, Inactive
<1>4. /\ AdminYes(u, e) => AdminYes(u, w)
      /\ AdminKnown(u, e) => AdminKnown(u, w) /\ (AdminYes(u, w) => AdminYes(u, e))
      /\ AdminYes(u, e) => AdminKnown(u, e)
  BY MoreAdmin DEF AdminKnown
<1>5. Agree(AdminTwoStep(u, e).verdict, AdminTwoStep(u, w).verdict)
  BY <1>1, <1>2, <1>4 DEF AdminTwoStep, Agree, Say, Decided, Inactive
<1> QED
  BY <1>3, <1>5

LEMMA IdleAgrees ==
    ASSUME NEW e, NEW w, PartOf(e, w), NEW u \in DOMAIN e.users, NEW id
    PROVE  Agree(Idle(id, u, e), Idle(id, u, w))
<1>1. ~Conflict(u, w) /\ e.users[u].active = w.users[u].active /\ e.users[u].login = w.users[u].login
  BY SameAccount, SameFields
<1>2. /\ Kind(u, e) \in Exempt /\ ~PossibleExemption(u, w) => Kind(u, w) \in Exempt
      /\ Kind(u, w) \in Exempt /\ ~PossibleExemption(u, e) => Kind(u, e) \in Exempt
  BY Holders
<1> QED
  BY <1>1, <1>2 DEF Idle, Decided, Agree

LEMMA UnitAgrees ==
    ASSUME NEW e, NEW w, PartOf(e, w), NEW n,
           NEW j \in UnitRule(n, e), NEW k \in UnitRule(n, w)
    PROVE  Agree(j.verdict, k.verdict)
<1>1. /\ DOMAIN e.users \subseteq DOMAIN w.users /\ (e.complete => DOMAIN e.users = DOMAIN w.users)
  BY DEF PartOf, UsersPart
<1>2. \A u \in DOMAIN e.users :
         /\ e.users[u].unit = w.users[u].unit
         /\ Affected(u, e) => Affected(u, w) /\ ~Inactive(u, w)
         /\ Protected(u, e) \/ Inactive(u, e) => ~Affected(u, w)
  BY SameFields, TwoStepAgrees DEF Affected, Inactive
<1>3. ASSUME NEW x, NEW i \in UnitRule(n, x)
      PROVE  /\ i.verdict \in {"fired", "abstained", "disproved"}
             /\ i.verdict = "fired" <=> \E u \in DOMAIN x.users : x.users[u].unit = n /\ Affected(u, x)
             /\ i.verdict = "disproved" => /\ x.complete
                                           /\ \A u \in DOMAIN x.users : x.users[u].unit = n => Affected(u, x) \/ Protected(u, x) \/ Inactive(u, x)
  BY <1>3 DEF UnitRule, Say, Decided
<1> QED
  BY <1>1, <1>2, <1>3 DEF Agree

LEMMA RaisedInWhole ==
    ASSUME NEW e, NEW w, PartOf(e, w), NEW n, Raised(n, e)
    PROVE  Raised(n, w)
<1>1. /\ DOMAIN e.users \subseteq DOMAIN w.users /\ (e.complete => DOMAIN e.users = DOMAIN w.users) /\ w.complete
  BY DEF PartOf, UsersPart, WholeEvidence
<1>2. \A u \in DOMAIN e.users :
         /\ e.users[u].unit = w.users[u].unit /\ (e.users[u].admin = "t" => w.users[u].admin = "t")
         /\ Affected(u, e) => Affected(u, w) /\ ~Inactive(u, w)
         /\ Inactive(u, e) => Inactive(u, w)
  BY SameFields, SameAccount, TwoStepAgrees DEF Affected, Inactive
<1>3. AllOff(e) => AllOff(w)
  BY <1>1, <1>2 DEF AllOff
<1>4. \A x : {u \in DOMAIN x.users : x.users[u].unit = n /\ Affected(u, x)} # {} <=>
              \E u \in DOMAIN x.users : x.users[u].unit = n /\ Affected(u, x)
  OBVIOUS
<1> QED
  BY <1>1, <1>2, <1>3 DEF Raised

-----------------------------------------------------------------------------
(* Super administrators: over a part that is known whole the count is the  *)
(* count, and over another it is a lower bound.                            *)
JudgedIn(e) == {u \in DOMAIN e.users : ~Conflict(u, e) /\ ~PossibleExemption(u, e)}
GlassIn(e) == {u \in JudgedIn(e) : Kind(u, e) = "break_glass"}
BeforeIn(u, e) == {v \in GlassIn(e) : e.users[v].id < e.users[u].id}
SparedIn(e) == {u \in GlassIn(e) : Cardinality(BeforeIn(u, e)) < 2}
CountedIn(e) == {u \in JudgedIn(e) \ SparedIn(e) : e.users[u].admin = "t" /\ Kind(u, e) # "service"}
HumansIn(e) == {u \in JudgedIn(e) : e.users[u].active = "t" /\ Kind(u, e) \notin Exempt}
CountKnown(e) == /\ e.complete /\ JudgedIn(e) = DOMAIN e.users
                 /\ \A u \in JudgedIn(e) : e.users[u].admin # "?" /\ e.users[u].active # "?"

LEMMA CountRule ==
    ASSUME NEW e
    PROVE  AdminCount(e) =
             LET count == Cardinality(CountedIn(e))
                 humans == Cardinality(HumansIn(e))
             IN  Say("admins", "tenant", Decided((CountKnown(e) /\ (count < 3 \/ humans > 0)) \/ count > 3,
                                                 count > 3 \/ (CountKnown(e) /\ humans > 0 /\ count >= 3 /\ count * 3 > humans)))
BY Zenon DEF AdminCount, CountedIn, HumansIn, SparedIn, BeforeIn, GlassIn, JudgedIn, CountKnown

LEMMA KnownCount ==
    ASSUME NEW e, NEW w, PartOf(e, w), CountKnown(e)
    PROVE  CountKnown(w) /\ CountedIn(e) = CountedIn(w) /\ HumansIn(e) = HumansIn(w)
<1>1. DOMAIN e.users = DOMAIN w.users /\ w.complete /\ e.complete
  BY DEF CountKnown, PartOf, UsersPart, WholeEvidence
<1>2. \A u \in DOMAIN e.users :
         /\ Kind(u, e) = Kind(u, w) /\ (PossibleExemption(u, e) <=> PossibleExemption(u, w))
         /\ ~Conflict(u, w) /\ e.users[u].id = w.users[u].id /\ e.users[u].active = w.users[u].active
         /\ e.users[u].admin \in {w.users[u].admin, "?"}
  BY <1>1, SameHolders, SameFields, SameAccount
<1>3. JudgedIn(e) = DOMAIN e.users /\ \A u \in DOMAIN e.users : e.users[u].admin # "?" /\ e.users[u].active # "?"
  BY DEF CountKnown
<1>4. JudgedIn(w) = DOMAIN w.users
  BY <1>1, <1>2, <1>3 DEF JudgedIn
<1>5. \A u \in DOMAIN e.users : e.users[u].admin = w.users[u].admin
  BY <1>2, <1>3
<1>6. CountKnown(w)
  BY <1>1, <1>2, <1>3, <1>4, <1>5 DEF CountKnown
<1>7. GlassIn(e) = GlassIn(w) /\ GlassIn(e) \subseteq DOMAIN e.users
  BY <1>1, <1>2, <1>3, <1>4 DEF GlassIn
<1>8. \A u \in DOMAIN e.users : BeforeIn(u, e) = BeforeIn(u, w)
  BY <1>2, <1>7 DEF BeforeIn
<1>9. SparedIn(e) = SparedIn(w)
  BY <1>7, <1>8 DEF SparedIn
<1>10. CountedIn(e) = CountedIn(w) /\ HumansIn(e) = HumansIn(w)
  BY <1>1, <1>2, <1>3, <1>4, <1>5, <1>9 DEF CountedIn, HumansIn
<1> QED
  BY <1>6, <1>10

LEMMA CountedInWhole ==
    ASSUME NEW e, NEW w, PartOf(e, w), JudgedIn(w) = DOMAIN w.users
    PROVE  /\ IsFiniteSet(CountedIn(w)) /\ CountedIn(e) \subseteq CountedIn(w)
<1>1. DOMAIN e.users \subseteq DOMAIN w.users /\ IsFiniteSet(DOMAIN w.users)
  BY DEF PartOf, UsersPart
<1>2. \A u \in DOMAIN w.users : ~PossibleExemption(u, w)
  BY DEF JudgedIn
<1>3. \A u \in DOMAIN e.users :
         /\ Kind(u, e) \in Exempt => Kind(u, w) = Kind(u, e)
         /\ Kind(u, w) \in Exempt /\ ~PossibleExemption(u, e) => Kind(u, e) = Kind(u, w)
         /\ e.users[u].id = w.users[u].id /\ (e.users[u].admin = "t" => w.users[u].admin = "t")
  BY <1>1, <1>2, Holders, SameFields, SameAccount
<1>4. GlassIn(e) \subseteq GlassIn(w)
  BY <1>1, <1>3 DEF GlassIn, JudgedIn, Exempt
<1>5. ASSUME NEW u \in JudgedIn(e), u \in SparedIn(w)
      PROVE  u \in SparedIn(e)
  <2>1. u \in DOMAIN e.users /\ u \in GlassIn(w) /\ Cardinality(BeforeIn(u, w)) < 2
    BY <1>5 DEF SparedIn, JudgedIn
  <2>2. u \in GlassIn(e)
    BY <1>3, <1>5, <2>1 DEF GlassIn, JudgedIn, Exempt
  <2>3. BeforeIn(u, e) \subseteq BeforeIn(u, w) /\ IsFiniteSet(BeforeIn(u, w))
    <3>1. GlassIn(e) \subseteq DOMAIN e.users /\ GlassIn(w) \subseteq DOMAIN w.users
      BY DEF GlassIn, JudgedIn
    <3>2. BeforeIn(u, e) \subseteq BeforeIn(u, w)
      BY <1>3, <1>4, <2>1, <3>1 DEF BeforeIn
    <3>3. BeforeIn(u, w) \subseteq DOMAIN w.users
      BY <3>1 DEF BeforeIn
    <3> QED
      BY <1>1, <3>2, <3>3, FS_Subset
  <2>4. Cardinality(BeforeIn(u, e)) <= Cardinality(BeforeIn(u, w)) /\ Cardinality(BeforeIn(u, e)) \in Nat
        /\ Cardinality(BeforeIn(u, w)) \in Nat
    BY <2>3, FS_Subset, FS_CardinalityType
  <2> QED
    BY <2>1, <2>2, <2>4 DEF SparedIn
<1>6. CountedIn(e) \subseteq CountedIn(w)
  BY <1>1, <1>3, <1>5 DEF CountedIn, JudgedIn, Exempt
<1>7. CountedIn(w) \subseteq DOMAIN w.users
  BY DEF CountedIn, JudgedIn
<1> QED
  BY <1>1, <1>6, <1>7, FS_Subset

LEMMA CountAgrees ==
    ASSUME NEW e, NEW w, PartOf(e, w)
    PROVE  Agree(AdminCount(e).verdict, AdminCount(w).verdict)
<1> DEFINE count(x) == Cardinality(CountedIn(x))
           humans(x) == Cardinality(HumansIn(x))
<1>1. \A x : AdminCount(x).verdict =
              Decided((CountKnown(x) /\ (count(x) < 3 \/ humans(x) > 0)) \/ count(x) > 3,
                      count(x) > 3 \/ (CountKnown(x) /\ humans(x) > 0 /\ count(x) >= 3 /\ count(x) * 3 > humans(x)))
  BY CountRule DEF Say
<1>2. CASE CountKnown(e)
  <2>1. CountKnown(w) /\ count(e) = count(w) /\ humans(e) = humans(w)
    BY <1>2, KnownCount
  <2> HIDE DEF count, humans
  <2> QED
    BY <1>1, <1>2, <2>1 DEF Decided, Agree
<1>3. CASE ~CountKnown(e) /\ JudgedIn(w) # DOMAIN w.users
  <2>1. ~CountKnown(w)
    BY <1>3 DEF CountKnown
  <2> HIDE DEF count, humans
  <2> QED
    BY <1>1, <1>3, <2>1 DEF Decided, Agree
<1>4. CASE ~CountKnown(e) /\ JudgedIn(w) = DOMAIN w.users
  <2>1. count(e) <= count(w) /\ count(e) \in Nat /\ count(w) \in Nat
    BY <1>4, CountedInWhole, FS_Subset, FS_CardinalityType
  <2> HIDE DEF count, humans
  <2> QED
    BY <1>1, <1>4, <2>1 DEF Decided, Agree
<1> QED
  BY <1>2, <1>3, <1>4

-----------------------------------------------------------------------------
(* Apps and mailboxes.                                                     *)
LEMMA MoreGrants ==
    ASSUME NEW e, NEW w, PartOf(e, w)
    PROVE  /\ AllGrants(e) \subseteq AllGrants(w) /\ \A g \in AllGrants(e) : g.by \in DOMAIN e.users
           /\ GrantsWhole(w) /\ (GrantsWhole(e) => AllGrants(e) = AllGrants(w))
<1>1. /\ DOMAIN e.grants \subseteq DOMAIN e.users /\ DOMAIN w.grants = DOMAIN w.users /\ DOMAIN e.users \subseteq DOMAIN w.users
      /\ \A u \in DOMAIN e.grants : e.grants[u] = w.grants[u]
      /\ w.complete /\ (e.complete => DOMAIN e.users = DOMAIN w.users)
  BY DEF PartOf, UsersPart, GrantsPart, WholeEvidence
<1> DEFINE of(x, u) == {[app |-> g.app, scope |-> g.scope, by |-> u] : g \in x.grants[u]}
<1>2. \A x : AllGrants(x) = UNION {of(x, u) : u \in DOMAIN x.grants}
  BY DEF AllGrants
<1>3. \A u \in DOMAIN e.grants : of(e, u) = of(w, u)
  BY <1>1
<1>4. \A u, g : g \in of(e, u) => g.by = u
  OBVIOUS
<1> HIDE DEF of
<1>5. AllGrants(e) \subseteq AllGrants(w) /\ \A g \in AllGrants(e) : g.by \in DOMAIN e.users
  BY <1>1, <1>2, <1>3, <1>4
<1>6. ASSUME GrantsWhole(e) PROVE AllGrants(w) \subseteq AllGrants(e)
  BY <1>1, <1>2, <1>3, <1>6 DEF GrantsWhole
<1> QED
  BY <1>1, <1>5, <1>6 DEF GrantsWhole

LEMMA AppVerdict ==
    ASSUME NEW e, NEW a
    PROVE  LET v == AppRule(a, e).verdict
               broad == {"broad", "security"}
           IN  /\ v \in {"fired", "abstained", "disproved"}
               /\ v = "fired" <=> \E g \in KeptGrants(e) : /\ g.app = a /\ g.scope \in broad /\ ~Inactive(g.by, e)
                                                     /\ ~Conflict(g.by, e) /\ e.users[g.by].active = "t"
               /\ v = "disproved" => /\ GrantsWhole(e)
                                     /\ \A g \in KeptGrants(e) : g.app = a /\ g.scope \in broad => Inactive(g.by, e)
BY DEF AppRule, Say, Decided

LEMMA OAuthAgrees ==
    ASSUME NEW e, NEW w, PartOf(e, w), NEW j \in OAuthRules(e), NEW k \in OAuthRules(w),
           j.of = k.of, j.of # Declared.client
    PROVE  Agree(j.verdict, k.verdict)
<1>1. /\ AllGrants(e) \subseteq AllGrants(w) /\ \A g \in AllGrants(e) : g.by \in DOMAIN e.users
      /\ GrantsWhole(w) /\ (GrantsWhole(e) => AllGrants(e) = AllGrants(w))
  BY MoreGrants
<1>2. ASSUME NEW x, NEW g, g.app # Declared.client
      PROVE  g \in KeptGrants(x) <=> g \in AllGrants(x)
  <2>1. \A h \in SetAside(x) : h.app = Declared.client
    BY DEF SetAside
  <2> QED
    BY <1>2, <2>1 DEF KeptGrants
<1>3. ASSUME NEW x, NEW i \in OAuthRules(x)
      PROVE  \/ \E g \in KeptGrants(x) : i.of = g.app /\ i.verdict = AppRule(g.app, x).verdict
             \/ /\ i.of = "tenant" /\ i.verdict = Decided(GrantsWhole(x), FALSE) /\ ~(GrantsWhole(x) /\ KeptGrants(x) # {})
  <2> DEFINE none == Say("app", "tenant", Decided(GrantsWhole(x), FALSE))
  <2>1. none.of = "tenant" /\ none.verdict = Decided(GrantsWhole(x), FALSE)
    BY DEF Say
  <2>2. \A g : AppRule(g.app, x).of = g.app
    BY DEF AppRule, Say
  <2>3. \/ \E g \in KeptGrants(x) : i = AppRule(g.app, x)
        \/ i = none /\ ~(GrantsWhole(x) /\ KeptGrants(x) # {})
    <3> HIDE DEF none
    <3>1. OAuthRules(x) = {AppRule(g.app, x) : g \in KeptGrants(x)} \cup (IF GrantsWhole(x) /\ KeptGrants(x) # {} THEN {} ELSE {none})
      BY Zenon DEF OAuthRules, none
    <3> QED
      BY <1>3, <3>1
  <2> HIDE DEF none
  <2> QED
    BY <2>1, <2>2, <2>3
<1>4. \A u \in DOMAIN e.users : /\ e.users[u].active = w.users[u].active /\ ~Conflict(u, w)
                                /\ Inactive(u, e) => Inactive(u, w)
  BY SameFields, SameAccount, TwoStepAgrees
<1> DEFINE a == j.of
<1>5. CASE /\ \E g \in KeptGrants(e) : a = g.app /\ j.verdict = AppRule(a, e).verdict
           /\ \E g \in KeptGrants(w) : a = g.app /\ k.verdict = AppRule(a, w).verdict
  <2>1. ASSUME AppRule(a, e).verdict = "fired" PROVE AppRule(a, w).verdict = "fired"
    <3>1. PICK g \in KeptGrants(e) : /\ g.app = a /\ g.scope \in {"broad", "security"} /\ ~Inactive(g.by, e)
                               /\ ~Conflict(g.by, e) /\ e.users[g.by].active = "t"
      BY <2>1, AppVerdict
    <3>2. g \in KeptGrants(w) /\ g.by \in DOMAIN e.users
      BY <1>1, <1>2, <3>1
    <3>3. ~Conflict(g.by, w) /\ w.users[g.by].active = "t" /\ ~Inactive(g.by, w)
      BY <1>4, <3>1, <3>2 DEF Inactive
    <3> QED
      BY <3>1, <3>2, <3>3, AppVerdict
  <2>2. ASSUME AppRule(a, e).verdict = "disproved", AppRule(a, w).verdict = "fired" PROVE FALSE
    <3>1. PICK g \in KeptGrants(w) : /\ g.app = a /\ g.scope \in {"broad", "security"} /\ ~Inactive(g.by, w)
      BY <2>2, AppVerdict
    <3>2. GrantsWhole(e) /\ \A h \in KeptGrants(e) : h.app = a /\ h.scope \in {"broad", "security"} => Inactive(h.by, e)
      BY <2>2, AppVerdict
    <3>3. g \in KeptGrants(e) /\ g.by \in DOMAIN e.users
      BY <1>1, <1>2, <3>1, <3>2
    <3> QED
      BY <1>4, <3>1, <3>2, <3>3
  <2> QED
    BY <1>5, <2>1, <2>2, AppVerdict DEF Agree
<1>6. CASE j.verdict = Decided(GrantsWhole(e), FALSE) /\ ~(GrantsWhole(e) /\ KeptGrants(e) # {})
  <2>1. j.verdict # "abstained" => GrantsWhole(e) /\ j.verdict = "disproved" /\ KeptGrants(e) = {}
    BY <1>6 DEF Decided
  <2>2. ASSUME GrantsWhole(e), KeptGrants(e) = {}, NEW g \in KeptGrants(w), g.app = a
        PROVE  FALSE
    BY <1>1, <1>2, <2>2
  <2> QED
    BY <1>3, <2>1, <2>2 DEF Agree, Decided
<1>7. CASE /\ \E g \in KeptGrants(e) : a = g.app /\ j.verdict = AppRule(a, e).verdict
           /\ k.verdict = Decided(GrantsWhole(w), FALSE) /\ ~(GrantsWhole(w) /\ KeptGrants(w) # {})
  <2>1. KeptGrants(w) = {}
    BY <1>1, <1>7
  <2> QED
    BY <1>1, <1>2, <1>7, <2>1
<1> QED
  BY <1>3, <1>5, <1>6, <1>7

LEMMA BoxAgrees ==
    ASSUME NEW e, NEW w, PartOf(e, w), NEW u \in DOMAIN e.users, NEW j \in DecideBox(u, e), NEW k \in DecideBox(u, w)
    PROVE  Agree(j.verdict, k.verdict)
<1>1. /\ e.domains \subseteq w.domains /\ (e.domainsWhole => e.domains = w.domains) /\ w.domainsWhole
      /\ DOMAIN w.boxes = DOMAIN w.users /\ u \in DOMAIN w.users
  BY SameAccount DEF PartOf, BoxesPart, WholeEvidence
<1>2. \A d : /\ DestClass(d, e) = "external" => DestClass(d, w) = "external"
             /\ e.domainsWhole => DestClass(d, e) = DestClass(d, w)
  BY <1>1 DEF DestClass
<1> DEFINE odd(x) == {DestClass(d, x) : d \in Destinations(x.boxes[u])} \ {"internal"}
<1>3. ASSUME NEW x, NEW i \in DecideBox(u, x), u \in DOMAIN x.boxes, MailboxState(u, x) = "read"
      PROVE  /\ i.verdict \in {"fired", "abstained", "disproved"}
             /\ i.verdict = "fired" => "external" \in odd(x)
             /\ i.verdict = "disproved" => /\ odd(x) = {} /\ x.boxes[u].whole /\ x.boxes[u].auto # "?"
                                           /\ (Destinations(x.boxes[u]) = {} \/ x.domainsWhole)
  BY <1>3 DEF DecideBox, Say, Decided
<1>4. MailboxState(u, e) \notin {"read", "closed"} => MailboxState(u, e) = "unknown"
  BY DEF MailboxState
<1>7. MailboxState(u, e) # "closed"
  BY DEF DecideBox
<1>5. CASE MailboxState(u, e) = "unknown" \/ u \notin DOMAIN e.boxes
  <2>1. DecideBox(u, e) = {Say("forward", u, "abstained")}
    BY <1>5, <1>7, Zenon DEF DecideBox
  <2> QED
    BY <2>1 DEF Say, Agree
<1>6. CASE MailboxState(u, e) = "read" /\ u \in DOMAIN e.boxes
  <2>1. MailboxState(u, w) = "read"
    BY <1>6, SameFields, SameAccount DEF MailboxState
  <2>2. /\ e.boxes[u].filters \subseteq w.boxes[u].filters /\ e.boxes[u].auto \in {w.boxes[u].auto, "?"}
        /\ e.boxes[u].whole => e.boxes[u].filters = w.boxes[u].filters
    BY <1>6 DEF PartOf, BoxesPart
  <2>3. /\ Destinations(e.boxes[u]) \subseteq Destinations(w.boxes[u])
        /\ e.boxes[u].whole /\ e.boxes[u].auto # "?" => Destinations(e.boxes[u]) = Destinations(w.boxes[u])
    BY <2>2 DEF Destinations
  <2>4. ASSUME "external" \in odd(e) PROVE odd(w) # {}
    <3>1. PICK d \in Destinations(e.boxes[u]) : DestClass(d, e) = "external"
      BY <2>4
    <3>2. d \in Destinations(w.boxes[u]) /\ DestClass(d, w) = "external"
      BY <1>2, <2>3, <3>1
    <3>3. "external" \in odd(w)
      BY <3>2
    <3> QED
      BY <3>3
  <2>5. j.verdict = "disproved" => odd(w) = {}
    <3>1. ASSUME odd(e) = {}, Destinations(e.boxes[u]) = Destinations(w.boxes[u]), Destinations(e.boxes[u]) = {} \/ e.domainsWhole
          PROVE  odd(w) = {}
      BY <1>2, <3>1
    <3> HIDE DEF odd
    <3> QED
      BY <1>3, <1>6, <2>3, <3>1
  <2> HIDE DEF odd
  <2> QED
    BY <1>1, <1>3, <1>6, <2>1, <2>4, <2>5 DEF Agree
<1> QED
  BY <1>4, <1>5, <1>6, <1>7

-----------------------------------------------------------------------------
(* Judge: which rule a judgment is from, and that any two agree.           *)
LEMMA AccountVerdict ==
    ASSUME NEW x, NEW u, NEW i \in AccountRules(u, x)
    PROVE  /\ i.of = u
           /\ \/ i.id = "unexpected_admin" /\ i.verdict = UnexpectedAdmin(u, x)
              \/ i.id = "unattributed_admin" /\ i.verdict = UnattributedAdmin(u, x)
              \/ i.id = "suspended_admin" /\ i.verdict = SuspendedAdmin(u, x)
              \/ i.id = "contractor_admin" /\ i.verdict = AdminOfKind("contractor", u, x)
              \/ i.id = "shared_admin" /\ i.verdict = AdminOfKind("shared", u, x)
              \/ i.id = "former" /\ Known(u, x) /\ i.verdict = Former(u, x)
BY DEF AccountRules, Say

LEMMA AccountAgrees ==
    ASSUME NEW e, NEW w, PartOf(e, w), NEW u \in DOMAIN e.users,
           NEW j \in AccountRules(u, e), NEW k \in AccountRules(u, w), j.id = k.id
    PROVE  Agree(j.verdict, k.verdict)
<1> DEFINE A(i, x) == \/ i.id = "unexpected_admin" /\ i.verdict = UnexpectedAdmin(u, x)
                      \/ i.id = "unattributed_admin" /\ i.verdict = UnattributedAdmin(u, x)
                      \/ i.id = "suspended_admin" /\ i.verdict = SuspendedAdmin(u, x)
                      \/ i.id = "contractor_admin" /\ i.verdict = AdminOfKind("contractor", u, x)
                      \/ i.id = "shared_admin" /\ i.verdict = AdminOfKind("shared", u, x)
                      \/ i.id = "former" /\ Known(u, x) /\ i.verdict = Former(u, x)
<1>1. A(j, e) /\ A(k, w)
  BY AccountVerdict
<1> QED
  BY <1>1, AdminAgrees

LEMMA AbsentVerdict ==
    ASSUME NEW x, NEW i \in AbsentLeavers(x)
    PROVE  /\ i.id = "former" /\ i.verdict \in {"abstained", "disproved"}
           /\ i.verdict = "disproved" => x.complete /\ i.of \notin DOMAIN x.users
<1>1. PICK h, a : i = Say("former", a, Absent(h, a, x))
  BY Zenon DEF AbsentLeavers
<1> QED
  BY <1>1 DEF Absent, Say, Decided, HasAddress

\* A judgment of x, by the rule it is from.
OfAccount(i, x) == /\ i.id \in {"unexpected_admin", "unattributed_admin", "suspended_admin", "contractor_admin", "shared_admin", "former"}
                   /\ \E u \in DOMAIN x.users : i \in AccountRules(u, x) /\ i.of = u
OfLogin(i, x) == i.id \in {"stale", "never"} /\ \E u \in DOMAIN x.users : i.of = u /\ i.verdict = Idle(i.id, u, x)
OfTwoStep(i, x) == i.id = "admin_two_step" /\ \E u \in DOMAIN x.users : i.of = u /\ i = AdminTwoStep(u, x)
OfLeaver(i, x) == i.id = "former" /\ i \in AbsentLeavers(x)
OfCount(i, x) == i.id = "admins" /\ i = AdminCount(x)
OfApp(i, x) == i.id = "app" /\ i \in OAuthRules(x)
OfBox(i, x) == i.id = "forward" /\ (i.verdict = "abstained" \/ \E u \in DOMAIN x.users : i.of = u /\ i \in DecideBox(u, x))
OfUnit(i, x) == i.id = "two_step" /\ i \in UnitRule(i.of, x)

LEMMA Grouped ==
    ASSUME NEW x, NEW i \in JudgeTenant(x)
    PROVE  OfAccount(i, x) \/ OfLogin(i, x) \/ OfTwoStep(i, x) \/ OfLeaver(i, x) \/ OfCount(i, x) \/ OfApp(i, x) \/ OfBox(i, x) \/ OfUnit(i, x)
<1>1. ASSUME NEW u \in DOMAIN x.users, i \in AccountRules(u, x) PROVE OfAccount(i, x)
  BY <1>1, AccountVerdict DEF OfAccount
<1>2. ASSUME NEW u \in DOMAIN x.users, i \in Inactivity(u, x) PROVE OfLogin(i, x)
  <2>1. PICK id \in {"stale", "never"} : i = Say(id, u, Idle(id, u, x))
    BY <1>2, Zenon DEF Inactivity
  <2> QED
    BY <2>1 DEF OfLogin, Say
<1>3. ASSUME NEW u \in DOMAIN x.users, i = AdminTwoStep(u, x) PROVE OfTwoStep(i, x)
  <2>1. AdminTwoStep(u, x).id = "admin_two_step" /\ AdminTwoStep(u, x).of = u
    BY DEF AdminTwoStep, Say
  <2> QED
    BY <1>3, <2>1 DEF OfTwoStep
<1>4. i \in AbsentLeavers(x) => OfLeaver(i, x)
  BY AbsentVerdict DEF OfLeaver
<1>5. i = AdminCount(x) => OfCount(i, x)
  <2>1. AdminCount(x).id = "admins"
    BY CountRule DEF Say
  <2> QED
    BY <2>1 DEF OfCount
<1>6. ASSUME i \in OAuthRules(x) PROVE OfApp(i, x)
  <2>1. \A a : AppRule(a, x).id = "app"
    BY DEF AppRule, Say
  <2>2. \A v : Say("app", "tenant", v).id = "app"
    BY DEF Say
  <2>3. (\E g \in KeptGrants(x) : i = AppRule(g.app, x)) \/ \E v : i = Say("app", "tenant", v)
    BY <1>6, Zenon DEF OAuthRules
  <2> QED
    BY <1>6, <2>1, <2>2, <2>3 DEF OfApp
<1>7. ASSUME i \in BoxRules(x) PROVE OfBox(i, x)
  <2>1. \A u : \A b \in DecideBox(u, x) : b.id = "forward" /\ b.of = u
    <3>1. \A u : \A b \in DecideBox(u, x) : \E v : b = Say("forward", u, v)
      BY Zenon DEF DecideBox
    <3> QED
      BY <3>1 DEF Say
  <2>2. Say("forward", "tenant", "abstained").id = "forward" /\ Say("forward", "tenant", "abstained").verdict = "abstained"
    BY DEF Say
  <2>3. i = Say("forward", "tenant", "abstained") \/ \E u \in DOMAIN x.users : i \in DecideBox(u, x)
    <3>1. i \in UNION {DecideBox(u, x) : u \in DOMAIN x.users} \/ i = Say("forward", "tenant", "abstained")
      <4> DEFINE own == UNION {DecideBox(u, x) : u \in DOMAIN x.users}
      <4>1. BoxRules(x) = BoxesUnread(x) \cup own
        BY DEF BoxRules
      <4>2. \A b \in BoxesUnread(x) : b = Say("forward", "tenant", "abstained")
        BY Zenon DEF BoxesUnread
      <4> HIDE DEF own
      <4>3. i \in own \/ i = Say("forward", "tenant", "abstained")
        BY <1>7, <4>1, <4>2
      <4> QED
        BY <4>3 DEF own
    <3> QED
      BY <3>1
  <2> QED
    BY <2>1, <2>2, <2>3 DEF OfBox
<1>8. ASSUME NEW n, i \in UnitRule(n, x) PROVE OfUnit(i, x)
  <2>1. i.id = "two_step" /\ i.of = n
    <3>1. \E v : i = Say("two_step", n, v)
      BY <1>8, Zenon DEF UnitRule
    <3> QED
      BY <3>1 DEF Say
  <2> QED
    BY <1>8, <2>1 DEF OfUnit
<1>9. \/ \E u \in DOMAIN x.users : i \in AccountRules(u, x) \/ i \in Inactivity(u, x) \/ i = AdminTwoStep(u, x)
      \/ i \in AbsentLeavers(x) \/ i = AdminCount(x) \/ i \in OAuthRules(x) \/ i \in BoxRules(x)
      \/ \E n : i \in UnitRule(n, x)
  <2> DEFINE of(u) == AccountRules(u, x) \cup Inactivity(u, x) \cup {AdminTwoStep(u, x)}
             places == {x.users[u].unit : u \in DOMAIN x.users}
             accounts == UNION {of(u) : u \in DOMAIN x.users}
             steps == UNION {UnitRule(n, x) : n \in places}
  <2>1. \/ i \in accounts \/ i \in steps
        \/ i \in AbsentLeavers(x) \/ i = AdminCount(x) \/ i \in OAuthRules(x) \/ i \in BoxRules(x)
    <3>1. JudgeTenant(x) = AbsentLeavers(x) \cup {AdminCount(x)} \cup OAuthRules(x) \cup BoxRules(x) \cup accounts \cup steps
      BY DEF JudgeTenant
    <3> HIDE DEF accounts, steps
    <3> QED
      BY <3>1
  <2>2. ASSUME i \in UNION {of(u) : u \in DOMAIN x.users}
        PROVE  \E u \in DOMAIN x.users : i \in AccountRules(u, x) \/ i \in Inactivity(u, x) \/ i = AdminTwoStep(u, x)
    BY <2>2, Zenon
  <2> HIDE DEF of, places
  <2>3. i \in UNION {UnitRule(n, x) : n \in places} => \E n : i \in UnitRule(n, x)
    BY Zenon
  <2> QED
    BY <2>1, <2>2, <2>3
<1> QED
  BY <1>1, <1>2, <1>3, <1>4, <1>5, <1>6, <1>7, <1>8, <1>9

LEMMA JudgmentsAgree ==
    ASSUME NEW e, NEW w, PartOf(e, w), NEW j \in JudgeTenant(e), NEW k \in JudgeTenant(w),
           j.id = k.id, j.of = k.of, ~(j.id = "app" /\ j.of = Declared.client)
    PROVE  Agree(j.verdict, k.verdict)
<1>1. DOMAIN e.users \subseteq DOMAIN w.users /\ (e.complete => DOMAIN e.users = DOMAIN w.users)
  BY DEF PartOf, UsersPart
<1>2. ASSUME OfAccount(j, e), OfAccount(k, w) PROVE Agree(j.verdict, k.verdict)
  BY <1>2, AccountAgrees DEF OfAccount
<1>3. ASSUME OfLeaver(j, e), OfAccount(k, w) \/ OfLeaver(k, w) PROVE Agree(j.verdict, k.verdict)
  BY <1>1, <1>3, AbsentVerdict DEF OfAccount, OfLeaver, Agree
<1>4. ASSUME OfAccount(j, e), OfLeaver(k, w) PROVE Agree(j.verdict, k.verdict)
  BY <1>1, <1>4, AbsentVerdict DEF OfAccount, OfLeaver, Agree
<1>5. ASSUME OfLogin(j, e), OfLogin(k, w) PROVE Agree(j.verdict, k.verdict)
  BY <1>5, IdleAgrees DEF OfLogin
<1>6. ASSUME OfTwoStep(j, e), OfTwoStep(k, w) PROVE Agree(j.verdict, k.verdict)
  BY <1>6, TwoStepAgrees DEF OfTwoStep
<1>7. ASSUME OfCount(j, e), OfCount(k, w) PROVE Agree(j.verdict, k.verdict)
  BY <1>7, CountAgrees DEF OfCount
<1>8. ASSUME OfApp(j, e), OfApp(k, w) PROVE Agree(j.verdict, k.verdict)
  BY <1>8, OAuthAgrees DEF OfApp
<1>9. ASSUME OfBox(j, e), OfBox(k, w) PROVE Agree(j.verdict, k.verdict)
  BY <1>9, BoxAgrees DEF OfBox, Agree
<1>10. ASSUME OfUnit(j, e), OfUnit(k, w) PROVE Agree(j.verdict, k.verdict)
  BY <1>10, UnitAgrees DEF OfUnit
<1>11. /\ OfAccount(j, e) \/ OfLogin(j, e) \/ OfTwoStep(j, e) \/ OfLeaver(j, e) \/ OfCount(j, e) \/ OfApp(j, e) \/ OfBox(j, e) \/ OfUnit(j, e)
       /\ OfAccount(k, w) \/ OfLogin(k, w) \/ OfTwoStep(k, w) \/ OfLeaver(k, w) \/ OfCount(k, w) \/ OfApp(k, w) \/ OfBox(k, w) \/ OfUnit(k, w)
  BY Grouped
<1>12. \A i, x : /\ OfAccount(i, x) => i.id \in {"unexpected_admin", "unattributed_admin", "suspended_admin",
                                                "contractor_admin", "shared_admin", "former"}
                 /\ (OfLogin(i, x) => i.id \in {"stale", "never"}) /\ (OfTwoStep(i, x) => i.id = "admin_two_step")
                 /\ (OfLeaver(i, x) => i.id = "former") /\ (OfCount(i, x) => i.id = "admins") /\ (OfApp(i, x) => i.id = "app")
                 /\ (OfBox(i, x) => i.id = "forward") /\ (OfUnit(i, x) => i.id = "two_step")
  BY DEF OfAccount, OfLogin, OfTwoStep, OfLeaver, OfCount, OfApp, OfBox, OfUnit
<1> QED
  BY <1>2, <1>3, <1>4, <1>5, <1>6, <1>7, <1>8, <1>9, <1>10, <1>11, <1>12

TenantIInv == /\ tenant \in Tenants
              /\ held = [read |-> FALSE] \/ \E l : held = [read |-> TRUE, evidence |-> Collect(tenant, l)]

LEMMA TenantInductive == TenantSpec => []TenantIInv
<1>1. TenantInit => TenantIInv
  BY DEF TenantInit, TenantIInv
<1>2. TenantIInv /\ [TenantNext]_tenantVars => TenantIInv'
  BY Zenon DEF TenantNext, TenantIInv, tenantVars
<1> QED
  BY <1>1, <1>2, PTL DEF TenantSpec

LEMMA TenantSafe == TenantIInv => TenantLossSafe
<1> SUFFICES ASSUME TenantIInv, held.read PROVE TenantLossSafe
  BY DEF TenantLossSafe
<1> DEFINE w == Collect(tenant, NothingLost)
<1>1. PICK l : held.evidence = Collect(tenant, l)
  BY DEF TenantIInv
<1> DEFINE e == held.evidence
<1>2. PartOf(e, w)
  BY <1>1, CollectedPart DEF TenantIInv
<1> HIDE DEF e, w
<1>3. \A j \in JudgeTenant(e) : \A k \in JudgeTenant(w) :
         \/ <<j.id, j.of>> # <<k.id, k.of>> \/ "abstained" \in {j.verdict, k.verdict} \/ j.verdict = k.verdict
         \/ (j.id = "app" /\ j.of = Declared.client)
  BY <1>2, JudgmentsAgree DEF Agree
<1>4. \A u \in DOMAIN e.users : Raised(e.users[u].unit, e) => Raised(e.users[u].unit, w)
  BY <1>2, RaisedInWhole
<1> QED
  BY <1>3, <1>4 DEF TenantLossSafe, e, w

\* Whatever of a tenant was not read, no rule says the opposite of what the
\* whole evidence says (Judge over a partial Collect).
THEOREM TenantAlwaysLossSafe == TenantSpec => []TenantLossSafe
BY TenantInductive, TenantSafe, PTL

-----------------------------------------------------------------------------
(* The rules over one host's facts.  A capture is part of what the host    *)
(* has (PartOfHost): lists of records lose some, texts keep a beginning.   *)
(* Then each rule is followed over the part and over the whole.            *)
HostRulesSpec == HostRulesInit /\ [][HostRulesNext]_hostRuleVars

\* A set of numbers that is not empty has a least one.
LEMMA MinIs ==
    ASSUME NEW S \in SUBSET Nat, S # {}
    PROVE  Min(S) \in S /\ \A k \in S : Min(S) <= k
<1>1. PICK m \in S : \A k \in S : ~(<<k, m>> \in OpToRel(<, Nat))
  BY NatLessThanWellFounded, WFMin
<1>2. \A k \in S : ~(k < m)
  <2> TAKE k \in S
  <2>1. k \in Nat /\ m \in Nat
    OBVIOUS
  <2>2. k < m => <<k, m>> \in OpToRel(<, Nat)
    BY <2>1 DEF OpToRel
  <2> QED
    BY <1>1, <2>2
<1>3. \A k \in S : m <= k
  BY <1>2
<1> QED
  BY <1>3 DEF Min

\* A sequence is as long as a number says.
LEMMA LenOf == ASSUME NEW U, NEW s \in Seq(U) PROVE Len(s) \in Nat
OBVIOUS

Begins(s, t) == Len(s) <= Len(t) /\ \A i \in 1..Len(s) : s[i] = t[i]
FirstOf(S) == IF S # {} THEN Min(S) ELSE 0

\* The first place of a property within a beginning is its first place in all.
LEMMA FirstOfBeginning ==
    ASSUME NEW S \in SUBSET Nat, NEW T \in SUBSET Nat, NEW n \in Nat, S = T \cap 1..n, 0 \notin T
    PROVE  FirstOf(S) # 0 => FirstOf(S) = FirstOf(T) /\ FirstOf(S) \in S
<1> SUFFICES ASSUME S # {} PROVE Min(S) = Min(T) /\ Min(S) \in S
  BY DEF FirstOf
<1>1. Min(S) \in S /\ \A k \in S : Min(S) <= k
  BY MinIs
<1>2. Min(T) \in T /\ \A k \in T : Min(T) <= k
  BY MinIs
<1>3. Min(T) <= Min(S)
  BY <1>1, <1>2
<1>a. Min(S) \in Nat /\ Min(T) \in Nat
  BY <1>1, <1>2
<1>4. Min(T) \in 1..n
  BY <1>1, <1>3, <1>2, <1>a
<1> QED
  BY <1>1, <1>2, <1>3, <1>4, <1>a

Deciding(u, port, v6) == {i \in 1..Len(u.rules) : u.rules[i].v6 = v6 /\ port \in u.rules[i].ports /\ RuleAnswer(u.rules[i]) # "pass"}
SomeV6(u) == \E r \in ToSet(u.rules) : r.v6
WalkAnswer(u, v6, at) ==
    IF v6 /\ ~SomeV6(u) THEN "unknown"
    ELSE IF at # 0 THEN RuleAnswer(u.rules[at])
    ELSE IF u.cut THEN "unknown"
    ELSE IF u.incoming = "allow" THEN "open" ELSE "filtered"
\* The walk of ufw answers by its first deciding rule.
LEMMA WalkIs ==
   ASSUME NEW u, NEW port, NEW v6 PROVE WalkUFW(u, port, v6) = WalkAnswer(u, v6, FirstOf(Deciding(u, port, v6)))
BY DEF WalkUFW, SelectInSeq, WalkAnswer, FirstOf, Deciding, SomeV6

\* A rule listing cut short walks to the same answer or to none.
LEMMA WalkPart ==
    ASSUME NEW f, NEW g, NEW port, NEW v6, f.rules \in Seq(UfwRules), g.rules \in Seq(UfwRules),
           Begins(f.rules, g.rules), f.incoming = g.incoming, f.cut \in BOOLEAN, g.cut = FALSE, ~f.cut => f.rules = g.rules
    PROVE  WalkUFW(f, port, v6) \in {"unknown", WalkUFW(g, port, v6)}
<1> DEFINE S == Deciding(f, port, v6)
           T == Deciding(g, port, v6)
<1>1. f.rules \in Seq(UfwRules) /\ g.rules \in Seq(UfwRules) /\ Len(f.rules) \in Nat /\ Len(g.rules) \in Nat
  BY LenOf
<1>2. S \in SUBSET Nat /\ T \in SUBSET Nat /\ 0 \notin T /\ S = T \cap 1..Len(f.rules)
  BY <1>1 DEF Deciding, Begins
<1>3. FirstOf(S) # 0 => FirstOf(S) = FirstOf(T) /\ FirstOf(S) \in S
  BY <1>1, <1>2, FirstOfBeginning
<1> HIDE DEF S, T
<1>4. FirstOf(S) # 0 => f.rules[FirstOf(S)] = g.rules[FirstOf(T)]
  BY <1>1, <1>2, <1>3 DEF Begins
<1>5. SomeV6(f) => SomeV6(g)
  <2>1. \A r \in ToSet(f.rules) : r \in ToSet(g.rules)
    BY <1>1 DEF ToSet, Begins
  <2> QED
    BY <2>1, Zenon DEF SomeV6
<1>6. f.cut \in BOOLEAN /\ g.cut \in BOOLEAN
  OBVIOUS
<1>7. WalkUFW(f, port, v6) = WalkAnswer(f, v6, FirstOf(S)) /\ WalkUFW(g, port, v6) = WalkAnswer(g, v6, FirstOf(T))
  BY WalkIs DEF S, T
<1>8. CASE ~f.cut
  <2>1. f.rules = g.rules /\ ~g.cut
    BY <1>8
  <2>2. S = T /\ SomeV6(f) = SomeV6(g)
    BY <2>1, Zenon DEF S, T, Deciding, SomeV6
  <2>3. WalkAnswer(f, v6, FirstOf(S)) = WalkAnswer(g, v6, FirstOf(T))
    BY <1>8, <2>1, <2>2 DEF WalkAnswer
  <2> QED
    BY <1>7, <2>3
<1>9. CASE f.cut
  <2> DEFINE p == SomeV6(f)
             q == SomeV6(g)
  <2>1. p => q
    BY <1>5
  <2>2. WalkAnswer(f, v6, FirstOf(S)) \in {"unknown", WalkAnswer(g, v6, FirstOf(T))}
    BY <1>9, <2>1, <1>4, <1>3 DEF WalkAnswer
  <2> QED
    BY <1>7, <2>2
<1> QED
  BY <1>6, <1>8, <1>9

PasswdLines == [name : STRING, shell : {"login", "nologin", "odd"}]
FactNames == {"ufw", "firewalld", "nft", "backend", "release", "sockets", "status", "passwd", "sshd", "posture"}

\* What of a fact captured and not failed is the whole one's.
Settled(f, g) == /\ f.cut \in BOOLEAN
                 /\ f.why = g.why \/ f.why = "failed"
                 /\ f.why # "failed" /\ ~f.cut => f = g
PartOfHost(e, h) ==
    /\ \A c \in FactNames : Settled(e[c], h[c])
    /\ e.ufw.status = h.ufw.status /\ e.ufw.incoming = h.ufw.incoming
    /\ e.ufw.rules \in Seq(UfwRules) /\ Begins(e.ufw.rules, h.ufw.rules)
    /\ ~e.ufw.cut => e.ufw.rules = h.ufw.rules
    /\ e.firewalld.state = h.firewalld.state /\ e.nft.empty = h.nft.empty /\ e.backend.target = h.backend.target
    /\ e.sockets.items \subseteq h.sockets.items /\ (~e.sockets.cut => e.sockets.items = h.sockets.items)
    /\ e.status.items \subseteq h.status.items /\ (~e.status.cut => e.status.items = h.status.items)
    /\ e.passwd.items \in Seq(PasswdLines) /\ Len(e.passwd.items) <= Len(h.passwd.items)
    /\ \A i \in 1..Len(e.passwd.items) :
          /\ e.passwd.items[i].name = h.passwd.items[i].name
          /\ (e.passwd.cut /\ i = Len(e.passwd.items)) \/ e.passwd.items[i] = h.passwd.items[i]
    /\ e.posture.shape = h.posture.shape /\ e.posture.values \in Seq({"match", "other", "odd", "marked"})
    /\ Begins(e.posture.values, h.posture.values) /\ (~e.posture.cut => e.posture.values = h.posture.values)

\* The first lines of a text are a beginning of it.
LEMMA BeginningIs ==
    ASSUME NEW U, NEW s \in Seq(U), NEW n \in Nat
    PROVE  /\ Beginning(s, n) \in Seq(U) /\ Begins(Beginning(s, n), s) /\ DOMAIN Beginning(s, n) = 1..Len(Beginning(s, n))
           /\ Len(Beginning(s, n)) = IF n < Len(s) THEN n ELSE Len(s)
BY DEF Beginning, Begins

\* Each fact of a capture is the one failed, cut or whole.
LEMMA CapturedFact ==
    ASSUME NEW h \in HostFacts, NEW l, NEW c \in FactNames
    PROVE  Captured(h, l)[c] = IF c \in l.fails THEN Failed(h[c]) ELSE IF c \in l.cuts THEN Cut(c, h[c], l) ELSE h[c]
BY DEF Captured, HostFacts, FactNames

\* A captured fact that neither failed nor was cut is the whole one.
LEMMA CapturedSettled ==
    ASSUME NEW h \in HostFacts, NEW l, l.keep \in Nat, NEW c \in FactNames
    PROVE  Settled(Captured(h, l)[c], h[c])
<1> DEFINE f == Captured(h, l)[c]
           g == h[c]
<1>1. f = Failed(g) \/ f = Cut(c, g, l) \/ f = g
  BY CapturedFact
<1>2. /\ g.why \in {"", "missing"} /\ g.cut = FALSE
      /\ g = [k \in DOMAIN g |-> g[k]] /\ "why" \in DOMAIN g /\ "cut" \in DOMAIN g
      /\ c = "sshd" => "lists" \in DOMAIN g
  BY DEF HostFacts, FactNames, Record
<1> SUFFICES Settled(f, g)
  OBVIOUS
<1> HIDE DEF f, g
<1>3. CASE f = g
  BY <1>2, <1>3 DEF Settled
<1>4. CASE f = Failed(g)
  BY <1>2, <1>4 DEF Settled, Failed
<1>5. CASE f = Cut(c, g, l)
  <2>1. f.cut = TRUE /\ f.why = g.why
    BY <1>2, <1>5 DEF Cut, FactNames
  <2> QED
    BY <2>1, <1>2 DEF Settled
<1> QED
  BY <1>1, <1>3, <1>4, <1>5

LastMisread(s, n) == [i \in DOMAIN Beginning(s, n) |-> IF i = n THEN [s[i] EXCEPT !.shell = "login"] ELSE s[i]]
\* A cut /etc/passwd keeps its lines, the last of them misread.
LEMMA MisreadIs ==
    ASSUME NEW s \in Seq(PasswdLines), NEW n \in Nat
    PROVE  LET u == LastMisread(s, n) IN
           /\ u \in Seq(PasswdLines) /\ Len(u) <= Len(s)
           /\ \A i \in 1..Len(u) : u[i].name = s[i].name /\ (i = Len(u) \/ u[i] = s[i])
<1> DEFINE k == IF n < Len(s) THEN n ELSE Len(s)
           u == LastMisread(s, n)
<1>1. k \in Nat /\ k <= Len(s) /\ DOMAIN Beginning(s, n) = 1..k /\ \A i \in 1..k : s[i] \in PasswdLines
  BY BeginningIs
<1>2. u = [i \in 1..k |-> IF i = n THEN [s[i] EXCEPT !.shell = "login"] ELSE s[i]]
  BY <1>1 DEF LastMisread
<1>3. \A i \in 1..k : u[i] \in PasswdLines /\ u[i].name = s[i].name /\ (i = k \/ u[i] = s[i])
  <2> TAKE i \in 1..k
  <2>1. s[i] \in [name : STRING, shell : {"login", "nologin", "odd"}]
    BY <1>1 DEF PasswdLines
  <2>2. u[i] = IF i = n THEN [s[i] EXCEPT !.shell = "login"] ELSE s[i]
    BY <1>2
  <2>3. i = n => i = k
    BY <1>1
  <2>4. [s[i] EXCEPT !.shell = "login"] \in PasswdLines /\ [s[i] EXCEPT !.shell = "login"].name = s[i].name
    <3> DEFINE r == s[i]
    <3>1. r \in [name : STRING, shell : {"login", "nologin", "odd"}]
      BY <2>1
    <3> HIDE DEF r
    <3>2. r = [name |-> r.name, shell |-> r.shell] /\ r.name \in STRING
      BY <3>1
    <3>3. [r EXCEPT !.shell = "login"] = [name |-> r.name, shell |-> "login"]
      BY <3>2
    <3>4. [name |-> r.name, shell |-> "login"] \in PasswdLines
      BY <3>2 DEF PasswdLines
    <3>5. [name |-> r.name, shell |-> "login"].name = r.name
      OBVIOUS
    <3> QED
      BY <3>3, <3>4, <3>5 DEF r
  <2> HIDE DEF u, k
  <2> QED
    BY <2>1, <2>2, <2>3, <2>4 DEF PasswdLines
<1> HIDE DEF u, k
<1>4. u \in [1..k -> PasswdLines]
  BY <1>2, <1>3
<1>5. u \in Seq(PasswdLines) /\ Len(u) = k
  BY <1>4, <1>1
<1> QED
  BY <1>1, <1>3, <1>5 DEF u

\* What the captures of a host hold is part of what the host has.
LEMMA CapturedPart ==
    ASSUME NEW h \in HostFacts, NEW l, l.keep \in Nat
    PROVE  PartOfHost(Captured(h, l), h)
<1> DEFINE e == Captured(h, l)
<1>0. \A c \in FactNames : e[c] = IF c \in l.fails THEN Failed(h[c]) ELSE IF c \in l.cuts THEN Cut(c, h[c], l) ELSE h[c]
  BY CapturedFact
<1> HIDE DEF e
<1>1. \A c \in FactNames : Settled(e[c], h[c])
  BY CapturedSettled DEF e
<1>2. e.ufw.status = h.ufw.status /\ e.ufw.incoming = h.ufw.incoming
      /\ e.ufw.rules \in Seq(UfwRules) /\ Begins(e.ufw.rules, h.ufw.rules) /\ (~e.ufw.cut => e.ufw.rules = h.ufw.rules)
  <2>1. e.ufw \in {h.ufw, Failed(h.ufw), Cut("ufw", h.ufw, l)}
    BY <1>0 DEF FactNames
  <2>2. h.ufw \in [why : {"", "missing"}, cut : {FALSE}, status : STRING, incoming : STRING, rules : Seq(UfwRules)]
    BY DEF HostFacts
  <2>3. Begins(h.ufw.rules, h.ufw.rules)
    BY DEF Begins
  <2>4. Beginning(h.ufw.rules, l.keep) \in Seq(UfwRules) /\ Begins(Beginning(h.ufw.rules, l.keep), h.ufw.rules)
    BY <2>2, BeginningIs
  <2> QED
    BY <2>1, <2>2, <2>3, <2>4 DEF Failed, Cut
<1>3. e.firewalld.state = h.firewalld.state
  <2>1. e.firewalld \in {h.firewalld, Failed(h.firewalld), Cut("firewalld", h.firewalld, l)}
    BY <1>0 DEF FactNames
  <2> QED
    BY <2>1 DEF Failed, Cut, HostFacts
<1>4. e.nft.empty = h.nft.empty
  <2>1. e.nft \in {h.nft, Failed(h.nft), Cut("nft", h.nft, l)}
    BY <1>0 DEF FactNames
  <2> QED
    BY <2>1, Zenon DEF Failed, Cut, HostFacts
<1>5. e.backend.target = h.backend.target
  <2>1. e.backend \in {h.backend, Failed(h.backend), Cut("backend", h.backend, l)}
    BY <1>0 DEF FactNames
  <2> QED
    BY <2>1 DEF Failed, Cut, HostFacts
<1>6. e.sockets.items \subseteq h.sockets.items /\ (~e.sockets.cut => e.sockets.items = h.sockets.items)
  <2> DEFINE f == e.sockets
             g == h.sockets
  <2>1. f \in {g, Failed(g), Cut("sockets", g, l)}
    BY <1>0 DEF FactNames
  <2>2. g = [why |-> g.why, cut |-> g.cut, items |-> g.items]
    BY DEF HostFacts, Record
  <2>3. CASE f \in {g, Failed(g)}
    <3>1. f.items = g.items
      BY <2>2, <2>3 DEF Failed
    <3> QED
      BY <3>1
  <2>4. CASE f = Cut("sockets", g, l)
    <3>1. f.items = g.items \ l.lost /\ f.cut = TRUE
      BY <2>2, <2>4 DEF Cut
    <3> QED
      BY <3>1
  <2> QED
    BY <2>1, <2>3, <2>4
<1>7. e.status.items \subseteq h.status.items /\ (~e.status.cut => e.status.items = h.status.items)
  <2> DEFINE f == e.status
             g == h.status
  <2>1. f \in {g, Failed(g), Cut("status", g, l)}
    BY <1>0 DEF FactNames
  <2>2. g = [why |-> g.why, cut |-> g.cut, items |-> g.items]
    BY DEF HostFacts, Record
  <2>3. CASE f \in {g, Failed(g)}
    <3>1. f.items = g.items
      BY <2>2, <2>3 DEF Failed
    <3> QED
      BY <3>1
  <2>4. CASE f = Cut("status", g, l)
    <3>1. f.items = g.items \ l.lost /\ f.cut = TRUE
      BY <2>2, <2>4 DEF Cut
    <3> QED
      BY <3>1
  <2> QED
    BY <2>1, <2>3, <2>4
<1>8. /\ e.passwd.items \in Seq(PasswdLines) /\ Len(e.passwd.items) <= Len(h.passwd.items)
      /\ \A i \in 1..Len(e.passwd.items) :
            /\ e.passwd.items[i].name = h.passwd.items[i].name
            /\ (e.passwd.cut /\ i = Len(e.passwd.items)) \/ e.passwd.items[i] = h.passwd.items[i]
  <2> DEFINE s == h.passwd.items
  <2>1. e.passwd \in {h.passwd, Failed(h.passwd), Cut("passwd", h.passwd, l)}
    BY <1>0 DEF FactNames
  <2>2. h.passwd \in [why : {"", "missing"}, cut : {FALSE}, items : Seq(PasswdLines)] /\ s \in Seq(PasswdLines)
    BY DEF HostFacts, PasswdLines
  <2>3. CASE e.passwd = Cut("passwd", h.passwd, l)
    <3> DEFINE u == LastMisread(s, l.keep)
    <3>1. e.passwd.items = u /\ e.passwd.cut = TRUE
      BY <2>3, <2>2 DEF Cut, LastMisread
    <3>2. /\ u \in Seq(PasswdLines) /\ Len(u) <= Len(s)
          /\ \A i \in 1..Len(u) : u[i].name = s[i].name /\ (i = Len(u) \/ u[i] = s[i])
      BY <2>2, MisreadIs
    <3> HIDE DEF u
    <3> QED
      BY <3>1, <3>2, Zenon
  <2>4. CASE e.passwd \in {h.passwd, Failed(h.passwd)}
    <3>1. e.passwd.items = s
      BY <2>4, <2>2 DEF Failed
    <3>2. s \in Seq(PasswdLines) /\ Len(s) \in Nat
      BY <2>2, LenOf
    <3> HIDE DEF s
    <3> QED
      BY <3>1, <3>2 DEF s
  <2> QED
    BY <2>1, <2>3, <2>4
<1>9. e.posture.shape = h.posture.shape /\ e.posture.values \in Seq({"match", "other", "odd", "marked"})
      /\ Begins(e.posture.values, h.posture.values) /\ (~e.posture.cut => e.posture.values = h.posture.values)
  <2> DEFINE V == {"match", "other", "odd", "marked"}
  <2>1. e.posture \in {h.posture, Failed(h.posture), Cut("posture", h.posture, l)}
    BY <1>0 DEF FactNames
  <2>2. h.posture \in [why : {"", "missing"}, cut : {FALSE}, shape : STRING, values : Seq(V)]
    BY DEF HostFacts
  <2>3. Begins(h.posture.values, h.posture.values)
    BY DEF Begins
  <2>4. Beginning(h.posture.values, l.keep) \in Seq(V) /\ Begins(Beginning(h.posture.values, l.keep), h.posture.values)
    BY <2>2, BeginningIs
  <2> HIDE DEF V
  <2> QED
    BY <2>1, <2>2, <2>3, <2>4 DEF Failed, Cut, V
<1> QED
  BY <1>1, <1>2, <1>3, <1>4, <1>5, <1>6, <1>7, <1>8, <1>9 DEF PartOfHost, e

\* What the walk of ufw may answer.
LEMMA WalkRange ==
    ASSUME NEW u, NEW port, NEW v6, u.rules \in Seq(UfwRules)
    PROVE  WalkUFW(u, port, v6) \in {"open", "filtered", "unknown"}
<1> DEFINE S == Deciding(u, port, v6)
<1>1. S \in SUBSET Nat
  BY LenOf DEF Deciding
<1>2. FirstOf(S) # 0 => FirstOf(S) \in S
  BY <1>1, MinIs DEF FirstOf
<1>3. FirstOf(S) # 0 => RuleAnswer(u.rules[FirstOf(S)]) \in {"open", "filtered", "unknown"}
  <2>1. FirstOf(S) # 0 => RuleAnswer(u.rules[FirstOf(S)]) # "pass"
    BY <1>2 DEF Deciding
  <2>2. \A r : RuleAnswer(r) \in {"open", "filtered", "unknown", "pass"}
    BY DEF RuleAnswer
  <2> HIDE DEF S
  <2> QED
    BY <2>1, <2>2
<1> HIDE DEF S
<1>4. WalkAnswer(u, v6, FirstOf(S)) \in {"open", "filtered", "unknown"}
  BY <1>3 DEF WalkAnswer
<1> QED
  BY <1>4, WalkIs DEF S

\* What a firewall read in part says of a port, the whole reading says too, or
\* leaves open.
LEMMA OpenPart ==
    ASSUME NEW h \in HostFacts, NEW e, PartOfHost(e, h), NEW port, NEW v6
    PROVE  /\ OpenTo(h, port, v6) \in {"open", "filtered", "unknown"}
           /\ OpenTo(e, port, v6) \in {"open", "filtered", "unknown"}
           /\ OpenTo(e, port, v6) = "open" => OpenTo(h, port, v6) # "filtered"
           /\ OpenTo(e, port, v6) = "filtered" => OpenTo(h, port, v6) = "filtered"
<1>1. /\ e.ufw.rules \in Seq(UfwRules) /\ h.ufw.rules \in Seq(UfwRules)
      /\ h.ufw.cut = FALSE /\ h.ufw.why \in {"", "missing"}
  BY DEF PartOfHost, HostFacts
<1>2. Settled(e.ufw, h.ufw) /\ Settled(e.firewalld, h.firewalld) /\ Settled(e.nft, h.nft) /\ Settled(e.backend, h.backend)
  BY DEF PartOfHost, FactNames
<1>3. WalkUFW(e.ufw, port, v6) \in {"unknown", WalkUFW(h.ufw, port, v6)}
  BY <1>1, <1>2, WalkPart DEF PartOfHost, Settled
<1>4. WalkUFW(e.ufw, port, v6) \in {"open", "filtered", "unknown"} /\ WalkUFW(h.ufw, port, v6) \in {"open", "filtered", "unknown"}
  BY <1>1, WalkRange
<1>5. UfwActive(e) => UfwActive(h)
  BY <1>1, <1>2 DEF UfwActive, Settled, PartOfHost
<1>6. UfwOff(e) => ~UfwActive(h)
  BY <1>1, <1>2 DEF UfwActive, UfwOff, Settled, PartOfHost
<1>7. NoFirewall(e) => ~UfwActive(h)
  BY <1>6 DEF NoFirewall
<1> QED
  BY <1>3, <1>4, <1>5, <1>7 DEF OpenTo

SameSockets(e, h) == e.sockets.why = "" /\ h.sockets.why = "" /\ e.sockets.items = h.sockets.items /\ e.sockets.cut = h.sockets.cut

\* The sockets of a part are among those of the whole.
LEMMA SocketsPart ==
    ASSUME NEW h \in HostFacts, NEW e, PartOfHost(e, h), e.sockets.why = ""
    PROVE  /\ h.sockets.why = ""
           /\ Sockets(e) \subseteq Sockets(h) /\ \A p : Beyond(e, p) \subseteq Beyond(h, p)
           /\ ~e.sockets.cut => SameSockets(e, h)
<1>1. Settled(e.sockets, h.sockets) /\ e.sockets.items \subseteq h.sockets.items
  BY DEF PartOfHost, FactNames
<1>2. h.sockets.why = ""
  BY <1>1 DEF Settled
<1>3. Sockets(e) \subseteq Sockets(h)
  BY <1>1 DEF Sockets
<1>4. ~e.sockets.cut => e.sockets = h.sockets
  BY <1>1 DEF Settled
<1> QED
  BY <1>2, <1>3, <1>4 DEF Beyond, SameSockets

\* Over the same sockets every question about sockets has the same answer.
LEMMA SocketsSame ==
    ASSUME NEW h, NEW e, SameSockets(e, h)
    PROVE  /\ Sockets(e) = Sockets(h) /\ Ports(e) = Ports(h) /\ (PortsRead(e) <=> PortsRead(h))
           /\ \A p : Beyond(e, p) = Beyond(h, p)
           /\ \A l : V4(l, e) <=> V4(l, h)
           /\ \A p : DbOwns(e, p) <=> DbOwns(h, p)
<1>1. Sockets(e) = Sockets(h)
  BY DEF SameSockets, Sockets
<1>2. \A p : Beyond(e, p) = Beyond(h, p)
  BY <1>1 DEF Beyond
<1>3. \A l : V4(l, e) <=> V4(l, h)
  BY DEF SameSockets, V4
<1>4. PortsRead(e) <=> PortsRead(h)
  BY DEF SameSockets, PortsRead
<1>5. Ports(e) = Ports(h)
  BY <1>1 DEF Ports
<1>6. \A p : DbOwns(e, p) <=> DbOwns(h, p)
  BY <1>2 DEF DbOwns
<1> QED
  BY <1>1, <1>2, <1>3, <1>4, <1>5, <1>6

\* The families some listeners reach, and what is said of them.
Family(e, port, v6, reach) == IF reach THEN OpenTo(e, port, v6) ELSE "none"
\* What the reading of the firewall says of some listeners, by family.
LEMMA ReachIs ==
    ASSUME NEW e, NEW port, NEW ls
    PROVE  LET v4 == Family(e, port, FALSE, \E l \in ls : V4(l, e))
               v6 == Family(e, port, TRUE, \E l \in ls : V6(l))
               r == Reach(e, port, ls)
           IN  /\ r.open <=> "open" \in {v4, v6}
               /\ r.unknown <=> "unknown" \in {v4, v6} \/ ("open" \notin {v4, v6} /\ \E l \in ls : ~Recognized(l))
               /\ r.v4 <=> v4 = "open"
               /\ r.v6 <=> v6 = "open"
BY DEF Reach, Reached, Family

\* Listeners that reach at least what they were seen to: open stays open or
\* becomes unknown.
LEMMA ReachMore ==
    ASSUME NEW h \in HostFacts, NEW e, PartOfHost(e, h), NEW port, NEW ls, NEW ms,
           (\E l \in ls : V4(l, e)) => \E l \in ms : V4(l, h),
           (\E l \in ls : V6(l)) => \E l \in ms : V6(l),
           Reach(e, port, ls).open
    PROVE  Reach(h, port, ms).open \/ Reach(h, port, ms).unknown
<1> DEFINE v4 == Family(e, port, FALSE, \E l \in ls : V4(l, e))
           v6 == Family(e, port, TRUE, \E l \in ls : V6(l))
           w4 == Family(h, port, FALSE, \E l \in ms : V4(l, h))
           w6 == Family(h, port, TRUE, \E l \in ms : V6(l))
<1>1. "open" \in {v4, v6}
  <2>1. Reach(e, port, ls).open <=> "open" \in {v4, v6}
    BY DEF Reach, Reached, Family
  <2> QED
    BY <2>1
<1>2. v4 = "open" => w4 \in {"open", "unknown"}
  BY OpenPart DEF Family
<1>3. v6 = "open" => w6 \in {"open", "unknown"}
  BY OpenPart DEF Family
<1>4. w4 \in {"open", "unknown"} \/ w6 \in {"open", "unknown"}
  BY <1>1, <1>2, <1>3
<1> HIDE DEF w4, w6
<1>5. "open" \in {w4, w6} \/ "unknown" \in {w4, w6}
  BY <1>4
<1> QED
  BY <1>5, ReachIs DEF w4, w6

\* The same listeners, found filtered in every family on a part, are on the whole.
LEMMA ReachFiltered ==
    ASSUME NEW h \in HostFacts, NEW e, PartOfHost(e, h), SameSockets(e, h), NEW port, NEW ls,
           ~Reach(e, port, ls).open, ~Reach(e, port, ls).unknown
    PROVE  ~Reach(h, port, ls).open /\ ~Reach(h, port, ls).unknown
<1> DEFINE v4 == Family(e, port, FALSE, \E l \in ls : V4(l, e))
           v6 == Family(e, port, TRUE, \E l \in ls : V6(l))
           w4 == Family(h, port, FALSE, \E l \in ls : V4(l, h))
           w6 == Family(h, port, TRUE, \E l \in ls : V6(l))
<1>1. "open" \notin {v4, v6} /\ "unknown" \notin {v4, v6} /\ ~\E l \in ls : ~Recognized(l)
  BY ReachIs
<1>2. (\E l \in ls : V4(l, e)) <=> \E l \in ls : V4(l, h)
  BY SocketsSame
<1>3. v4 = w4
  <2>1. CASE \E l \in ls : V4(l, e)
    <3>1. v4 = OpenTo(e, port, FALSE) /\ w4 = OpenTo(h, port, FALSE)
      BY <1>2, <2>1 DEF Family
    <3>2. OpenTo(e, port, FALSE) \in {"open", "filtered", "unknown"}
          /\ (OpenTo(e, port, FALSE) = "filtered" => OpenTo(h, port, FALSE) = "filtered")
      BY OpenPart
    <3> HIDE DEF v4, v6, w4, w6
    <3> QED
      BY <3>1, <3>2, <1>1
  <2>2. CASE ~\E l \in ls : V4(l, e)
    BY <1>2, <2>2 DEF Family
  <2> QED
    BY <2>1, <2>2
<1>4. v6 = w6
  <2>1. CASE \E l \in ls : V6(l)
    <3>1. v6 = OpenTo(e, port, TRUE) /\ w6 = OpenTo(h, port, TRUE)
      BY <2>1 DEF Family
    <3>2. OpenTo(e, port, TRUE) \in {"open", "filtered", "unknown"}
          /\ (OpenTo(e, port, TRUE) = "filtered" => OpenTo(h, port, TRUE) = "filtered")
      BY OpenPart
    <3> HIDE DEF v4, v6, w4, w6
    <3> QED
      BY <3>1, <3>2, <1>1
  <2>2. CASE ~\E l \in ls : V6(l)
    BY <2>2 DEF Family
  <2> QED
    BY <2>1, <2>2
<1>5. "open" \notin {w4, w6} /\ "unknown" \notin {w4, w6}
  BY <1>1, <1>3, <1>4
<1> HIDE DEF w4, w6
<1> QED
  BY <1>1, <1>5, ReachIs DEF w4, w6

Dbs(e, port) == {l \in Beyond(e, port) : Database(l)}
DbDoubt(e, port) == \E l \in Beyond(e, port) : ~Database(l) /\ MayHide(l)

\* The answers on one port, by what they rest on.
LEMMA DbCases ==
    ASSUME NEW none \in BOOLEAN, NEW o \in BOOLEAN, NEW u \in BOOLEAN, NEW d \in BOOLEAN, NEW v,
           v = IF none THEN (IF d THEN "abstained" ELSE "none")
               ELSE IF o THEN "fired" ELSE IF u \/ d THEN "abstained" ELSE "disproved"
    PROVE  /\ v = "fired" <=> ~none /\ o
           /\ v = "none" <=> none /\ ~d
           /\ v = "disproved" <=> ~none /\ ~o /\ ~u /\ ~d
OBVIOUS

\* What the rule on databases says of one port.
LEMMA DbVerdict ==
    ASSUME NEW e, NEW port
    PROVE  LET v == DbSubject(e, port)
               r == Reach(e, port, Dbs(e, port))
           IN  /\ v = "fired" <=> Dbs(e, port) # {} /\ r.open
               /\ v = "none" <=> Dbs(e, port) = {} /\ ~DbDoubt(e, port)
               /\ v = "disproved" <=> Dbs(e, port) # {} /\ ~r.open /\ ~r.unknown /\ ~DbDoubt(e, port)
<1> DEFINE r == Reach(e, port, Dbs(e, port))
           none == Dbs(e, port) = {}
           d == DbDoubt(e, port)
           v == DbSubject(e, port)
<1>1. v = IF none THEN (IF d THEN "abstained" ELSE "none")
            ELSE IF r.open THEN "fired" ELSE IF r.unknown \/ d THEN "abstained" ELSE "disproved"
  BY DEF DbSubject, Dbs, DbDoubt, DbReached
<1>2. r.open \in BOOLEAN /\ r.unknown \in BOOLEAN
  BY DEF Reach, Reached
<1>3. none \in BOOLEAN /\ d \in BOOLEAN
  BY DEF DbDoubt
<1> HIDE DEF r, none, d, v
<1>4. /\ v = "fired" <=> ~none /\ r.open
      /\ v = "none" <=> none /\ ~d
      /\ v = "disproved" <=> ~none /\ ~r.open /\ ~r.unknown /\ ~d
  BY <1>1, <1>2, <1>3, DbCases
<1> QED
  BY <1>4 DEF r, none, d, v

TwinOf(e, h, port) == \E l \in Beyond(e, port) : Database(l) /\ V4(l, e) /\ ~V4(l, h)

\* A database found open on a part is not found closed on the whole.
LEMMA DbFired ==
    ASSUME NEW h \in HostFacts, NEW e, PartOfHost(e, h), e.sockets.why = "", NEW port,
           DbSubject(e, port) = "fired", ~TwinOf(e, h, port)
    PROVE  DbSubject(h, port) \notin {"disproved", "none"}
<1>1. Dbs(e, port) # {} /\ Reach(e, port, Dbs(e, port)).open
  BY DbVerdict
<1>2. Dbs(e, port) \subseteq Dbs(h, port)
  BY SocketsPart DEF Dbs
<1>3. (\E l \in Dbs(e, port) : V4(l, e)) => \E l \in Dbs(h, port) : V4(l, h)
  BY <1>2 DEF TwinOf, Dbs
<1>4. (\E l \in Dbs(e, port) : V6(l)) => \E l \in Dbs(h, port) : V6(l)
  BY <1>2
<1>5. Reach(h, port, Dbs(h, port)).open \/ Reach(h, port, Dbs(h, port)).unknown
  BY <1>1, <1>3, <1>4, ReachMore
<1>6. Dbs(h, port) # {}
  BY <1>1, <1>2
<1> QED
  BY <1>5, <1>6, DbVerdict

\* Over all the sockets, a database's port that is filtered is, and a port
\* that is no database's is none.
LEMMA DbSame ==
    ASSUME NEW h \in HostFacts, NEW e, PartOfHost(e, h), SameSockets(e, h), NEW port
    PROVE  /\ DbSubject(e, port) = "disproved" => DbSubject(h, port) = "disproved"
           /\ DbSubject(e, port) = "none" => DbSubject(h, port) = "none"
<1>1. Dbs(e, port) = Dbs(h, port) /\ (DbDoubt(e, port) <=> DbDoubt(h, port))
  BY SocketsSame DEF Dbs, DbDoubt
<1>2. CASE DbSubject(e, port) = "disproved"
  <2>1. Dbs(e, port) # {} /\ ~Reach(e, port, Dbs(e, port)).open /\ ~Reach(e, port, Dbs(e, port)).unknown /\ ~DbDoubt(e, port)
    BY <1>2, DbVerdict
  <2>2. ~Reach(h, port, Dbs(h, port)).open /\ ~Reach(h, port, Dbs(h, port)).unknown
    BY <1>1, <2>1, ReachFiltered
  <2> QED
    BY <1>1, <1>2, <2>1, <2>2, DbVerdict
<1>3. CASE DbSubject(e, port) = "none"
  BY <1>1, <1>3, DbVerdict
<1> QED
  BY <1>2, <1>3

\* A port that was read is a number.
LEMMA PortsPositive == ASSUME NEW e, NEW p \in Ports(e) PROVE p # 0
<1>1. PICK l \in Sockets(e) : p = l.port
  BY DEF Ports
<1> QED
  BY <1>1 DEF Sockets

\* A port a verdict is on is one of the sockets'.
LEMMA DbSeen ==
    ASSUME NEW e, NEW p, DbSubject(e, p) # "none" PROVE p \in Ports(e)
<1>1. Dbs(e, p) # {} \/ DbDoubt(e, p)
  BY DbVerdict
<1> QED
  BY <1>1 DEF Dbs, DbDoubt, Beyond, Ports

\* What the rule on databases says, of a port or of the host.
LEMMA DbJudged ==
    ASSUME NEW e, NEW j \in DbRule(e)
    PROVE  /\ j.id = "db"
           /\ j.verdict = "fired" => e.sockets.why = "" /\ DbSubject(e, j.of) = "fired"
           /\ j.verdict = "disproved" =>
                 /\ e.sockets.why = "" /\ ~e.sockets.cut
                 /\ \/ j.of \in Ports(e) /\ DbSubject(e, j.of) = "disproved"
                    \/ j.of = 0 /\ \A p \in Ports(e) : DbSubject(e, p) = "none"
<1> DEFINE subjects == Filed({Ruled("db", p, DbSubject(e, p)) : p \in Ports(e)})
           asked == IF \E l \in Sockets(e) : Database(l) /\ ~Loopback(l) THEN AskedOfFirewall(e) ELSE {}
<1>1. CASE e.sockets.why # ""
  <2>1. j = Ruled("db", 0, "abstained")
    BY <1>1 DEF DbRule
  <2> QED
    BY <2>1 DEF Ruled
<1>2. CASE e.sockets.why = ""
  <2>1. j \in Withdraw(e, {"sockets"} \cup asked, DbHost(e, subjects))
    BY <1>2 DEF DbRule
  <2> HIDE DEF asked
  <2>2. PICK i \in DbHost(e, subjects) :
           j = IF i.verdict = "disproved" /\ \E c \in {"sockets"} \cup asked : e[c].cut THEN [i EXCEPT !.verdict = "abstained"] ELSE i
    BY <2>1, Zenon DEF Withdraw
  <2>3. i \in subjects \/ (i = Ruled("db", 0, "abstained")) \/ (i = Ruled("db", 0, "disproved") /\ subjects = {})
    BY <2>2 DEF DbHost
  <2>4. i \in subjects => \E p \in Ports(e) : i = Ruled("db", p, DbSubject(e, p)) /\ i.verdict # "none"
    BY DEF Filed
  <2>5. subjects = {} => \A p \in Ports(e) : DbSubject(e, p) = "none"
    <3> SUFFICES ASSUME subjects = {}, NEW p \in Ports(e) PROVE DbSubject(e, p) = "none"
      OBVIOUS
    <3>1. Ruled("db", p, DbSubject(e, p)).verdict = DbSubject(e, p)
      BY DEF Ruled
    <3>2. Ruled("db", p, DbSubject(e, p)) \notin subjects
      OBVIOUS
    <3> QED
      BY <3>1, <3>2 DEF Filed
  <2> HIDE DEF subjects
  <2>6. i = [id |-> "db", of |-> i.of, verdict |-> i.verdict]
    BY <2>3, <2>4 DEF Ruled
  <2>7. j.id = "db" /\ j.of = i.of /\ (j.verdict = i.verdict \/ j.verdict = "abstained")
    BY <2>2, <2>6
  <2>8. j.verdict = "disproved" => i.verdict = "disproved" /\ ~e["sockets"].cut
    BY <2>2, <2>6
  <2>9. j.verdict = "fired" => i.verdict = "fired"
    BY <2>7
  <2>10. i.verdict = "fired" => DbSubject(e, i.of) = "fired"
    BY <2>3, <2>4 DEF Ruled
  <2>11. i.verdict = "disproved" =>
            \/ i.of \in Ports(e) /\ DbSubject(e, i.of) = "disproved"
            \/ i.of = 0 /\ \A p \in Ports(e) : DbSubject(e, p) = "none"
    BY <2>3, <2>4, <2>5 DEF Ruled
  <2> QED
    BY <1>2, <2>7, <2>8, <2>9, <2>10, <2>11
<1> QED
  BY <1>1, <1>2

\* The answers on one declared service, by what they rest on.
LEMMA ServiceCases ==
    ASSUME NEW nothing \in BOOLEAN, NEW container \in BOOLEAN, NEW o \in BOOLEAN, NEW u \in BOOLEAN,
           NEW lan \in BOOLEAN, NEW private \in BOOLEAN, NEW v,
           v = IF nothing THEN "disproved"
               ELSE IF container THEN "abstained"
               ELSE IF ~o THEN (IF u THEN "abstained" ELSE "disproved")
               ELSE IF lan THEN "abstained"
               ELSE IF private THEN "abstained"
               ELSE "fired"
    PROVE  /\ v = "fired" => ~nothing /\ o
           /\ v = "disproved" <=> nothing \/ (~container /\ ~o /\ ~u)
           /\ v # "none"
OBVIOUS

\* What is said of a declared service that listens.
LEMMA JudgedService ==
    ASSUME NEW e, NEW port
    PROVE  LET v == JudgeService(e, port)
               out == Beyond(e, port)
               r == Reach(e, port, out)
           IN  /\ v = "fired" => out # {} /\ r.open
               /\ v = "disproved" <=> out = {} \/ ((~\E l \in out : ContainerOwner(l)) /\ ~r.open /\ ~r.unknown)
               /\ v # "none"
<1> DEFINE v == JudgeService(e, port)
           out == Beyond(e, port)
           r == Reach(e, port, out)
           nothing == out = {}
           container == \E l \in out : ContainerOwner(l)
           open == InOpen(e, r, out)
           lan == Services[port] # "localhost" /\ Exposure # "internet"
           private == Services[port] # "localhost" /\ open # {} /\ ~\E l \in open : Wildcard(l) \/ Global(l)
<1>1. v = IF nothing THEN "disproved"
          ELSE IF container THEN "abstained"
          ELSE IF ~r.open THEN (IF r.unknown THEN "abstained" ELSE "disproved")
          ELSE IF lan THEN "abstained"
          ELSE IF private THEN "abstained"
          ELSE "fired"
  BY Zenon DEF JudgeService, ServiceReached
<1>2. r.open \in BOOLEAN /\ r.unknown \in BOOLEAN
  BY DEF Reach, Reached
<1>3. nothing \in BOOLEAN /\ container \in BOOLEAN /\ lan \in BOOLEAN /\ private \in BOOLEAN
  OBVIOUS
<1> HIDE DEF v, r, nothing, container, lan, private
<1>4. /\ v = "fired" => ~nothing /\ r.open
      /\ v = "disproved" <=> nothing \/ (~container /\ ~r.open /\ ~r.unknown)
      /\ v # "none"
  BY <1>1, <1>2, <1>3, ServiceCases
<1> QED
  BY <1>4 DEF v, r, nothing, container

\* What the rule on declared services says of one port.
LEMMA ServiceVerdictIs ==
    ASSUME NEW e, NEW port
    PROVE  LET v == ServiceVerdict(e, port)
               out == Beyond(e, port)
               seen == \E l \in Sockets(e) : l.port = port
               lost == e.sockets.why # "" \/ (~PortsRead(e) /\ out = {})
           IN  /\ v = "none" <=> ~lost /\ (~seen \/ DbOwns(e, port))
               /\ v = "fired" => ~lost /\ seen /\ ~DbOwns(e, port) /\ JudgeService(e, port) = "fired"
               /\ v = "disproved" <=> ~lost /\ seen /\ ~DbOwns(e, port) /\ JudgeService(e, port) = "disproved"
<1>1. JudgeService(e, port) # "none"
  BY JudgedService
<1> QED
  BY <1>1 DEF ServiceVerdict

\* A service found open on a part is not found within its audience on the
\* whole, unless its port is a database's.
LEMMA ServiceFired ==
    ASSUME NEW h \in HostFacts, NEW e, PartOfHost(e, h), NEW port,
           ServiceVerdict(e, port) = "fired", ~DbOwns(h, port)
    PROVE  ServiceVerdict(h, port) \notin {"disproved", "none"}
<1> DEFINE out == Beyond(e, port)
           all == Beyond(h, port)
<1>1. e.sockets.why = "" /\ JudgeService(e, port) = "fired"
  BY ServiceVerdictIs
<1>2. out # {} /\ Reach(e, port, out).open
  BY <1>1, JudgedService
<1>3. h.sockets.why = "" /\ out \subseteq all
  BY <1>1, SocketsPart
<1>4. (\E l \in out : V4(l, e)) => \E l \in all : V4(l, h)
  <2> SUFFICES ASSUME NEW l \in out, V4(l, e), ~V4(l, h)
               PROVE  \E o \in all : V4(o, h)
    BY <1>3
  <2>1. l.addr = "::" /\ \E o \in h.sockets.items : o.addr = "0.0.0.0" /\ o.port = l.port
    BY DEF V4
  <2>2. PICK o \in h.sockets.items : o.addr = "0.0.0.0" /\ o.port = l.port
    BY <2>1
  <2>3. l.port = port /\ l.port # 0
    BY DEF Beyond, Sockets
  <2>4. o \in all /\ V4(o, h)
    BY <2>2, <2>3 DEF Beyond, Sockets, Loopback, V4
  <2> QED
    BY <2>4
<1>5. (\E l \in out : V6(l)) => \E l \in all : V6(l)
  BY <1>3
<1>6. Reach(h, port, all).open \/ Reach(h, port, all).unknown
  BY <1>2, <1>4, <1>5, ReachMore
<1>7. all # {} /\ \E l \in Sockets(h) : l.port = port
  BY <1>2, <1>3 DEF Beyond
<1>8. JudgeService(h, port) # "disproved"
  BY <1>6, <1>7, JudgedService
<1> QED
  BY <1>3, <1>7, <1>8, ServiceVerdictIs

\* Over all the sockets, a service within its audience, or not seen, is.
LEMMA ServiceSame ==
    ASSUME NEW h \in HostFacts, NEW e, PartOfHost(e, h), SameSockets(e, h), NEW port
    PROVE  /\ ServiceVerdict(e, port) = "disproved" => ServiceVerdict(h, port) = "disproved"
           /\ ServiceVerdict(e, port) = "none" => ServiceVerdict(h, port) = "none"
<1> DEFINE out == Beyond(e, port)
<1>1. /\ out = Beyond(h, port) /\ Sockets(e) = Sockets(h) /\ (PortsRead(e) <=> PortsRead(h)) /\ (DbOwns(e, port) <=> DbOwns(h, port))
      /\ e.sockets.why = "" /\ h.sockets.why = ""
  BY SocketsSame DEF SameSockets
<1>2. JudgeService(e, port) = "disproved" => JudgeService(h, port) = "disproved"
  <2>1. ~Reach(e, port, out).open /\ ~Reach(e, port, out).unknown => ~Reach(h, port, out).open /\ ~Reach(h, port, out).unknown
    BY ReachFiltered
  <2> QED
    BY <1>1, <2>1, JudgedService
<1>3. ServiceVerdict(e, port) = "disproved" => ServiceVerdict(h, port) = "disproved"
  BY <1>1, <1>2, ServiceVerdictIs
<1>4. ServiceVerdict(e, port) = "none" => ServiceVerdict(h, port) = "none"
  BY <1>1, ServiceVerdictIs
<1> QED
  BY <1>3, <1>4

\* What the rule on declared services says, of a port or of the host.
LEMMA ServiceJudged ==
    ASSUME NEW e, NEW j \in ServiceRule(e)
    PROVE  /\ j.id = "svc"
           /\ j.verdict = "fired" => j.of \in JudgedPorts /\ ServiceVerdict(e, j.of) = "fired"
           /\ j.verdict = "disproved" =>
                 /\ e.sockets.why = "" /\ ~e.sockets.cut /\ JudgedPorts # {}
                 /\ \/ j.of \in JudgedPorts /\ ServiceVerdict(e, j.of) = "disproved"
                    \/ j.of = 0 /\ \A p \in JudgedPorts : ServiceVerdict(e, p) = "none"
<1> DEFINE asks == /\ e.sockets.why = ""
                   /\ \E p \in JudgedPorts : Beyond(e, p) # {} /\ ~DbOwns(e, p) /\ ~\E l \in Beyond(e, p) : ContainerOwner(l)
           asked == IF asks THEN AskedOfFirewall(e) ELSE {}
           subjects == Filed({Ruled("svc", p, ServiceVerdict(e, p)) : p \in JudgedPorts})
<1>1. CASE JudgedPorts = {}
  <2>1. j = Ruled("svc", 0, "abstained")
    BY <1>1 DEF ServiceRule
  <2> QED
    BY <2>1 DEF Ruled
<1>2. CASE JudgedPorts # {}
  <2>1. j \in Withdraw(e, {"sockets"} \cup asked, OrDisproved(subjects))
    BY <1>2 DEF ServiceRule
  <2> HIDE DEF asked
  <2>2. PICK i \in OrDisproved(subjects) :
           j = IF i.verdict = "disproved" /\ \E c \in {"sockets"} \cup asked : e[c].cut THEN [i EXCEPT !.verdict = "abstained"] ELSE i
    BY <2>1, Zenon DEF Withdraw
  <2>3. i \in subjects \/ (i = Ruled("svc", 0, "disproved") /\ subjects = {})
    BY <2>2 DEF OrDisproved
  <2>4. i \in subjects => \E p \in JudgedPorts : i = Ruled("svc", p, ServiceVerdict(e, p)) /\ i.verdict # "none"
    BY DEF Filed
  <2>5. subjects = {} => \A p \in JudgedPorts : ServiceVerdict(e, p) = "none"
    <3> SUFFICES ASSUME subjects = {}, NEW p \in JudgedPorts PROVE ServiceVerdict(e, p) = "none"
      OBVIOUS
    <3>1. Ruled("svc", p, ServiceVerdict(e, p)).verdict = ServiceVerdict(e, p)
      BY DEF Ruled
    <3>2. Ruled("svc", p, ServiceVerdict(e, p)) \notin subjects
      OBVIOUS
    <3> QED
      BY <3>1, <3>2 DEF Filed
  <2> HIDE DEF subjects
  <2>6. i = [id |-> "svc", of |-> i.of, verdict |-> i.verdict]
    BY <2>3, <2>4 DEF Ruled
  <2>7. j.id = "svc" /\ j.of = i.of /\ (j.verdict = i.verdict \/ j.verdict = "abstained")
    BY <2>2, <2>6
  <2>8. j.verdict = "disproved" => i.verdict = "disproved" /\ ~e["sockets"].cut
    BY <2>2, <2>6
  <2>9. j.verdict = "fired" => i.verdict = "fired"
    BY <2>7
  <2>10. i.verdict = "fired" => i.of \in JudgedPorts /\ ServiceVerdict(e, i.of) = "fired"
    BY <2>3, <2>4 DEF Ruled
  <2>11. i.verdict = "disproved" =>
            \/ i.of \in JudgedPorts /\ ServiceVerdict(e, i.of) = "disproved"
            \/ i.of = 0 /\ \A p \in JudgedPorts : ServiceVerdict(e, p) = "none"
    BY <2>3, <2>4, <2>5 DEF Ruled
  <2>12. \A p \in JudgedPorts : ServiceVerdict(e, p) \in {"disproved", "none"} => e.sockets.why = ""
    BY ServiceVerdictIs
  <2> QED
    BY <1>2, <2>7, <2>8, <2>9, <2>10, <2>11, <2>12
<1> QED
  BY <1>1, <1>2

\* The shell of an account on a part of /etc/passwd is its shell on the whole,
\* or is not known: the last line before a cut is not read.
LEMMA ShellPart ==
    ASSUME NEW h \in HostFacts, NEW e, PartOfHost(e, h), NEW name, ShellOf(e, name) \in {"login", "nologin"}
    PROVE  ShellOf(h, name) = ShellOf(e, name)
<1> DEFINE s == e.passwd.items
           t == h.passwd.items
           S == {i \in 1..Len(s) : s[i].name = name}
           T == {i \in 1..Len(t) : t[i].name = name}
<1>1. /\ s \in Seq(PasswdLines) /\ Len(s) <= Len(t)
      /\ \A i \in 1..Len(s) : s[i].name = t[i].name /\ ((e.passwd.cut /\ i = Len(s)) \/ s[i] = t[i])
  BY DEF PartOfHost
<1>2. t \in Seq(PasswdLines) /\ h.passwd.cut = FALSE
  BY DEF HostFacts, PasswdLines
<1>3. Settled(e.passwd, h.passwd)
  BY DEF PartOfHost, FactNames
<1>4. Len(s) \in Nat /\ Len(t) \in Nat
  BY <1>1, <1>2, LenOf
<1>5. ShellOf(e, name) = IF e.passwd.why # "" \/ FirstOf(S) = 0 \/ LineCut(e, FirstOf(S)) THEN "unknown" ELSE s[FirstOf(S)].shell
  BY DEF ShellOf, SelectInSeq, FirstOf
<1>6. ShellOf(h, name) = IF h.passwd.why # "" \/ FirstOf(T) = 0 \/ LineCut(h, FirstOf(T)) THEN "unknown" ELSE t[FirstOf(T)].shell
  BY DEF ShellOf, SelectInSeq, FirstOf
<1>7. e.passwd.why = "" /\ FirstOf(S) # 0 /\ ~LineCut(e, FirstOf(S)) /\ ShellOf(e, name) = s[FirstOf(S)].shell
  BY <1>5
<1>8. S \in SUBSET Nat /\ T \in SUBSET Nat /\ 0 \notin T /\ S = T \cap 1..Len(s)
  BY <1>1, <1>4
<1>9. FirstOf(S) = FirstOf(T) /\ FirstOf(S) \in S
  BY <1>4, <1>7, <1>8, FirstOfBeginning
<1>10. s[FirstOf(S)] = t[FirstOf(S)]
  BY <1>1, <1>7, <1>9 DEF LineCut
<1>11. h.passwd.why = "" /\ ~LineCut(h, FirstOf(T))
  BY <1>2, <1>3, <1>7 DEF Settled, LineCut
<1> QED
  BY <1>6, <1>7, <1>9, <1>10, <1>11

\* What is said of one account on a part is said of it on the whole.
LEMMA AccountPart ==
    ASSUME NEW h \in HostFacts, NEW e, PartOfHost(e, h), NEW a, AccountOutcome(e, a) # "abstained"
    PROVE  AccountOutcome(h, a) = AccountOutcome(e, a)
<1>1. ShellOf(e, a.name) \in {"login", "nologin"} => ShellOf(h, a.name) = ShellOf(e, a.name)
  BY ShellPart
<1> QED
  BY <1>1 DEF AccountOutcome

\* What the rule on accounts says, from what is said of each.
LEMMA AccountsIs ==
    ASSUME NEW e
    PROVE  /\ Accounts(e) = "fired" <=> e.status.why = "" /\ \E a \in e.status.items : AccountOutcome(e, a) = "fired"
           /\ Accounts(e) = "disproved" <=>
                 /\ e.status.why = "" /\ e.status.items # {} /\ ~e.status.cut
                 /\ \A a \in e.status.items : AccountOutcome(e, a) \notin {"fired", "abstained"}
<1> DEFINE found == \E a \in e.status.items : AccountOutcome(e, a) = "fired"
           open == \E a \in e.status.items : AccountOutcome(e, a) = "abstained"
           all == {AccountOutcome(e, a) : a \in e.status.items}
<1>1. ("fired" \in all <=> found) /\ ("abstained" \in all <=> open)
  OBVIOUS
<1>2. Accounts(e) = IF e.status.why # "" \/ e.status.items = {} THEN "abstained"
                    ELSE IF "fired" \in all THEN "fired"
                    ELSE IF e.status.cut \/ "abstained" \in all THEN "abstained"
                    ELSE "disproved"
  BY DEF Accounts
<1>3. found => e.status.items # {}
  OBVIOUS
<1> HIDE DEF all
<1> QED
  BY <1>1, <1>2, <1>3

\* The rule on accounts does not take back on the whole what it says on a part.
LEMMA AccountsPart ==
    ASSUME NEW h \in HostFacts, NEW e, PartOfHost(e, h)
    PROVE  /\ Accounts(e) = "fired" => Accounts(h) = "fired"
           /\ Accounts(e) = "disproved" => Accounts(h) = "disproved"
<1>1. /\ e.status.items \subseteq h.status.items /\ (~e.status.cut => e.status.items = h.status.items)
      /\ Settled(e.status, h.status) /\ h.status.cut = FALSE
  BY DEF PartOfHost, FactNames, HostFacts, Record
<1>2. e.status.why = "" => h.status.why = ""
  BY <1>1 DEF Settled
<1>3. CASE Accounts(e) = "fired"
  <2>1. e.status.why = "" /\ \E a \in e.status.items : AccountOutcome(e, a) = "fired"
    BY <1>3, AccountsIs
  <2>2. \E a \in h.status.items : AccountOutcome(h, a) = "fired"
    BY <1>1, <2>1, AccountPart
  <2>3. Accounts(h) = "fired"
    BY <1>2, <2>1, <2>2, AccountsIs
  <2> QED
    BY <1>3, <2>3
<1>4. CASE Accounts(e) = "disproved"
  <2>1. e.status.why = "" /\ e.status.items # {} /\ ~e.status.cut
        /\ \A a \in e.status.items : AccountOutcome(e, a) \notin {"fired", "abstained"}
    BY <1>4, AccountsIs
  <2>2. \A a \in h.status.items : AccountOutcome(h, a) \notin {"fired", "abstained"}
    BY <1>1, <2>1, AccountPart
  <2> QED
    BY <1>1, <1>2, <1>4, <2>1, <2>2, AccountsIs
<1> QED
  BY <1>3, <1>4, Zenon

\* What the rule on empty passwords says, from what it rests on.
LEMMA SshIs ==
    ASSUME NEW e
    PROVE  LET found == {a \in e.status.items : AccountOutcome(e, a) = "fired"}
               fired == {a \in found : ~RootHeld(e, a)}
               odd == e.sshd.root = "odd" \/ \E a \in e.status.items : AccountOutcome(e, a) = "abstained"
               v == EmptyPasswordRemote(e)
           IN  /\ v = "fired" => /\ e.status.why = "" /\ e.sshd.why = "" /\ ~e.sshd.cut /\ fired # {}
                                 /\ {"disproves", "unknown"} \cap Conditions(e) = {}
               /\ v = "disproved" =>
                     /\ e.status.why = ""
                     /\ \/ Accounts(e) = "disproved"
                        \/ /\ found # {} /\ e.sshd.why = "" /\ ~e.sshd.cut
                           /\ "disproves" \in Conditions(e) \/ (fired = {} /\ ~odd)
<1> DEFINE found == {a \in e.status.items : AccountOutcome(e, a) = "fired"}
           fired == {a \in found : ~RootHeld(e, a)}
           v == EmptyPasswordRemote(e)
           odd == e.sshd.root = "odd" \/ \E a \in e.status.items : AccountOutcome(e, a) = "abstained"
<1>1. v = IF e.status.why # "" THEN "abstained"
          ELSE IF Accounts(e) = "disproved" THEN "disproved"
          ELSE IF found = {} \/ e.sshd.why # "" \/ e.sshd.cut THEN "abstained"
          ELSE IF "disproves" \in Conditions(e) THEN "disproved"
          ELSE IF "unknown" \in Conditions(e) THEN "abstained"
          ELSE IF fired # {} THEN "fired"
          ELSE IF odd THEN "abstained"
          ELSE "disproved"
  BY Zenon DEF EmptyPasswordRemote
<1> HIDE DEF found, fired, v, odd
<1>2. /\ v = "fired" => /\ e.status.why = "" /\ e.sshd.why = "" /\ ~e.sshd.cut /\ fired # {}
                        /\ {"disproves", "unknown"} \cap Conditions(e) = {}
      /\ v = "disproved" =>
            /\ e.status.why = ""
            /\ \/ Accounts(e) = "disproved"
               \/ /\ found # {} /\ e.sshd.why = "" /\ ~e.sshd.cut
                  /\ "disproves" \in Conditions(e) \/ (fired = {} /\ ~odd)
  BY <1>1
<1> QED
  BY <1>2 DEF found, fired, v, odd

\* Where sshd is seen to listen, it listens; and over all the sockets, where it
\* is seen not to, it does not.
LEMMA SshListensPart ==
    ASSUME NEW h \in HostFacts, NEW e, PartOfHost(e, h), e.sshd = h.sshd
    PROVE  /\ SshListens(e) = "holds" => SshListens(h) = "holds"
           /\ SshListens(e) = "disproves" => ~e.sockets.cut /\ SshListens(h) = "disproves"
<1> DEFINE at(x) == \E l \in {s \in Sockets(x) : ~Loopback(s)} :
                        Recognized(l) /\ (l.owner = "sshd" \/ (l.port = x.sshd.port /\ l.owner \in {"systemd", ""}))
           other(x) == \E l \in {s \in Sockets(x) : ~Loopback(s)} : ~Recognized(l) \/ l.owner \in {"", "systemd"}
<1>1. \A x : SshListens(x) = IF x.sockets.why # "" THEN "unknown"
                             ELSE IF at(x) THEN "holds"
                             ELSE IF x.sockets.cut \/ ~PortsRead(x) \/ other(x) THEN "unknown"
                             ELSE "disproves"
  BY Zenon DEF SshListens
<1>2. e.sockets.why = "" /\ at(e) => at(h)
  BY SocketsPart
<1>3. e.sockets.why = "" => h.sockets.why = ""
  BY SocketsPart
<1>4. SameSockets(e, h) => (at(e) <=> at(h)) /\ (other(e) <=> other(h)) /\ (PortsRead(e) <=> PortsRead(h)) /\ e.sockets.cut = h.sockets.cut
  BY SocketsSame DEF SameSockets
<1>5. e.sockets.why = "" /\ ~e.sockets.cut => SameSockets(e, h)
  BY SocketsPart
<1> HIDE DEF at, other
<1>6. CASE SshListens(e) = "holds"
  <2>1. e.sockets.why = "" /\ at(e)
    BY <1>1, <1>6
  <2>2. SshListens(h) = "holds"
    BY <1>1, <1>2, <1>3, <2>1
  <2> QED
    BY <1>6, <2>2
<1>7. CASE SshListens(e) = "disproves"
  <2>1. e.sockets.why = "" /\ ~at(e) /\ ~e.sockets.cut /\ PortsRead(e) /\ ~other(e)
    BY <1>1, <1>7
  <2>2. SshListens(h) = "disproves"
    BY <1>1, <1>3, <1>4, <1>5, <2>1
  <2> QED
    BY <1>7, <2>1, <2>2
<1> QED
  BY <1>6, <1>7, Zenon

\* What the rule on empty passwords files, after the withdrawals.
LEMMA SshJudged ==
    ASSUME NEW e, NEW j \in SshRule(e)
    PROVE  /\ j.id = "ssh" /\ j.of = 0
           /\ j.verdict = "fired" => EmptyPasswordRemote(e) = "fired"
           /\ j.verdict = "disproved" => EmptyPasswordRemote(e) = "disproved" /\ ~e.status.cut
<1> DEFINE asked == {"status", "passwd"} \cup (IF Accounts(e) = "fired" THEN {"sshd"} ELSE {})
                       \cup (IF Accounts(e) = "fired" /\ e.sshd.why = "" /\ ~e.sshd.cut THEN {"sockets"} ELSE {})
           i == Ruled("ssh", 0, EmptyPasswordRemote(e))
<1>1. j \in Withdraw(e, asked, {i})
  BY DEF SshRule
<1>2. "status" \in asked
  OBVIOUS
<1> HIDE DEF asked
<1>3. j = IF i.verdict = "disproved" /\ \E c \in asked : e[c].cut THEN [i EXCEPT !.verdict = "abstained"] ELSE i
  <2>1. PICK k \in {i} : j = IF k.verdict = "disproved" /\ \E c \in asked : e[c].cut THEN [k EXCEPT !.verdict = "abstained"] ELSE k
    BY <1>1, Zenon DEF Withdraw
  <2> QED
    BY <2>1
<1>4. i = [id |-> "ssh", of |-> 0, verdict |-> EmptyPasswordRemote(e)]
  BY DEF Ruled
<1> HIDE DEF i
<1>5. j.id = "ssh" /\ j.of = 0 /\ (j.verdict = i.verdict \/ j.verdict = "abstained")
  BY <1>3, <1>4
<1>6. j.verdict = "disproved" => i.verdict = "disproved" /\ ~e["status"].cut
  BY <1>2, <1>3, <1>4
<1> QED
  BY <1>4, <1>5, <1>6

\* The rule on empty passwords does not take back on the whole what it says
\* on a part.
LEMMA SshPart ==
    ASSUME NEW h \in HostFacts, NEW e, PartOfHost(e, h)
    PROVE  /\ EmptyPasswordRemote(e) = "fired" => EmptyPasswordRemote(h) # "disproved"
           /\ EmptyPasswordRemote(e) = "disproved" /\ ~e.status.cut => EmptyPasswordRemote(h) # "fired"
<1> DEFINE found(x) == {a \in x.status.items : AccountOutcome(x, a) = "fired"}
           fired(x) == {a \in found(x) : ~RootHeld(x, a)}
<1>1. /\ e.status.items \subseteq h.status.items /\ (~e.status.cut => e.status.items = h.status.items)
      /\ Settled(e.status, h.status) /\ Settled(e.sshd, h.sshd) /\ h.status.cut = FALSE
  BY DEF PartOfHost, FactNames, HostFacts, Record
<1>2. e.sshd.why = "" /\ ~e.sshd.cut => e.sshd = h.sshd
  BY <1>1 DEF Settled
<1>3. found(e) \subseteq found(h)
  BY <1>1, AccountPart
<1>4. e.sshd = h.sshd => (\A a : RootHeld(e, a) <=> RootHeld(h, a))
  BY DEF RootHeld
<1>5. CASE EmptyPasswordRemote(e) = "fired"
  <2>1. /\ e.status.why = "" /\ e.sshd.why = "" /\ ~e.sshd.cut /\ fired(e) # {}
        /\ {"disproves", "unknown"} \cap Conditions(e) = {}
    BY <1>5, SshIs
  <2>2. e.sshd = h.sshd
    BY <1>2, <2>1
  <2>3. h.status.why = "" /\ fired(h) # {} /\ found(h) # {}
    BY <1>1, <1>3, <1>4, <2>1, <2>2 DEF Settled
  <2>4. Accounts(h) = "fired"
    BY <2>3, AccountsIs
  <2>5. SshListens(h) = SshListens(e)
    <3>1. SshListens(e) \in Conditions(e) /\ SshListens(e) \in {"holds", "disproves", "unknown"}
      BY DEF Conditions, SshListens
    <3>2. SshListens(e) = "holds"
      BY <2>1, <3>1
    <3> QED
      BY <2>2, <3>2, SshListensPart
  <2>6. Conditions(h) = Conditions(e)
    BY <2>2, <2>5 DEF Conditions
  <2>7. "disproves" \notin Conditions(h)
    BY <2>1, <2>6
  <2> HIDE DEF fired, found
  <2>8. EmptyPasswordRemote(h) # "disproved"
    <3> SUFFICES ASSUME EmptyPasswordRemote(h) = "disproved" PROVE FALSE
      OBVIOUS
    <3>1. \/ Accounts(h) = "disproved"
          \/ "disproves" \in Conditions(h) \/ fired(h) = {}
      BY SshIs DEF fired, found
    <3> QED
      BY <2>3, <2>4, <2>7, <3>1
  <2> QED
    BY <1>5, <2>8
<1>6. CASE EmptyPasswordRemote(e) = "disproved" /\ ~e.status.cut
  <2>1. CASE Accounts(e) = "disproved"
    <3>1. Accounts(h) = "disproved"
      BY <2>1, AccountsPart
    <3>2. EmptyPasswordRemote(h) # "fired"
      BY <3>1 DEF EmptyPasswordRemote
    <3> QED
      BY <1>6, <3>2
  <2>2. CASE Accounts(e) # "disproved"
    <3>1. /\ e.status.why = "" /\ found(e) # {} /\ e.sshd.why = "" /\ ~e.sshd.cut
          /\ \/ "disproves" \in Conditions(e)
             \/ fired(e) = {} /\ ~\E a \in e.status.items : AccountOutcome(e, a) = "abstained"
      BY <1>6, <2>2, SshIs
    <3>2. e.sshd = h.sshd
      BY <1>2, <3>1
    <3>3. CASE "disproves" \in Conditions(e)
      <4>1. "disproves" \in Conditions(h)
        BY <3>2, <3>3, SshListensPart DEF Conditions
      <4>2. EmptyPasswordRemote(h) # "fired"
        BY <4>1, SshIs
      <4> QED
        BY <1>6, <4>2
    <3>4. CASE fired(e) = {} /\ ~\E a \in e.status.items : AccountOutcome(e, a) = "abstained"
      <4>1. \A a \in e.status.items : AccountOutcome(h, a) = AccountOutcome(e, a)
        BY <3>4, AccountPart
      <4>2. found(h) = found(e)
        BY <1>1, <1>6, <4>1
      <4>3. fired(h) = {}
        BY <1>4, <3>2, <3>4, <4>2
      <4>4. EmptyPasswordRemote(h) # "fired"
        BY <4>3, SshIs
      <4> QED
        BY <1>6, <4>4
    <3> QED
      BY <3>1, <3>3, <3>4
  <2> QED
    BY <2>1, <2>2
<1> QED
  BY <1>5, <1>6, Zenon

PostureValues == {"match", "other", "odd", "marked"}
\* What a posture rule says of the beginning of a text, it says of the whole
\* text, or leaves open; a file's mode is one line.
LEMMA PredicatePart ==
    ASSUME NEW f, NEW g, f.values \in Seq(PostureValues), g.values \in Seq(PostureValues), Begins(f.values, g.values),
           f.shape = g.shape, OneMode(g), f.cut \in BOOLEAN, g.cut = FALSE, ~f.cut => f.values = g.values
    PROVE  Predicate(f) \in {"fired", "disproved"} => Predicate(g) = Predicate(f)
<1>1. Len(f.values) \in Nat /\ Len(g.values) \in Nat
  BY LenOf
<1>2. ToSet(f.values) \subseteq ToSet(g.values)
  BY <1>1 DEF ToSet, Begins
<1>3. CASE f.shape = "kv"
  <2>1. Predicate(f) = KeyEquals(f) /\ Predicate(g) = KeyEquals(g)
    BY <1>3 DEF Predicate
  <2>2. f.values # <<>> => g.values # <<>> /\ Head(g.values) = Head(f.values)
    BY <1>1 DEF Begins
  <2>3. KeyEquals(f) \in {"fired", "disproved"} => KeyEquals(g) = KeyEquals(f)
    BY <2>2 DEF KeyEquals
  <2> QED
    BY <2>1, <2>3
<1>4. CASE f.shape = "lines"
  <2>1. Predicate(f) = AnyLine(f) /\ Predicate(g) = AnyLine(g)
    BY <1>4 DEF Predicate
  <2>2. AnyLine(f) \in {"fired", "disproved"} => AnyLine(g) = AnyLine(f)
    BY <1>2 DEF AnyLine
  <2> QED
    BY <2>1, <2>2
<1>5. CASE f.shape = "records"
  <2>1. Predicate(f) = FieldEquals(f) /\ Predicate(g) = FieldEquals(g)
    BY <1>5 DEF Predicate
  <2>2. FieldEquals(f) \in {"fired", "disproved"} => FieldEquals(g) = FieldEquals(f)
    BY <1>2 DEF FieldEquals
  <2> QED
    BY <2>1, <2>2
<1>6. CASE f.shape = "any"
  <2>1. Predicate(f) = AnyRecord(f) /\ Predicate(g) = AnyRecord(g)
    BY <1>6 DEF Predicate
  <2>2. f.values # <<>> => g.values # <<>>
    BY <1>1 DEF Begins
  <2>3. AnyRecord(f) \in {"fired", "disproved"} => AnyRecord(g) = AnyRecord(f)
    BY <2>2 DEF AnyRecord
  <2> QED
    BY <2>1, <2>3
<1>7. CASE f.shape \notin {"kv", "lines", "records", "any"}
  <2>1. Predicate(f) = FieldOutside(f) /\ Predicate(g) = FieldOutside(g)
    BY <1>7 DEF Predicate
  <2>2. CASE f.values = <<>>
    <3>1. FieldOutside(f) = "abstained"
      BY <2>2 DEF FieldOutside
    <3> QED
      BY <2>1, <3>1
  <2>3. CASE f.values # <<>>
    <3>a. Len(g.values) <= 1
      BY <1>7 DEF OneMode
    <3>b. Len(f.values) # 0
      BY <2>3
    <3>c. Len(f.values) <= Len(g.values)
      BY DEF Begins
    <3>1. Len(f.values) = 1 /\ Len(g.values) = 1
      <4> DEFINE m == Len(f.values)
                 n == Len(g.values)
      <4>1. m \in Nat /\ n \in Nat /\ m # 0 /\ m <= n /\ n <= 1
        BY <1>1, <3>a, <3>b, <3>c
      <4> HIDE DEF m, n
      <4>2. m = 1 /\ n = 1
        BY <4>1
      <4> QED
        BY <4>2 DEF m, n
    <3>2. f.values = g.values
      BY <3>1 DEF Begins
    <3>3. FieldOutside(f) = FieldOutside(g)
      BY <3>2 DEF FieldOutside
    <3> QED
      BY <2>1, <3>3
  <2> QED
    BY <2>2, <2>3
<1> QED
  BY <1>3, <1>4, <1>5, <1>6, <1>7

\* A posture rule does not take back on the whole what it says on a part.
LEMMA PosturePart ==
    ASSUME NEW h \in HostFacts, OneMode(h.posture), NEW e, PartOfHost(e, h)
    PROVE  EvalRule(e.posture) \in {"fired", "disproved"} => EvalRule(h.posture) = EvalRule(e.posture)
<1>1. /\ Settled(e.posture, h.posture) /\ e.posture.shape = h.posture.shape
      /\ e.posture.values \in Seq(PostureValues) /\ Begins(e.posture.values, h.posture.values)
      /\ ~e.posture.cut => e.posture.values = h.posture.values
  BY DEF PartOfHost, FactNames, PostureValues
<1>2. h.posture.values \in Seq(PostureValues) /\ h.posture.cut = FALSE
  BY DEF HostFacts, PostureValues
<1>3. e.posture.cut \in BOOLEAN /\ (e.posture.why = "" => h.posture.why = "")
  BY <1>1 DEF Settled
<1>4. Predicate(e.posture) \in {"fired", "disproved"} => Predicate(h.posture) = Predicate(e.posture)
  BY <1>1, <1>2, <1>3, PredicatePart
<1> QED
  BY <1>3, <1>4 DEF EvalRule

\* Two verdicts of the rule on databases, on a part and on the whole.
LEMMA DbPart ==
    ASSUME NEW h \in HostFacts, NEW e, PartOfHost(e, h), NEW j \in DbRule(e), NEW k \in DbRule(h),
           j.of = k.of \/ 0 \in {j.of, k.of}
    PROVE  /\ ~(j.verdict = "disproved" /\ k.verdict = "fired")
           /\ j.verdict = "fired" /\ k.verdict = "disproved" => TwinOf(e, h, j.of)
<1>1. ASSUME j.verdict = "fired", k.verdict = "disproved", ~TwinOf(e, h, j.of)
      PROVE  FALSE
  <2>1. e.sockets.why = "" /\ DbSubject(e, j.of) = "fired"
    BY <1>1, DbJudged
  <2>2. DbSubject(h, j.of) \notin {"disproved", "none"}
    BY <1>1, <2>1, DbFired
  <2>3. j.of \in Ports(h) /\ j.of \in Ports(e)
    BY <2>1, <2>2, DbSeen
  <2>4. j.of # 0
    BY <2>3, PortsPositive
  <2>5. \/ k.of \in Ports(h) /\ DbSubject(h, k.of) = "disproved"
        \/ k.of = 0 /\ \A p \in Ports(h) : DbSubject(h, p) = "none"
    BY <1>1, DbJudged
  <2>6. CASE k.of = 0 /\ \A p \in Ports(h) : DbSubject(h, p) = "none"
    BY <2>2, <2>3, <2>6
  <2>7. CASE k.of \in Ports(h) /\ DbSubject(h, k.of) = "disproved"
    <3>1. k.of # 0
      BY <2>7, PortsPositive
    <3>2. k.of = j.of
      BY <2>4, <3>1
    <3> QED
      BY <2>2, <2>7, <3>2
  <2> QED
    BY <2>5, <2>6, <2>7
<1>2. ASSUME j.verdict = "disproved", k.verdict = "fired"
      PROVE  FALSE
  <2>1. DbSubject(h, k.of) = "fired"
    BY <1>2, DbJudged
  <2>2. k.of \in Ports(h) /\ k.of # 0
    BY <2>1, DbSeen, PortsPositive
  <2>3. e.sockets.why = "" /\ ~e.sockets.cut
        /\ \/ j.of \in Ports(e) /\ DbSubject(e, j.of) = "disproved"
           \/ j.of = 0 /\ \A p \in Ports(e) : DbSubject(e, p) = "none"
    BY <1>2, DbJudged
  <2>4. SameSockets(e, h)
    BY <2>3, SocketsPart
  <2>5. Ports(e) = Ports(h)
    BY <2>4, SocketsSame
  <2>6. DbSubject(e, k.of) \in {"disproved", "none"}
    BY <2>2, <2>3, <2>5, PortsPositive
  <2>7. DbSubject(h, k.of) \in {"disproved", "none"}
    BY <2>4, <2>6, DbSame
  <2> QED
    BY <2>1, <2>7
<1> QED
  BY <1>1, <1>2

\* Two verdicts of the rule on declared services; a port that on the whole is a
\* database's is left to the other rule.
LEMMA ServicePart ==
    ASSUME NEW h \in HostFacts, NEW e, PartOfHost(e, h), 0 \notin DOMAIN Services,
           NEW j \in ServiceRule(e), NEW k \in ServiceRule(h), j.of = k.of \/ 0 \in {j.of, k.of}, ~DbOwns(h, j.of)
    PROVE  /\ ~(j.verdict = "disproved" /\ k.verdict = "fired")
           /\ ~(j.verdict = "fired" /\ k.verdict = "disproved")
<1>0. 0 \notin JudgedPorts
  BY DEF JudgedPorts
<1>1. ASSUME j.verdict = "fired", k.verdict = "disproved"
      PROVE  FALSE
  <2>1. j.of \in JudgedPorts /\ ServiceVerdict(e, j.of) = "fired"
    BY <1>1, ServiceJudged
  <2>2. ServiceVerdict(h, j.of) \notin {"disproved", "none"}
    BY <2>1, ServiceFired
  <2>3. \/ k.of \in JudgedPorts /\ ServiceVerdict(h, k.of) = "disproved"
        \/ k.of = 0 /\ \A p \in JudgedPorts : ServiceVerdict(h, p) = "none"
    BY <1>1, ServiceJudged
  <2> QED
    BY <1>0, <2>1, <2>2, <2>3
<1>2. ASSUME j.verdict = "disproved", k.verdict = "fired"
      PROVE  FALSE
  <2>1. k.of \in JudgedPorts /\ ServiceVerdict(h, k.of) = "fired"
    BY <1>2, ServiceJudged
  <2>2. e.sockets.why = "" /\ ~e.sockets.cut
        /\ \/ j.of \in JudgedPorts /\ ServiceVerdict(e, j.of) = "disproved"
           \/ j.of = 0 /\ \A p \in JudgedPorts : ServiceVerdict(e, p) = "none"
    BY <1>2, ServiceJudged
  <2>3. SameSockets(e, h)
    BY <2>2, SocketsPart
  <2>4. ServiceVerdict(e, k.of) \in {"disproved", "none"}
    BY <1>0, <2>1, <2>2
  <2>5. ServiceVerdict(h, k.of) \in {"disproved", "none"}
    BY <2>3, <2>4, ServiceSame
  <2> QED
    BY <2>1, <2>5
<1> QED
  BY <1>1, <1>2

\* Which rule a verdict is of.
LEMMA VerdictOf ==
    ASSUME NEW e, NEW j \in HostVerdicts(e)
    PROVE  \/ j.id = "db" /\ j \in DbRule(e)
           \/ j.id = "svc" /\ j \in ServiceRule(e)
           \/ j.id = "ssh" /\ j \in SshRule(e)
           \/ j.id = "posture" /\ j.verdict = EvalRule(e.posture)
           \/ j.id = "accounts" /\ j.verdict = Accounts(e)
<1>1. j \in DbRule(e) \/ j \in ServiceRule(e) \/ j \in SshRule(e)
      \/ j = Ruled("posture", 0, EvalRule(e.posture)) \/ j = Ruled("accounts", 0, Accounts(e))
  BY Zenon DEF HostVerdicts
<1>2. j \in DbRule(e) => j.id = "db"
  BY DbJudged
<1>3. j \in ServiceRule(e) => j.id = "svc"
  BY ServiceJudged
<1>4. j \in SshRule(e) => j.id = "ssh"
  BY SshJudged
<1>5. j = Ruled("posture", 0, EvalRule(e.posture)) => j.id = "posture" /\ j.verdict = EvalRule(e.posture)
  BY DEF Ruled
<1>6. j = Ruled("accounts", 0, Accounts(e)) => j.id = "accounts" /\ j.verdict = Accounts(e)
  BY DEF Ruled
<1> QED
  BY <1>1, <1>2, <1>3, <1>4, <1>5, <1>6, Zenon

\* A part of a host's facts gives no verdict opposed to one on the whole, a
\* lost twin excepted.
LEMMA HostPart ==
    ASSUME NEW h \in HostFacts, OneMode(h.posture), NEW e, PartOfHost(e, h), 0 \notin DOMAIN Services,
           NEW j \in HostVerdicts(e), NEW k \in HostVerdicts(h), j.id = k.id, j.of = k.of \/ 0 \in {j.of, k.of},
           ~(j.id = "svc" /\ DbOwns(h, j.of))
    PROVE  /\ ~(j.verdict = "disproved" /\ k.verdict = "fired")
           /\ j.verdict = "fired" /\ k.verdict = "disproved" => j.id = "db" /\ TwinOf(e, h, j.of)
<1>1. CASE j.id = "db"
  <2>1. j \in DbRule(e) /\ k \in DbRule(h)
    BY <1>1, VerdictOf
  <2> QED
    BY <1>1, <2>1, DbPart
<1>2. CASE j.id = "svc"
  <2>1. j \in ServiceRule(e) /\ k \in ServiceRule(h)
    BY <1>2, VerdictOf
  <2>2. ~DbOwns(h, j.of)
    BY <1>2
  <2> QED
    BY <2>1, <2>2, ServicePart
<1>3. CASE j.id = "ssh"
  <2>1. j \in SshRule(e) /\ k \in SshRule(h)
    BY <1>3, VerdictOf
  <2>2. /\ j.verdict = "fired" => EmptyPasswordRemote(e) = "fired"
        /\ j.verdict = "disproved" => EmptyPasswordRemote(e) = "disproved" /\ ~e.status.cut
    BY <2>1, SshJudged
  <2>3. /\ k.verdict = "fired" => EmptyPasswordRemote(h) = "fired"
        /\ k.verdict = "disproved" => EmptyPasswordRemote(h) = "disproved"
    BY <2>1, SshJudged
  <2> QED
    BY <2>2, <2>3, SshPart
<1>4. CASE j.id = "posture"
  <2>1. j.verdict = EvalRule(e.posture) /\ k.verdict = EvalRule(h.posture)
    BY <1>4, VerdictOf
  <2> QED
    BY <2>1, PosturePart
<1>5. CASE j.id = "accounts"
  <2>1. j.verdict = Accounts(e) /\ k.verdict = Accounts(h)
    BY <1>5, VerdictOf
  <2> QED
    BY <2>1, AccountsPart
<1> QED
  BY <1>1, <1>2, <1>3, <1>4, <1>5, VerdictOf

\* The sheet holds captures of the host's facts.
SheetOfMachine ==
    machine \in Hosts /\ (sheet.read => \E l \in Captures : sheet.facts = Captured(machine, l))

\* A state whose sheet holds captures of the host is safe.
LEMMA SheetSafe == SheetOfMachine => HostLossSafe
<1> SUFFICES ASSUME SheetOfMachine, sheet.read, NEW j \in HostVerdicts(sheet.facts), NEW k \in HostVerdicts(machine), Opposed(j, k)
             PROVE  j.id = "db" /\ TwinLost(j.of)
  BY DEF HostLossSafe
<1> DEFINE e == sheet.facts
<1>1. PICK l \in Captures : e = Captured(machine, l)
  BY DEF SheetOfMachine
<1>2. machine \in HostFacts /\ OneMode(machine.posture) /\ l.keep \in Nat /\ 0 \notin DOMAIN Services
  BY HostAssumption DEF SheetOfMachine
<1>3. PartOfHost(e, machine)
  BY <1>1, <1>2, CapturedPart
<1>4. /\ j.id = k.id /\ (j.of = k.of \/ 0 \in {j.of, k.of}) /\ ~(j.id = "svc" /\ DbOwns(machine, j.of))
      /\ \/ j.verdict = "disproved" /\ k.verdict = "fired"
         \/ j.verdict = "fired" /\ k.verdict = "disproved"
  BY DEF Opposed
<1> HIDE DEF e
<1>5. /\ ~(j.verdict = "disproved" /\ k.verdict = "fired")
      /\ j.verdict = "fired" /\ k.verdict = "disproved" => j.id = "db" /\ TwinOf(e, machine, j.of)
  BY <1>2, <1>3, <1>4, HostPart DEF e
<1>6. TwinOf(e, machine, j.of) => TwinLost(j.of)
  BY DEF TwinOf, TwinLost, e
<1> QED
  BY <1>4, <1>5, <1>6

\* Whatever captures failed, were cut short or lost lines, no rule over a host
\* says the opposite of what the whole facts say, a lost twin excepted:
\* rules.go run and rule.go Eval, for every host, capture and declaration.
THEOREM HostAlwaysLossSafe == HostRulesSpec => []HostLossSafe
<1>1. HostRulesInit => SheetOfMachine
  BY DEF HostRulesInit, SheetOfMachine
<1>2. SheetOfMachine /\ [HostRulesNext]_hostRuleVars => SheetOfMachine'
  <2>1. CASE HostRulesNext
    BY <2>1 DEF HostRulesNext, SheetOfMachine
  <2>2. CASE UNCHANGED hostRuleVars
    BY <2>2 DEF hostRuleVars, SheetOfMachine
  <2> QED
    BY <2>1, <2>2
<1> QED
  BY <1>1, <1>2, SheetSafe, PTL DEF HostRulesSpec

-----------------------------------------------------------------------------
(* The severity table.  A chain is a recursion over its steps: what holds  *)
(* of its value is shown by the least step at which it would not.          *)
SeveritySpec == SeverityInit /\ [][GradeAll]_severityVars

Severities == 0..Top
Steps == [on : BOOLEAN, delta : Int, pastHigh : BOOLEAN]

LEMMA MoveHolds ==
    ASSUME NEW sev \in Severities, NEW delta \in Int, NEW pastHigh \in BOOLEAN, NEW ceiling \in Severities
    PROVE  /\ Move(sev, delta, pastHigh, ceiling) \in Severities
           /\ Move(sev, delta, pastHigh, ceiling) <= Higher(sev, ceiling)
           /\ Move(sev, delta, pastHigh, ceiling) > AtMostHigh => sev > AtMostHigh \/ pastHigh
BY DEF Severities, Move, Clamp, Higher, Top, AtMostHigh

LEMMA RaiseHolds ==
    ASSUME NEW low \in Severities, NEW high \in Severities, low <= high,
           NEW pastHigh \in BOOLEAN, NEW ceiling \in Severities
    PROVE  /\ Move(low, 1, pastHigh, ceiling) <= Move(high, 1, pastHigh, ceiling)
           /\ low <= Move(low, 1, pastHigh, ceiling)
BY DEF Severities, Move, Clamp, Higher, Top, AtMostHigh

LEMMA LeastOf ==
    ASSUME NEW S \in SUBSET Nat, S # {}
    PROVE  \E m \in S : \A k \in S : m <= k
<1>1. PICK m \in S : \A k \in S : ~(<<k, m>> \in OpToRel(<, Nat))
  BY NatLessThanWellFounded, WFMin
<1>2. \A k \in S : ~(k < m)
  <2> TAKE k \in S
  <2>1. k \in Nat /\ m \in Nat
    OBVIOUS
  <2>2. k < m => <<k, m>> \in OpToRel(<, Nat)
    BY <2>1 DEF OpToRel
  <2> QED
    BY <1>1, <2>2
<1> QED
  BY <1>2

\* A chain is the values its steps take, each from the one before.
IsRun(f, start, steps, ceiling, n) ==
    /\ f \in [0..n -> Severities] /\ f[0] = start
    /\ \A i \in 1..n : f[i] = IF steps[i].on THEN Move(f[i - 1], steps[i].delta, steps[i].pastHigh, ceiling) ELSE f[i - 1]

LEMMA RunExists ==
    ASSUME NEW start \in Severities, NEW ceiling \in Severities, NEW steps \in Seq(Steps)
    PROVE  \A n \in 0 .. Len(steps) : \E f : IsRun(f, start, steps, ceiling, n)
<1> DEFINE none == {n \in 0 .. Len(steps) : ~ \E f : IsRun(f, start, steps, ceiling, n)}
<1> SUFFICES ASSUME none # {} PROVE FALSE
  OBVIOUS
<1>0. none \in SUBSET Nat
  OBVIOUS
<1>1. PICK n \in none : \A k \in none : n <= k
  <2> HIDE DEF none
  <2> QED
    BY <1>0, LeastOf
<1>2. CASE n = 0
  <2>1. IsRun([i \in 0..0 |-> start], start, steps, ceiling, 0)
    BY DEF IsRun
  <2> QED
    BY <1>2, <2>1
<1>3. CASE n # 0
  <2>1. n \in 1 .. Len(steps) /\ n - 1 \in 0 .. Len(steps) /\ n - 1 < n
    BY <1>3
  <2>2. n - 1 \notin none
    BY <1>1, <2>1
  <2>3. PICK g : IsRun(g, start, steps, ceiling, n - 1)
    BY <2>1, <2>2
  <2> DEFINE v == IF steps[n].on THEN Move(g[n - 1], steps[n].delta, steps[n].pastHigh, ceiling) ELSE g[n - 1]
             f == [i \in 0..n |-> IF i = n THEN v ELSE g[i]]
  <2>4. v \in Severities
    <3>1. steps[n] \in Steps /\ g[n - 1] \in Severities
      BY <2>1, <2>3 DEF IsRun
    <3>2. CASE steps[n].on
      <4>1. steps[n].delta \in Int /\ steps[n].pastHigh \in BOOLEAN
        BY <3>1 DEF Steps
      <4>2. Move(g[n - 1], steps[n].delta, steps[n].pastHigh, ceiling) \in Severities
        BY <3>1, <4>1, MoveHolds
      <4> QED
        BY <3>2, <4>2
    <3> QED
      BY <3>1, <3>2
  <2>5. f \in [0..n -> Severities] /\ f[0] = start
    <3> HIDE DEF v
    <3> QED
      BY <2>1, <2>3, <2>4 DEF IsRun
  <2>6. ASSUME NEW i \in 1..n
        PROVE  f[i] = IF steps[i].on THEN Move(f[i - 1], steps[i].delta, steps[i].pastHigh, ceiling) ELSE f[i - 1]
    <3>1. f[i - 1] = g[i - 1]
      BY <2>1
    <3>2. CASE i = n
      <4>1. f[i] = v
        BY <3>2
      <4> HIDE DEF f
      <4> QED
        BY <3>1, <3>2, <4>1
    <3>3. CASE i # n
      <4>1. f[i] = g[i] /\ i \in 1 .. (n - 1)
        BY <2>1, <3>3
      <4> HIDE DEF f
      <4> QED
        BY <2>3, <3>1, <4>1 DEF IsRun
    <3> QED
      BY <3>2, <3>3
  <2>7. IsRun(f, start, steps, ceiling, n)
    <3> HIDE DEF f
    <3> QED
      BY <2>5, <2>6 DEF IsRun
  <2> QED
    BY <2>7
<1> QED
  BY <1>2, <1>3

LEMMA AfterIs ==
    ASSUME NEW start \in Severities, NEW ceiling \in Severities, NEW steps \in Seq(Steps)
    PROVE  \E f : IsRun(f, start, steps, ceiling, Len(steps)) /\ After(start, steps, ceiling) = f[Len(steps)]
<1> DEFINE N == Len(steps)
           IsSev(f) == f = [i \in 0..N |-> IF i = 0 THEN start
                                           ELSE IF steps[i].on THEN Move(f[i - 1], steps[i].delta, steps[i].pastHigh, ceiling) ELSE f[i - 1]]
           sev == CHOOSE f : IsSev(f)
<1>0. N \in Nat
  OBVIOUS
<1>1. After(start, steps, ceiling) = sev[N]
  BY DEF After
<1>2. PICK g : IsRun(g, start, steps, ceiling, N)
  BY <1>0, RunExists
<1>3. IsSev(g)
  BY <1>0, <1>2 DEF IsRun
<1>4. IsSev(sev)
  BY <1>3
<1> HIDE DEF sev
<1>5. /\ DOMAIN sev = 0..N /\ sev[0] = start
      /\ \A i \in 1..N : sev[i] = IF steps[i].on THEN Move(sev[i - 1], steps[i].delta, steps[i].pastHigh, ceiling) ELSE sev[i - 1]
  BY <1>0, <1>4
<1> DEFINE differ == {i \in 0..N : sev[i] # g[i]}
<1>6. differ = {}
  <2> SUFFICES ASSUME differ # {} PROVE FALSE
    OBVIOUS
  <2>1. differ \in SUBSET Nat
    BY <1>0
  <2>2. PICK n \in differ : \A k \in differ : n <= k
    <3> HIDE DEF differ
    <3> QED
      BY <2>1, LeastOf
  <2>3. n # 0 /\ n \in 1..N /\ n - 1 \in 0..N /\ n - 1 < n
    BY <1>0, <1>2, <1>5 DEF IsRun
  <2>4. sev[n - 1] = g[n - 1]
    BY <2>2, <2>3
  <2> QED
    BY <1>2, <1>5, <2>3, <2>4 DEF IsRun
<1>7. sev = g
  <2>1. sev = [i \in 0..N |-> sev[i]]
    BY <1>4
  <2>2. g = [i \in 0..N |-> g[i]]
    BY <1>2 DEF IsRun
  <2>3. \A i \in 0..N : sev[i] = g[i]
    BY <1>6
  <2> QED
    BY <2>1, <2>2, <2>3
<1> QED
  BY <1>1, <1>2, <1>7

\* No chain passes its ceiling, and without a step that may it enters nothing
\* above high.
LEMMA AfterHolds ==
    ASSUME NEW start \in Severities, NEW ceiling \in Severities, NEW steps \in Seq(Steps)
    PROVE  LET s == After(start, steps, ceiling) IN
           /\ s \in Severities /\ s <= Higher(start, ceiling)
           /\ s > AtMostHigh => start > AtMostHigh \/ \E i \in 1 .. Len(steps) : steps[i].on /\ steps[i].pastHigh
<1> DEFINE N == Len(steps)
           past == \E i \in 1..N : steps[i].on /\ steps[i].pastHigh
<1>0. N \in Nat
  OBVIOUS
<1>1. PICK f : IsRun(f, start, steps, ceiling, N) /\ After(start, steps, ceiling) = f[N]
  BY AfterIs
<1> DEFINE Held(v) == v <= Higher(start, ceiling) /\ (v > AtMostHigh => start > AtMostHigh \/ past)
           broken == {i \in 0..N : ~Held(f[i])}
<1>2. Held(start)
  BY DEF Higher, Severities, Top
<1>3. ASSUME NEW i \in 1..N, Held(f[i - 1]) PROVE Held(f[i])
  <2>1. f[i - 1] \in Severities /\ f[i] \in Severities /\ steps[i] \in Steps
    BY <1>0, <1>1 DEF IsRun
  <2>2. f[i] = IF steps[i].on THEN Move(f[i - 1], steps[i].delta, steps[i].pastHigh, ceiling) ELSE f[i - 1]
    BY <1>1 DEF IsRun
  <2>3. CASE ~steps[i].on
    BY <1>3, <2>2, <2>3
  <2>4. CASE steps[i].on
    <3>1. /\ f[i] <= Higher(f[i - 1], ceiling)
          /\ f[i] > AtMostHigh => f[i - 1] > AtMostHigh \/ steps[i].pastHigh
      BY <2>1, <2>2, <2>4, MoveHolds DEF Steps
    <3>2. steps[i].pastHigh => past
      BY <2>4
    <3> HIDE DEF past
    <3> QED
      BY <1>3, <2>1, <3>1, <3>2 DEF Higher, Severities, Top, AtMostHigh
  <2> QED
    BY <2>3, <2>4
<1> HIDE DEF Held
<1>4. broken = {}
  <2> SUFFICES ASSUME broken # {} PROVE FALSE
    OBVIOUS
  <2>1. broken \in SUBSET Nat
    BY <1>0
  <2>2. PICK n \in broken : \A k \in broken : n <= k
    <3> HIDE DEF broken
    <3> QED
      BY <2>1, LeastOf
  <2>3. n # 0 /\ n \in 1..N /\ n - 1 \in 0..N /\ n - 1 < n
    BY <1>0, <1>1, <1>2 DEF IsRun
  <2>4. Held(f[n - 1])
    BY <2>2, <2>3
  <2> QED
    BY <1>3, <2>3, <2>4
<1>5. Held(f[N]) /\ f[N] \in Severities
  BY <1>0, <1>1, <1>4 DEF IsRun
<1> QED
  BY <1>1, <1>5 DEF Held

\* Where every step of one chain is one of another's, and all raise by one, the
\* other ends no lower.
LEMMA AfterGrows ==
    ASSUME NEW low \in Severities, NEW high \in Severities, low <= high, NEW ceiling \in Severities,
           NEW few \in Seq(Steps), NEW more \in Seq(Steps), Len(few) = Len(more),
           \A i \in 1 .. Len(few) : /\ few[i].delta = 1 /\ more[i].delta = 1 /\ few[i].pastHigh = more[i].pastHigh
                                   /\ few[i].on \in {FALSE, more[i].on}
    PROVE  After(low, few, ceiling) <= After(high, more, ceiling)
<1> DEFINE N == Len(few)
<1>0. N \in Nat
  OBVIOUS
<1>1. PICK f : IsRun(f, low, few, ceiling, N) /\ After(low, few, ceiling) = f[N]
  BY AfterIs
<1>2. PICK g : IsRun(g, high, more, ceiling, N) /\ After(high, more, ceiling) = g[N]
  BY AfterIs
<1>a. \A i \in 1..N : few[i] \in Steps /\ few[i].delta = 1 /\ more[i].delta = 1 /\ few[i].pastHigh = more[i].pastHigh
  <2> TAKE i \in 1..N
  <2>1. few[i] \in Steps
    OBVIOUS
  <2>2. few[i].delta = 1 /\ more[i].delta = 1
    OBVIOUS
  <2>3. few[i].pastHigh = more[i].pastHigh
    OBVIOUS
  <2> QED
    BY <2>1, <2>2, <2>3
<1>b. \A i \in 1..N : few[i].on \in {FALSE, more[i].on}
  OBVIOUS
<1> HIDE DEF N
<1> DEFINE above == {i \in 0..N : ~(f[i] <= g[i])}
<1>3. ASSUME NEW i \in 1..N, f[i - 1] <= g[i - 1] PROVE f[i] <= g[i]
  <2>0. i - 1 \in 0..N
    BY <1>0
  <2>1. f[i - 1] \in Severities /\ g[i - 1] \in Severities /\ few[i] \in Steps
    BY <1>1, <1>2, <1>a, <2>0 DEF IsRun
  <2>2. /\ f[i] = IF few[i].on THEN Move(f[i - 1], 1, few[i].pastHigh, ceiling) ELSE f[i - 1]
        /\ g[i] = IF more[i].on THEN Move(g[i - 1], 1, few[i].pastHigh, ceiling) ELSE g[i - 1]
    <3>1. f[i] = IF few[i].on THEN Move(f[i - 1], few[i].delta, few[i].pastHigh, ceiling) ELSE f[i - 1]
      BY <1>1 DEF IsRun
    <3>2. g[i] = IF more[i].on THEN Move(g[i - 1], more[i].delta, more[i].pastHigh, ceiling) ELSE g[i - 1]
      BY <1>2 DEF IsRun
    <3>3. few[i].delta = 1 /\ more[i].delta = 1 /\ more[i].pastHigh = few[i].pastHigh
      BY <1>a
    <3> QED
      BY <3>1, <3>2, <3>3
  <2>3. few[i].pastHigh \in BOOLEAN
    BY <2>1 DEF Steps
  <2>4. /\ Move(f[i - 1], 1, few[i].pastHigh, ceiling) <= Move(g[i - 1], 1, few[i].pastHigh, ceiling)
        /\ g[i - 1] <= Move(g[i - 1], 1, few[i].pastHigh, ceiling)
        /\ Move(g[i - 1], 1, few[i].pastHigh, ceiling) \in Severities
    <3>1. f[i - 1] <= g[i - 1] /\ g[i - 1] <= g[i - 1]
      BY <1>3, <2>1 DEF Severities, Top
    <3>2. \A p \in BOOLEAN : Move(f[i - 1], 1, p, ceiling) <= Move(g[i - 1], 1, p, ceiling)
      BY <2>1, <3>1, RaiseHolds
    <3>3. \A p \in BOOLEAN : g[i - 1] <= Move(g[i - 1], 1, p, ceiling)
      BY <2>1, <3>1, RaiseHolds
    <3>4. \A p \in BOOLEAN : Move(g[i - 1], 1, p, ceiling) \in Severities
      BY <2>1, MoveHolds
    <3> QED
      BY <2>3, <3>2, <3>3, <3>4
  <2>5. CASE few[i].on
    <3>1. more[i].on
      BY <1>a, <1>b, <2>5 DEF Steps
    <3> QED
      BY <2>2, <2>4, <2>5, <3>1
  <2>6. CASE ~few[i].on /\ more[i].on
    BY <1>3, <2>1, <2>2, <2>4, <2>6 DEF Severities, Top
  <2>7. CASE ~few[i].on /\ ~more[i].on
    BY <1>3, <2>2, <2>7
  <2> QED
    BY <2>5, <2>6, <2>7
<1>4. above = {}
  <2> SUFFICES ASSUME above # {} PROVE FALSE
    OBVIOUS
  <2>1. above \in SUBSET Nat
    BY <1>0
  <2>2. PICK n \in above : \A k \in above : n <= k
    <3> HIDE DEF above
    <3> QED
      BY <2>1, LeastOf
  <2>3. n # 0 /\ n \in 1..N /\ n - 1 \in 0..N /\ n - 1 < n
    BY <1>0, <1>1, <1>2 DEF IsRun
  <2>4. f[n - 1] <= g[n - 1]
    BY <2>2, <2>3
  <2> QED
    BY <1>3, <2>2, <2>3, <2>4
<1> QED
  BY <1>0, <1>1, <1>2, <1>4

\* The rows are nine raises, and declaring more takes none of them away.
LEMMA RowsAre ==
    ASSUME NEW j, NEW d
    PROVE  Rows(j, d) \in Seq(Steps) /\ Len(Rows(j, d)) = 9 /\ \A i \in 1..9 : Rows(j, d)[i].delta = 1
<1>1. \A on, past \in BOOLEAN : Row(on, past) \in Steps /\ Row(on, past).delta = 1
  BY DEF Row, StepOf, Steps
<1>2. Len(Rows(j, d)) = 9
  BY DEF Rows
<1> DEFINE r == Rows(j, d)
           Raises(x) == x \in Steps /\ x.delta = 1
<1>r1. Raises(r[1])
  BY <1>1 DEF Rows
<1>r2. Raises(r[2])
  BY <1>1 DEF Rows
<1>r3. Raises(r[3])
  BY <1>1 DEF Rows
<1>r4. Raises(r[4])
  <2> DEFINE c == "contradiction" \in j.attributes
  <2>1. c \in BOOLEAN
    OBVIOUS
  <2>2. r[4] = Row(c, TRUE)
    BY DEF Rows
  <2> HIDE DEF c, r
  <2> QED
    BY <1>1, <2>1, <2>2
<1>r5. Raises(r[5])
  BY <1>1 DEF Rows
<1>r6. Raises(r[6])
  BY <1>1 DEF Rows
<1>r7. Raises(r[7])
  BY <1>1 DEF Rows
<1>r8. Raises(r[8])
  BY <1>1 DEF Rows
<1>r9. Raises(r[9])
  BY <1>1 DEF Rows
<1>3. DOMAIN r = 1..9 /\ r = [i \in 1..9 |-> r[i]]
  BY DEF Rows
<1> HIDE DEF r, Raises
<1>4. \A i \in 1..9 : Raises(r[i])
  BY <1>r1, <1>r2, <1>r3, <1>r4, <1>r5, <1>r6, <1>r7, <1>r8, <1>r9
<1> QED
  BY <1>2, <1>3, <1>4 DEF r, Raises

\* What is graded and declared is as SeverityAssumption has it.
SeverityIInv == judged \in Judgments /\ declared \in DeclarationSets

LEMMA OwnAre ==
    ASSUME NEW j \in Judgments
    PROVE  /\ OwnSteps(j) \in Seq(Steps)
           /\ \A i \in 1 .. Len(OwnSteps(j)) : OwnSteps(j)[i].pastHigh = FALSE
<1> DEFINE o == OwnSteps(j)
           on(i) == j.own[i].name \in j.attributes
           raises == [name : STRING, delta : Int]
<1>1. j.own \in Seq(raises)
  BY SeverityAssumption
<1>2. o = [i \in DOMAIN j.own |-> StepOf(on(i), j.own[i].delta, FALSE)]
  BY DEF OwnSteps
<1>3. ASSUME NEW i \in DOMAIN j.own PROVE j.own[i].delta \in Int
  <2>1. j.own[i] \in raises
    <3> HIDE DEF raises
    <3> QED
      BY <1>1
  <2> QED
    BY <2>1
<1>a. \A i \in DOMAIN j.own : on(i) \in BOOLEAN
  OBVIOUS
<1> HIDE DEF on, o
<1>4. \A i \in DOMAIN j.own : o[i] \in Steps /\ o[i].pastHigh = FALSE
  BY <1>2, <1>3, <1>a DEF StepOf, Steps
<1>5. DOMAIN j.own = 1 .. Len(j.own) /\ Len(j.own) \in Nat
  BY <1>1
<1>6. o \in Seq(Steps) /\ Len(o) = Len(j.own)
  BY <1>2, <1>4, <1>5
<1> QED
  BY <1>4, <1>5, <1>6 DEF o

LEMMA ChainEarned == SeverityIInv => CriticalEarned
<1> SUFFICES ASSUME SeverityIInv PROVE CriticalEarned
  OBVIOUS
<1> DEFINE j == judged
           d == declared
           own == After(j.base, OwnSteps(j), j.ceiling)
           rows == After(own, Rows(j, d), j.ceiling)
<1>1. j \in Judgments /\ j.base \in Severities /\ j.ceiling \in Severities
  BY SeverityAssumption DEF SeverityIInv, Severities
<1>2. /\ own \in Severities /\ own <= Higher(j.base, j.ceiling)
      /\ own > AtMostHigh => j.base > AtMostHigh
  <2>1. /\ own \in Severities /\ own <= Higher(j.base, j.ceiling)
        /\ own > AtMostHigh => j.base > AtMostHigh \/ \E i \in 1 .. Len(OwnSteps(j)) : OwnSteps(j)[i].on /\ OwnSteps(j)[i].pastHigh
    BY <1>1, OwnAre, AfterHolds
  <2>2. \A i \in 1 .. Len(OwnSteps(j)) : OwnSteps(j)[i].pastHigh = FALSE
    BY <1>1, OwnAre
  <2> QED
    BY <2>1, <2>2
<1>3. /\ rows \in Severities /\ rows <= Higher(own, j.ceiling)
      /\ rows > AtMostHigh => own > AtMostHigh \/ \E i \in 1 .. Len(Rows(j, d)) : Rows(j, d)[i].on /\ Rows(j, d)[i].pastHigh
  <2> HIDE DEF own
  <2> QED
    BY <1>1, <1>2, RowsAre, AfterHolds
<1>4. Chain(j, d) = IF ExposedOnPurpose(j, d) THEN 0 ELSE rows
  BY DEF Chain
<1> HIDE DEF own, rows
<1>5. Chain(j, d) \in {0, rows}
  BY <1>4
<1>6. Chain(j, d) <= Higher(j.base, j.ceiling)
  BY <1>1, <1>2, <1>3, <1>5 DEF Higher, Severities, Top
<1>7. Chain(j, d) > AtMostHigh => j.base > AtMostHigh \/ \E i \in 1 .. Len(Rows(j, d)) : Rows(j, d)[i].on /\ Rows(j, d)[i].pastHigh
  <2>1. Chain(j, d) > AtMostHigh => rows > AtMostHigh
    BY <1>5 DEF AtMostHigh
  <2> QED
    BY <1>2, <1>3, <2>1
<1> QED
  BY <1>6, <1>7 DEF CriticalEarned

LEMMA RowsGrow ==
    ASSUME NEW j, NEW less \in DeclarationSets, NEW more \in DeclarationSets, Includes(more, less)
    PROVE  \A i \in 1..9 : /\ Rows(j, less)[i].pastHigh = Rows(j, more)[i].pastHigh
                           /\ Rows(j, less)[i].on \in {FALSE, Rows(j, more)[i].on}
<1>1. less.matters \subseteq more.matters /\ less.production \subseteq more.production /\ less.internet \subseteq more.internet
  BY SeverityAssumption DEF Includes
<1> DEFINE Grows(a, b) == a.pastHigh = b.pastHigh /\ a.on \in {FALSE, b.on}
           l == Rows(j, less)
           m == Rows(j, more)
<1>r1. Grows(l[1], m[1])
  BY <1>1 DEF Rows, Row, StepOf, Production
<1>r2. Grows(l[2], m[2])
  BY <1>1 DEF Rows, Row, StepOf, Production
<1>r3. Grows(l[3], m[3])
  BY <1>1 DEF Rows, Row, StepOf, Production
<1>r4. Grows(l[4], m[4])
  BY <1>1 DEF Rows, Row, StepOf, Production
<1>r5. Grows(l[5], m[5])
  BY <1>1 DEF Rows, Row, StepOf, Production
<1>r6. Grows(l[6], m[6])
  BY <1>1 DEF Rows, Row, StepOf, Production
<1>r7. Grows(l[7], m[7])
  BY <1>1 DEF Rows, Row, StepOf, Production
<1>r8. Grows(l[8], m[8])
  BY <1>1 DEF Rows, Row, StepOf, Production
<1>r9. Grows(l[9], m[9])
  BY <1>1 DEF Rows, Row, StepOf, Production
<1> HIDE DEF l, m, Grows
<1>2. \A i \in 1..9 : Grows(l[i], m[i])
  BY <1>r1, <1>r2, <1>r3, <1>r4, <1>r5, <1>r6, <1>r7, <1>r8, <1>r9
<1> QED
  BY <1>2 DEF l, m, Grows

LEMMA ChainGrows == SeverityIInv /\ GradeAll => MoreNeverLowers
<1> SUFFICES ASSUME SeverityIInv, GradeAll, ~(ExposedOnPurpose(judged', declared') /\ Chain(judged', declared') = 0)
             PROVE  Chain(judged', declared') >= Chain(judged, declared)
  BY DEF MoreNeverLowers
<1> DEFINE j == judged
           less == declared
           more == declared'
           own == After(j.base, OwnSteps(j), j.ceiling)
<1>1. judged' = j /\ j \in Judgments /\ less \in DeclarationSets /\ more \in DeclarationSets /\ Includes(more, less)
  BY DEF SeverityIInv, GradeAll
<1>2. ~ExposedOnPurpose(j, more)
  BY <1>1 DEF Chain
<1>3. ~ExposedOnPurpose(j, less)
  <2>1. less.exposed \subseteq more.exposed
    BY <1>1, SeverityAssumption DEF Includes
  <2> QED
    BY <1>2, <2>1 DEF ExposedOnPurpose
<1>4. Chain(j, less) = After(own, Rows(j, less), j.ceiling) /\ Chain(j, more) = After(own, Rows(j, more), j.ceiling)
  BY <1>2, <1>3 DEF Chain
<1>5. j.base \in Severities /\ j.ceiling \in Severities
  BY <1>1, SeverityAssumption DEF Severities
<1>6. own \in Severities
  BY <1>1, <1>5, OwnAre, AfterHolds
<1> HIDE DEF own, j, less, more
<1>7. After(own, Rows(j, less), j.ceiling) <= After(own, Rows(j, more), j.ceiling)
  <2>1. own <= own
    BY <1>6 DEF Severities, Top
  <2>2. \A i \in 1 .. Len(Rows(j, less)) :
           /\ Rows(j, less)[i].delta = 1 /\ Rows(j, more)[i].delta = 1
           /\ Rows(j, less)[i].pastHigh = Rows(j, more)[i].pastHigh
           /\ Rows(j, less)[i].on \in {FALSE, Rows(j, more)[i].on}
    <3>1. /\ Len(Rows(j, less)) = 9
          /\ \A i \in 1..9 : Rows(j, less)[i].delta = 1 /\ Rows(j, more)[i].delta = 1
      BY RowsAre
    <3>2. \A i \in 1..9 : /\ Rows(j, less)[i].pastHigh = Rows(j, more)[i].pastHigh
                         /\ Rows(j, less)[i].on \in {FALSE, Rows(j, more)[i].on}
      BY <1>1, RowsGrow
    <3> QED
      BY <3>1, <3>2
  <2>3. Rows(j, less) \in Seq(Steps) /\ Rows(j, more) \in Seq(Steps) /\ Len(Rows(j, less)) = Len(Rows(j, more))
    BY RowsAre
  <2> QED
    BY <1>5, <1>6, <2>1, <2>2, <2>3, AfterGrows
<1>8. Chain(j, less) \in Severities /\ Chain(j, more) \in Severities
  BY <1>4, <1>5, <1>6, RowsAre, AfterHolds
<1> QED
  BY <1>1, <1>4, <1>7, <1>8 DEF j, less, more, Severities, Top

\* However many steps stack, in whatever order: a finding is critical only from
\* a critical base or by a step that may pass high, no step passes its
\* definition's ceiling, and declaring more lowers no rating but that of a URL
\* exposed on purpose (severity.go chain and GradeAll; finding/chain.go Step).
THEOREM GradesAlwaysHold == SeveritySpec => GradesHold
<1>1. SeverityInit => SeverityIInv
  BY DEF SeverityInit, SeverityIInv
<1>2. SeverityIInv /\ [GradeAll]_severityVars => SeverityIInv'
  BY DEF SeverityIInv, GradeAll, severityVars
<1>3. SeverityIInv' => CriticalEarned'
  BY ChainEarned, PTL
<1>4. SeverityIInv /\ SeverityIInv' /\ [GradeAll]_severityVars => [declared' # declared => CriticalEarned' /\ MoreNeverLowers]_severityVars
  BY <1>3, ChainGrows DEF severityVars
<1> QED
  BY <1>1, <1>2, <1>4, PTL DEF SeveritySpec, GradesHold

=============================================================================
