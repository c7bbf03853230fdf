----------------------------- MODULE Findings -----------------------------
(***************************************************************************)
(* The store that owns the findings of a host run (internal/finding).  The *)
(* posture rules seed it; the model then reports candidates and rules ids  *)
(* out, in any order.  The store validates, merges and grades: the model   *)
(* never supplies a severity.  Text (titles, notes, remediation) is left   *)
(* out; a piece of evidence is a model value the run either holds in a     *)
(* successful capture (Usable) or does not.                                *)
(*                                                                         *)
(* Severities are their ranks: 0 info, 1 low, 2 medium, 3 high, 4 critical.*)
(***************************************************************************)
EXTENDS Integers, FiniteSets

CONSTANTS
    Catalog,     \* id -> [host, base, category, premise, platforms]
    CustomIds,   \* well-formed custom:<slug> ids
    Platform,    \* the platform the sheet was collected on
    RuleStatus,  \* the families id -> statuses the rules may have left
    Evidences,   \* what a candidate may cite
    Usable,      \* the part of it found in a successful capture
    Listeners,   \* the services a candidate may name
    Reports,     \* the reports the model may make
    Contexts,    \* the operator contexts a run may have
    Emulated     \* tool calls are parsed from text

ASSUME CatalogAssumption ==
    /\ \A id \in DOMAIN Catalog : Catalog[id].base \in 0..4 /\ Catalog[id].premise \subseteq DOMAIN Catalog
    /\ CustomIds \cap DOMAIN Catalog = {}

VARIABLES
    findings,    \* id -> finding, the store's list by id
    ruledOut,    \* ids the model checked and closed
    assessed,    \* id -> the statuses of the rules that evaluated it
    context      \* the operator's structured context

storeVars == <<findings, ruledOut, assessed, context>>

Medium == 2
High == 3
Critical == 4
NoService == "none"

-----------------------------------------------------------------------------
(* Grading: base, the context's table in its fixed order, and the caps.    *)
(* Acceptances are in Report.                                              *)

Shift(sev, delta) == IF sev + delta < 0 THEN 0 ELSE IF sev + delta > Critical THEN Critical ELSE sev + delta

Adjustments(f, c) ==
    LET named == f.service # NoService /\ c.services # {}
        declared == named /\ f.service \in c.services
    IN  << [on |-> declared, delta |-> 0 - f.base],
           [on |-> named /\ ~declared /\ f.category = "network", delta |-> 1],
           [on |-> c.exposure = "internet" /\ f.category \in {"remote-access", "network"}, delta |-> 1],
           [on |-> c.exposure = "airgapped" /\ f.category = "remote-access", delta |-> -2],
           [on |-> c.environment = "dev", delta |-> -1] >>

(* One adjustment; nothing raises a custom finding.                        *)
Apply(f, g, a) ==
    LET next == Shift(g.sev, a.delta)
    IN  IF ~a.on \/ (f.custom /\ next > g.sev) THEN g
        ELSE [sev |-> next, raised |-> g.raised \/ (next > High /\ g.sev <= High)]

Graded(f, c) ==
    LET start == [sev |-> f.base, raised |-> FALSE]
        t == Adjustments(f, c)
        table == IF c.given
                 THEN Apply(f, Apply(f, Apply(f, Apply(f, Apply(f, start, t[1]), t[2]), t[3]), t[4]), t[5])
                 ELSE start
        capped == IF table.raised /\ table.sev > High THEN High ELSE table.sev
    IN  IF f.custom /\ capped > Medium THEN Medium ELSE capped

GradedConfidence(f) == IF Emulated /\ f.source = "model" /\ f.confidence = 3 THEN 2 ELSE f.confidence

-----------------------------------------------------------------------------
(* Validation.                                                             *)

Disproved(id) == "not_matched" \in assessed[id]
Seeded(id) == id \in DOMAIN findings

PlatformAllows(id) == Catalog[id].platforms # {} => Catalog[id].platforms \cap {"any", Platform} # {}
RuleAllowsAlone(id) == PlatformAllows(id) /\ (Disproved(id) => Seeded(id))
RuleAllows(id) ==
    /\ PlatformAllows(id)
    /\ Disproved(id) => Seeded(id)
    /\ \A p \in Catalog[id].premise : Disproved(p) => Seeded(p)

EvidenceHolds(cited) == cited \subseteq Usable

KnownId(id) == id \in CustomIds \cup {i \in DOMAIN Catalog : Catalog[i].host}

(* Report(c)'s candidate: a custom one proposes a severity, cut at medium, *)
(* a catalog one takes the definition's.                                   *)
Candidate == [id : DOMAIN Catalog \cup CustomIds, confidence : 1..3,
              evidence : SUBSET Evidences, service : Listeners \cup {NoService}, proposed : 0..Critical]
ASSUME ReportsAssumption == Reports \subseteq Candidate

Valid(c) ==
    /\ c.evidence # {} /\ EvidenceHolds(c.evidence)
    /\ KnownId(c.id)
    /\ c.id \notin CustomIds => RuleAllows(c.id)

AsFinding(c) ==
    LET custom == c.id \in CustomIds
    IN  [source |-> "model", custom |-> custom, service |-> c.service, confidence |-> c.confidence, evidence |-> c.evidence,
         base |-> IF ~custom THEN Catalog[c.id].base ELSE IF c.proposed > Medium THEN Medium ELSE c.proposed,
         category |-> IF custom THEN "custom" ELSE Catalog[c.id].category]

MergeTrusting(have, in) ==
    [have EXCEPT !.evidence = @ \cup in.evidence,
                 !.service = IF @ = NoService THEN in.service ELSE @,
                 !.confidence = in.confidence]
Merge(have, in) ==
    [have EXCEPT !.evidence = @ \cup in.evidence,
                 !.service = IF @ = NoService THEN in.service ELSE @,
                 !.confidence = IF have.source = "model" /\ in.confidence > @ THEN in.confidence ELSE @]

-----------------------------------------------------------------------------
(* The store's operations.                                                 *)

Seed(id) == [source |-> "rule", custom |-> FALSE, service |-> NoService, confidence |-> 3, evidence |-> {"rule"},
             base |-> Catalog[id].base, category |-> Catalog[id].category]

NewStore ==
    /\ assessed \in RuleStatus
    /\ context \in Contexts
    /\ findings = [id \in {i \in DOMAIN Catalog : "matched" \in assessed[i]} |-> Seed(id)]
    /\ ruledOut = {}

With(f, id, v) == [x \in DOMAIN f \cup {id} |-> IF x = id THEN v ELSE f[x]]

Report(c) ==
    /\ Valid(c)
    /\ findings' = With(findings, c.id, IF Seeded(c.id) THEN Merge(findings[c.id], AsFinding(c)) ELSE AsFinding(c))
    /\ ruledOut' = IF Seeded(c.id) THEN ruledOut ELSE ruledOut \ {c.id}
    /\ UNCHANGED <<assessed, context>>

RuleOut(c) ==
    /\ KnownId(c.id)
    /\ ~Seeded(c.id)
    /\ EvidenceHolds(c.evidence)
    /\ ruledOut' = ruledOut \cup {c.id}
    /\ UNCHANGED <<findings, assessed, context>>

StoreNext == \E c \in Reports : Report(c) \/ RuleOut(c)

-----------------------------------------------------------------------------
(* A finding and its own denial never both stand, whichever the model said *)
(* first: RuleOut refuses an id that is a finding, and a later open report *)
(* withdraws the ruling-out (store.go Report, RuleOut).                    *)
VerdictsApart == DOMAIN findings \cap ruledOut = {}

(* The model never raises what a rule disproved on complete evidence, nor  *)
(* an id that presupposes it, in whatever order it reports the two         *)
(* (store.go ruleAllows).                                                  *)
DisprovedStays ==
    \A id \in DOMAIN findings : findings[id].source = "model" /\ ~findings[id].custom =>
        \A p \in Catalog[id].premise \cup {id} : Disproved(p) => "matched" \in assessed[p]

(* A finding leaves the host table critical only when its definition is:   *)
(* no step of the table passes high, though a lowering step counts from    *)
(* the uncapped value (grade.go Grade).                                    *)
TableStopsAtHigh == \A id \in DOMAIN findings : Graded(findings[id], context) > High => findings[id].base > High

(* The three together, of every state of the store. *)
StoreSound == VerdictsApart /\ DisprovedStays /\ TableStopsAtHigh

(* What a posture rule found is the floor: no report removes it, changes   *)
(* whose it is or how sure, drops evidence, or lowers its grade other than *)
(* by naming the listener it is about (store.go merge, grade.go Grade).    *)
FloorKept ==
    [][\A id \in DOMAIN findings : findings[id].source = "rule" =>
          /\ id \in DOMAIN findings'
          /\ LET was == findings[id] now == findings'[id]
             IN  /\ now.source = "rule" /\ GradedConfidence(now) = GradedConfidence(was)
                 /\ was.evidence \subseteq now.evidence
                 /\ Graded(now, context) >= Graded(was, context) \/ was.service # now.service]_storeVars
=============================================================================
