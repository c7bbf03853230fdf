---------------------------- MODULE MCVerdicts ----------------------------
(***************************************************************************)
(* What a run concludes, one part in a behaviour: the store of a host      *)
(* run's findings, the severity table, the report, and the two loops that  *)
(* ask a model, on small catalogs, declarations, listings and budgets.     *)
(***************************************************************************)
EXTENDS Findings, Severity, Report, Agent, Bounded

VARIABLE part

(* Catalog ids: an unfiltered service that presupposes that a firewall is  *)
(* off, a remote-access setting, the firewall, and two of other areas.     *)
Def(base, category, premise, platforms) ==
    [host |-> TRUE, base |-> base, category |-> category, premise |-> premise, platforms |-> platforms]
MCCatalog == [firewall |-> Def(2, "network", {}, {"any"}), exposed |-> Def(3, "network", {"firewall"}, {}),
              remote |-> Def(4, "remote-access", {}, {"linux"}), mac |-> Def(2, "disk", {}, {"darwin"}),
              web |-> [Def(2, "web", {}, {}) EXCEPT !.host = FALSE]]
Rule1(f, r) == [firewall |-> f, exposed |-> {}, remote |-> r, mac |-> {}, web |-> {}]
MCRuleStatus == {Rule1({"matched"}, {"matched"}), Rule1({"not_matched"}, {"matched"}),
                 Rule1({"matched", "not_matched"}, {"not_assessed"}), Rule1({"not_assessed"}, {"not_matched"})}
Context(s, e, v) == [given |-> TRUE, services |-> s, exposure |-> e, environment |-> v]
MCContexts == {Context({}, "internet", "dev"), Context({"p1"}, "internet", ""), Context({"p1"}, "airgapped", "dev"),
               [Context({}, "", "") EXCEPT !.given = FALSE]}
Says(id, k, service, proposed) == [id |-> id, confidence |-> k, evidence |-> {"e1"}, service |-> service, proposed |-> proposed]
MCReports == {Says(id, k, v, 0) : id \in {"exposed", "remote", "firewall"}, k \in {2, 3}, v \in {NoService, "p1", "p2"}}
           \cup {Says("custom", 2, "p2", p) : p \in {1, 4}} \cup {Says("mac", 3, "p1", 0), Says("web", 3, "p1", 0)}
           \cup {[Says("exposed", 3, "p1", 0) EXCEPT !.evidence = e] : e \in {{}, {"e1", "e2"}, {"e2"}}}

MCJudgments ==
    LET J(family, base, ceiling, attrs, own, exposure, owner) ==
            [family |-> family, base |-> base, ceiling |-> ceiling, exposure |-> exposure, matters |-> family # "web",
             own |-> own, attributes |-> attrs, subject |-> "u", owner |-> owner]
    IN  {J("former_access", b, Top, a, <<>>, FALSE, o) : b \in {1, 3}, o \in {"a", "b"},
            a \in SUBSET {"contradiction", "admin", "repository_admin", "write"}}
        \cup {J(f, b, Top, a, <<>>, FALSE, "a") : f \in {"pipeline", "forwarding", "oauth", "secret"}, b \in {2, 4},
            a \in SUBSET {"contradiction", "admin", "admin_grantor", "public_repository"}}
        \cup {J("listens", b, AtMostHigh, a, <<>>, x, "a") : b \in 1..3, a \in SUBSET {"contradiction"}, x \in BOOLEAN}
        \cup {J("web", b, Top, a, own, TRUE, "a") : b \in {1, 3, 4}, a \in SUBSET {"contradiction", "password_form", "slack_webhook"},
                own \in {<<[name |-> "password_form", delta |-> 1]>>, <<[name |-> "slack_webhook", delta |-> -1]>>}}
MCDeclarationSets == [exposed : SUBSET {"u"}, matters : SUBSET {"a"}, production : SUBSET {"a"}, internet : SUBSET {"a"}]

MCOwner == [s |-> "root", t |-> "root", u |-> "under", v |-> "root"]
MCDays == [s |-> 1, t |-> 2, u |-> 0, v |-> 1]
Entry(a, s, x) == [asset |-> a, subject |-> s, expires |-> x]
MCEntries == {Entry("root", "any", 0), Entry("root", "any", 1), Entry("under", "any", 1),
              Entry("root", "s", 0), Entry("root", "t", 1), Entry("root", "v", 1), Entry("under", "u", 1), Entry("root", "gone", 0)}
MCEntryLists == {<<e>> : e \in MCEntries}
                \cup {<<Entry("root", first, x), e>> : first \in {"any", "s"}, x \in {0, 1}, e \in MCEntries}

MCReplies == {<<>>, <<"check">>, <<"report">>, <<"check", "report", "check", "check">>, <<"unknown">>}
MCPrices == {1, 2}

Rec(kind, key, cut, excused, entry) ==
    [kind |-> kind, key |-> key, cut |-> cut, blank |-> FALSE, local |-> excused, declared |-> excused,
     named |-> TRUE, writable |-> excused, entry |-> entry, grant |-> kind = "admin"]
Records == {Rec("listener", 1, FALSE, FALSE, "none"), Rec("listener", 1, FALSE, TRUE, "none"),
            Rec("persistence", 1, FALSE, FALSE, "unit"), Rec("persistence", 2, FALSE, FALSE, "cron"),
            Rec("persistence", 3, FALSE, FALSE, "launchd"), Rec("suid", 1, FALSE, TRUE, "none"),
            Rec("suid", 2, TRUE, FALSE, "none"), Rec("admin", 1, FALSE, FALSE, "none"),
            Rec("admin", 1, TRUE, TRUE, "none")}
MCCandidates == {<<>>} \cup {<<r>> : r \in Records} \cup (Records \X Records) \cup
    {<<Rec("listener", 1, FALSE, FALSE, "none"), p, q>> : p, q \in {r \in Records : r.kind = "persistence"}}

NoFinding == findings = <<>> /\ ruledOut = {} /\ assessed = <<>> /\ context = "none"
NoJudgment == /\ judged = [family |-> "none", base |-> 0, ceiling |-> Top, exposure |-> FALSE, matters |-> FALSE, own |-> <<>>,
                            attributes |-> {}, subject |-> "u", owner |-> "a"]
              /\ declared = [exposed |-> {}, matters |-> {}, production |-> {}, internet |-> {}]
NoReport == live = {} /\ got = Whole /\ checks = [m \in Members |-> "whole"] /\ entries = <<>> /\ superseded = {} /\ onHost = FALSE
NoAsking == AgentInit
NoItems == items = <<>> /\ reads = 0 /\ units = "unknown"
           /\ place = [at |-> 1, step |-> "done", judged |-> 0, ended |-> "complete", over |-> FALSE]

Init == \/ part = "store" /\ NewStore /\ NoJudgment /\ NoReport /\ NoAsking /\ NoItems
        \/ part = "severity" /\ SeverityInit /\ NoFinding /\ NoReport /\ NoAsking /\ NoItems
        \/ part = "report" /\ ReportInit /\ NoFinding /\ NoJudgment /\ NoAsking /\ NoItems
        \/ part = "agent" /\ AgentInit /\ NoFinding /\ NoJudgment /\ NoReport /\ NoItems
        \/ part = "bounded" /\ BoundedInit /\ NoFinding /\ NoJudgment /\ NoReport /\ NoAsking
Next == \/ part = "store" /\ StoreNext /\ UNCHANGED <<part, severityVars, reportVars, agentVars, boundedVars>>
        \/ part = "severity" /\ GradeAll /\ UNCHANGED <<part, storeVars, reportVars, agentVars, boundedVars>>
        \/ part = "report" /\ ReportNext /\ UNCHANGED <<part, storeVars, severityVars, agentVars, boundedVars>>
        \/ part = "agent" /\ AgentNext /\ UNCHANGED <<part, storeVars, severityVars, reportVars, boundedVars>>
        \/ part = "bounded" /\ BoundedNext /\ UNCHANGED <<part, storeVars, severityVars, reportVars, agentVars>>
Spec == Init /\ [][Next]_<<part, storeVars, severityVars, reportVars, agentVars, boundedVars>>
=============================================================================
