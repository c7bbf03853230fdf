----------------------------- MODULE Severity -----------------------------
(***************************************************************************)
(* The engagement's severity table (internal/engagement/severity) over one *)
(* fired judgment: the collector's own attribute steps, then the rows in   *)
(* order, each stopped at high unless it may pass it, at the definition's  *)
(* ceiling and at the scale's end; exposed_on_purpose lowers to info and   *)
(* is terminal.  A judgment is [family, base, ceiling, exposure, matters,  *)
(* own, attributes, subject, owner]: family names the rows it may move by, *)
(* own is its collector's steps, and a ceiling of Top is none.  Sentences  *)
(* and citations are left out.                                             *)
(***************************************************************************)
EXTENDS Integers, Sequences

CONSTANTS
    Judgments,         \* the fired judgments graded
    DeclarationSets    \* what an engagement file may declare

VARIABLES
    judged,     \* the judgment being graded
    declared    \* [exposed, matters, production, internet], sets

severityVars == <<judged, declared>>

Top == 4
ASSUME SeverityAssumption ==
    /\ \A j \in Judgments : /\ j.base \in 0..Top /\ j.ceiling \in 0..Top
                           /\ j.own \in Seq([name : STRING, delta : Int])
    /\ \A d \in DeclarationSets : DOMAIN d = {"exposed", "matters", "production", "internet"}

AtMostHigh == 3
Clamp(n) == IF n < 0 THEN 0 ELSE IF n > Top THEN Top ELSE n
Higher(a, b) == IF a >= b THEN a ELSE b

(* One move of the chain (chain.go Step).                                  *)
MovePast(sev, delta, pastHigh, ceiling) == LET next == Clamp(sev + delta)
                                           IN  IF delta > 0 /\ next > ceiling THEN Higher(sev, ceiling) ELSE next
Move(sev, delta, pastHigh, ceiling) ==
    LET next == Clamp(sev + delta)
    IN  IF next = sev \/ delta <= 0 THEN next
        ELSE IF next > ceiling THEN Higher(sev, ceiling)
        ELSE IF ~pastHigh /\ next > AtMostHigh THEN Higher(sev, AtMostHigh)
        ELSE next

(* The moves of a chain in order, from a severity; one whose row does not  *)
(* match is none.                                                          *)
StepOf(on, delta, pastHigh) == [on |-> on, delta |-> delta, pastHigh |-> pastHigh]
After(start, steps, ceiling) ==
    LET sev[i \in 0 .. Len(steps)] ==
            IF i = 0 THEN start
            ELSE IF steps[i].on THEN Move(sev[i - 1], steps[i].delta, steps[i].pastHigh, ceiling) ELSE sev[i - 1]
    IN  sev[Len(steps)]

Row(on, pastHigh) == StepOf(on, 1, pastHigh)
Production(j, d) == j.owner \in d.production

(* The rows after exposed_on_purpose, in the order they are applied.       *)
Rows(j, d) ==
    LET left == j.family = "former_access"
    IN  << Row(j.matters /\ j.owner \in d.matters, FALSE),
           Row(j.family = "pipeline" /\ Production(j, d), FALSE),
           Row(j.family = "listens" /\ j.owner \in d.internet, FALSE),
           Row("contradiction" \in j.attributes, TRUE),
           Row(left /\ ("admin" \in j.attributes \/ (Production(j, d) /\ "repository_admin" \in j.attributes)), TRUE),
           Row(left /\ "write" \in j.attributes /\ Production(j, d), TRUE),
           Row(j.family = "forwarding" /\ "admin" \in j.attributes, FALSE),
           Row(j.family = "oauth" /\ "admin_grantor" \in j.attributes, FALSE),
           Row(j.family = "secret" /\ "public_repository" \in j.attributes, TRUE) >>

ExposedOnPurpose(j, d) == j.exposure /\ j.subject \in d.exposed

(* The collector's own raises and lowerings; none of them passes high.     *)
OwnSteps(j) == [i \in DOMAIN j.own |-> StepOf(j.own[i].name \in j.attributes, j.own[i].delta, FALSE)]

Chain(j, d) ==
    IF ExposedOnPurpose(j, d) THEN 0 ELSE After(After(j.base, OwnSteps(j), j.ceiling), Rows(j, d), j.ceiling)

SeverityInit == judged \in Judgments /\ declared \in DeclarationSets

(* The operator declares more and the report grades again: GradeAll gives  *)
(* every fired judgment a fresh chain.                                     *)
Includes(more, less) == \A k \in DOMAIN less : less[k] \subseteq more[k]
GradeAll ==
    /\ declared' \in {m \in DeclarationSets : Includes(m, declared)}
    /\ UNCHANGED judged

-----------------------------------------------------------------------------
(* A judgment is critical only from a critical base or by a step that says *)
(* someone with no right to it can use this now, or that the operator      *)
(* believes it handled, whatever other steps stack with it; its            *)
(* definition's ceiling stands over all (severity.go chain, chain.go Step).*)
CriticalEarned ==
    LET s == Chain(judged, declared)
    IN  /\ s <= Higher(judged.base, judged.ceiling)
        /\ s > AtMostHigh => judged.base > AtMostHigh
                             \/ \E i \in 1..Len(Rows(judged, declared)) :
                                   LET r == Rows(judged, declared)[i] IN r.on /\ r.pastHigh

(* Declaring more never lowers a rating, except by declaring the URL       *)
(* itself exposed on purpose, which leaves it at info whatever else is     *)
(* declared (severity.go chain: "each at most once and none skipped        *)
(* because an earlier one applied").                                       *)
MoreNeverLowers ==
    \/ Chain(judged', declared') >= Chain(judged, declared)
    \/ ExposedOnPurpose(judged', declared') /\ Chain(judged', declared') = 0

(* Both, of every grading and every further declaration (severity.go       *)
(* GradeAll).                                                              *)
GradesHold == [][declared' # declared => CriticalEarned' /\ MoreNeverLowers]_severityVars
=============================================================================
