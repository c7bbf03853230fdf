------------------------------ MODULE Report ------------------------------
(***************************************************************************)
(* What the report says of one finding id (internal/engagement/report):    *)
(* which findings are open, what became of each intent.accepted_risks      *)
(* entry, whether the rule decided, how its area is marked and the exit    *)
(* code.  The world's subjects belong to a root asset or to a name under   *)
(* it; a collector reads all of them, then reads are lost one by one: a    *)
(* subject's own read (its judgment abstains) or its place in the listing  *)
(* (it has no judgment and the population is incomplete, and when a limit  *)
(* cut the listing so is the asset).  An id about the asset as a whole has *)
(* one instance on it.  On a host the id is decided by a family of posture *)
(* rules instead, each over its own check.  Days are small naturals;       *)
(* wording and layout are left out.                                        *)
(***************************************************************************)
EXTENDS Integers, FiniteSets, SequencesExt

CONSTANTS
    Owner,         \* subject -> "root" or "under", the asset it is an instance on
    Supersedable,  \* subjects another finding may report in this one's place
    EntryLists,    \* the sequences of acceptance entries a file may hold
    Days,          \* subject -> day of its read, 0 when none was recorded
    Members,       \* the posture rules of the host family
    Rating,        \* the severity the chain left
    Threshold      \* the severity that makes a run exit 1

(* A file's entries are a list; one may name a subject nobody has read. *)
ASSUME EntriesAssumption == \A list \in EntryLists : Len(list) \in Nat /\ DOMAIN list = 1..Len(list)
ASSUME DaysAssumption == DOMAIN Days = DOMAIN Owner /\ \A s \in DOMAIN Days : Days[s] \in Nat

VARIABLES
    live,       \* the subjects, or host rules' parts, where the problem is there
    got,        \* subject -> "read", "unread" (abstained), "unlisted" or "cut"; "none" is no instance
    checks,     \* member -> "whole", "partial", "seen", "failed", "missing" or "elsewhere"
    entries,    \* intent.accepted_risks
    superseded, \* subjects another finding reports in this one's place
    onHost      \* the host family decides the id

reportVars == <<live, got, checks, entries, superseded, onHost>>

Instances == {s \in DOMAIN Owner : got[s] # "none"}
SubjectsOf(asset) == {s \in Instances : Owner[s] = asset}
Unseen == {s \in DOMAIN Owner : got[s] \in {"unlisted", "cut"}}
Listed(asset) == SubjectsOf(asset) \ Unseen
PopulationIncomplete == Unseen # {}
Status == IF \E s \in DOMAIN Owner : got[s] = "cut" THEN "incomplete" ELSE "collected"

-----------------------------------------------------------------------------
(* A collector's judgments and the findings made of them.                  *)

VerdictOn(s) == IF got[s] = "unread" THEN "abstained" ELSE IF s \in live THEN "fired" ELSE "disproved"
Judged(asset, verdict) == {s \in Listed(asset) : VerdictOn(s) = verdict}
Reported(s) == VerdictOn(s) = "fired" /\ s \notin superseded

Names(e, s) == e.asset = Owner[s] /\ e.subject \in {"any", s}

(* effective: the last entry for the asset and id that names the subject   *)
(* or none; 0 for no entry.                                                *)
Latest(S) == IF S = {} THEN 0 ELSE CHOOSE i \in S : \A k \in S : k <= i
Effective(s) == Latest({i \in DOMAIN entries : Names(entries[i], s)})
Expired(e, at) == e.expires # 0 /\ at > e.expires

(* One collection time for an entry and every instance it covers: the      *)
(* latest of their reads, or none when any is unrecorded.                  *)
AcceptanceAt(i) ==
    LET mine == {s \in Listed(entries[i].asset) : Reported(s) /\ Effective(s) = i}
    IN  IF \E s \in mine : Days[s] = 0 THEN 0 ELSE Latest({Days[s] : s \in mine})
Holds(i) == AcceptanceAt(i) # 0 /\ ~Expired(entries[i], AcceptanceAt(i))

AcceptedBy(s) == LET i == Effective(s) IN IF i # 0 /\ Holds(i) THEN i ELSE 0
OpenFindings == {s \in DOMAIN Owner \ Unseen : Reported(s) /\ AcceptedBy(s) = 0}

(* An instance open on a name under the entry's asset: the entry covers    *)
(* its own instances only, but must not say the problem is gone.           *)
OpenUnder(e) == e.asset = "root" /\ \E s \in OpenFindings : Owner[s] = "under" /\ e.subject \in {"any", s}

JudgedOutcome(i) ==
    LET e == entries[i]
        on(verdict) == {s \in Judged(e.asset, verdict) : e.subject \in {"any", s}}
        fired == {s \in on("fired") : Reported(s)}
        whole == /\ Listed(e.asset) # {} /\ Judged(e.asset, "abstained") = {}
                 /\ Status = "collected" /\ ~PopulationIncomplete
    IN  IF fired = {} /\ (on("fired") # {} \/ OpenUnder(e)) THEN "rule_not_decided"
        ELSE IF fired # {} THEN IF \A s \in fired : Effective(s) # i THEN "not_applied"
                                ELSE LET at == AcceptanceAt(i)
                                     IN  IF at = 0 THEN "rule_not_decided" ELSE IF Expired(e, at) THEN "expired" ELSE "applied"
        ELSE IF e.subject # "any" /\ on("disproved") \cup on("abstained") = {}
             THEN IF whole THEN "subject_not_found" ELSE "rule_not_decided"
        ELSE IF on("abstained") = {} /\ on("disproved") # {} THEN "not_matched"
        ELSE "rule_not_decided"

(* judgedAssessments: matched when one fired, not matched when one was     *)
(* disproved, complete when none abstained.                                *)
Assessment(asset) ==
    [status |-> IF Judged(asset, "fired") # {} THEN "matched" ELSE IF Judged(asset, "disproved") # {} THEN "not_matched" ELSE "not_assessed",
     complete |-> Judged(asset, "abstained") = {} /\ Listed(asset) # {}]

-----------------------------------------------------------------------------
(* A host's family of posture rules sharing the id.                        *)

MemberStatus(m) ==
    CASE checks[m] = "elsewhere" -> "not_applicable"
      [] checks[m] \in {"failed", "missing"} -> "not_assessed"
      [] OTHER -> IF m \in live /\ checks[m] # "partial" THEN "matched" ELSE "not_matched"
Answered(m) == MemberStatus(m) \in {"matched", "not_matched"}

(* A package manager that is not installed is excused when a sibling       *)
(* answered.                                                               *)
Excused(m) == checks[m] = "missing" /\ \E x \in Members : Answered(x)

(* Complete when every member that applies answered from a whole read or   *)
(* is excused.                                                             *)
FamilyCompleteOnAnswer == \E m \in Members : Answered(m)
FamilyComplete == \A m \in Members : CASE Answered(m) -> checks[m] = "whole"
                                       [] MemberStatus(m) = "not_applicable" -> TRUE
                                       [] OTHER -> Excused(m)
HostAssessment ==
    LET is(status) == {m \in Members : MemberStatus(m) = status}
        status == IF is("matched") # {} THEN "matched" ELSE IF is("not_matched") # {} THEN "not_matched"
                  ELSE IF is("not_applicable") = Members THEN "not_applicable" ELSE "not_assessed"
    IN  [status |-> status, complete |-> status # "not_assessed" /\ FamilyComplete]

(* The host grader accepts a whole id, by the last entry without a         *)
(* subject, judged at the session that collected the host (HostDay).       *)
HostDay == 1
Applying == Latest({i \in DOMAIN entries : entries[i].asset = "root" /\ entries[i].subject = "any"})
HostOutcome(i) ==
    IF entries[i].asset # "root" THEN "rule_not_decided"
    ELSE IF entries[i].subject # "any" THEN "not_applied"
    ELSE CASE HostAssessment.status = "matched" ->
                IF Applying # i THEN "not_applied" ELSE IF Expired(entries[i], HostDay) THEN "expired" ELSE "applied"
           [] HostAssessment.status = "not_matched" /\ HostAssessment.complete -> "not_matched"
           [] OTHER -> "rule_not_decided"

Outcome(i) == IF onHost THEN HostOutcome(i) ELSE JudgedOutcome(i)

-----------------------------------------------------------------------------
(* The coverage mark of the rule's group, the data.matters_most readout on *)
(* the root, and the exit code.                                            *)

PlanMark ==
    LET decided == Judged("root", "fired") \cup Judged("root", "disproved")
        unknown == Judged("root", "abstained")
        whole == unknown = {} /\ ~PopulationIncomplete
    IN  IF decided # {} THEN IF whole THEN "assessed" ELSE "partial"
        ELSE IF whole THEN "not_applicable" ELSE "not_assessed"

(* The one rule whose instances another finding supersedes is of an area   *)
(* data.matters_most does not raise.                                       *)
MattersMost ==
    LET a == IF onHost THEN HostAssessment ELSE Assessment("root")
        raised == IF onHost THEN a.status = "matched" ELSE \E s \in Listed("root") : Reported(s)
    IN  IF superseded # {} THEN "not_raised"
        ELSE IF raised THEN "raised"
        ELSE IF a.status = "matched" \/ (a.status = "not_matched" /\ a.complete) THEN "read"
        ELSE "not_judged"

HostOpen == HostAssessment.status = "matched" /\ \A i \in DOMAIN entries : HostOutcome(i) # "applied"
OpenAbove == Rating >= Threshold /\ (IF onHost THEN HostOpen ELSE OpenFindings # {})
Exit ==
    IF Status # "collected" THEN 2 ELSE IF OpenAbove THEN 1 ELSE 0

-----------------------------------------------------------------------------
Whole == [s \in DOMAIN Owner |-> "read"]
OnlyOn(S) == [s \in DOMAIN Owner |-> IF s \in S THEN "read" ELSE "none"]
OnePerAsset(S) == \A s, t \in S : Owner[s] = Owner[t] => s = t

(* Intake: an entry for an id reported per subject names one; off a host   *)
(* an entry for any other id names none, and that id has one instance on   *)
(* an asset.  The id whose instances another finding reports is per        *)
(* subject.                                                                *)
NamesOne == \A i \in DOMAIN entries : entries[i].subject # "any"
NamesNone == \A i \in DOMAIN entries : entries[i].subject = "any"
PerSubject == NamesOne /\ got = Whole /\ superseded \in {{}, Supersedable}
PerAsset == NamesNone /\ got \in {OnlyOn(S) : S \in {T \in SUBSET DOMAIN Owner : OnePerAsset(T)}} /\ superseded = {}
ValidWorld == IF onHost THEN got = Whole /\ superseded = {} ELSE PerSubject \/ PerAsset

ReportInit ==
    /\ onHost \in BOOLEAN
    /\ entries \in EntryLists
    /\ ValidWorld
    /\ live \in SUBSET (IF onHost THEN Members ELSE Instances)
    /\ checks = [m \in Members |-> "whole"]

LoseRead(s, how) == got[s] = "read" /\ got' = [got EXCEPT ![s] = how] /\ UNCHANGED <<live, checks, entries, superseded, onHost>>
LoseCheck(m, how) == checks[m] = "whole" /\ checks' = [checks EXCEPT ![m] = how] /\ UNCHANGED <<live, got, entries, superseded, onHost>>

(* A check is lost in part, misses or still shows the problem, fails, or,  *)
(* where there is nothing to find, has no command here or belongs to       *)
(* another platform.                                                       *)
ReportNext ==
    \/ ~onHost /\ \E s \in DOMAIN Owner, how \in {"unread", "unlisted", "cut"} : LoseRead(s, how)
    \/ onHost /\ \E m \in Members, how \in {"partial", "failed"} : LoseCheck(m, how)
    \/ onHost /\ \E m \in Members \cap live : LoseCheck(m, "seen")
    \/ onHost /\ \E m \in Members \ live, how \in {"missing", "elsewhere"} : LoseCheck(m, how)

-----------------------------------------------------------------------------
(* Exit 0 is said only when every root was collected and every instance    *)
(* that was read is under the threshold, superseded, or accepted at the    *)
(* time it was read (build.go exit, openAtOrAbove).                        *)
ExitEarned ==
    Exit = 0 /\ Rating >= Threshold =>
        IF onHost THEN HostAssessment.status = "matched" => Applying # 0 /\ ~Expired(entries[Applying], HostDay)
        ELSE \A s \in live \ superseded : got[s] # "cut" /\ (got[s] = "read" => AcceptedBy(s) # 0)

(* An entry is said to be applied exactly when a finding is accepted under *)
(* it, and every finding whose entry is expired, undated or overruled is   *)
(* open: the findings, an acceptance's time and its outcome read one set   *)
(* (judged.go reported, acceptanceAt, effective, judgedOutcome); and the   *)
(* exit code follows from the same (ExitEarned).                           *)
OutcomesAgree ==
    /\ ~onHost => \A i \in DOMAIN entries :
         (Outcome(i) = "applied") <=> \E s \in DOMAIN Owner \ Unseen : Reported(s) /\ AcceptedBy(s) = i
    /\ ExitEarned

(* An absence the report states is one it read: "likely fixed" and         *)
(* "subject not found" over any listing, a data.matters_most "read" over a *)
(* whole one, and on a host whatever checks failed, are never said of an   *)
(* instance that is there (build.go outcome, judged.go judgedOutcome,      *)
(* host.go assessments, matters.go mattersMost; docs/spec/report.md:974).  *)
Gone(i) == LET mine == IF onHost THEN live ELSE {s \in live \ superseded : Names(entries[i], s)} IN mine = {}
AbsenceEarned ==
    /\ \A i \in DOMAIN entries : Outcome(i) \in {"subject_not_found", "not_matched"} => Gone(i)
    /\ MattersMost = "read" /\ Unseen = {} => live \cap (IF onHost THEN Members ELSE SubjectsOf("root")) = {}
    /\ ~onHost /\ PlanMark = "assessed" => \A s \in SubjectsOf("root") : got[s] = "read"

(* What the report says of acceptances, absence and the exit code agrees   *)
(* with the findings and with what was read of them.                       *)
ReportHonest == OutcomesAgree /\ AbsenceEarned
=============================================================================
