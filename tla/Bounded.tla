------------------------------ MODULE Bounded -------------------------------
(***************************************************************************)
(* The bounded arm (internal/bounded): candidates are enumerated from the  *)
(* fact sheet and filtered by code, each one left is resolved by at most   *)
(* one read from a fixed table, asked about once, and decided by code over *)
(* the probabilities that came back.  Probabilities are levels, ordered by *)
(* the thresholds Decide compares them with.                               *)
(***************************************************************************)
EXTENDS Runner, Sequences, FiniteSets

CONSTANTS
    Candidates,     \* the sequences of records the fact sheet may hold
    MaxItems,       \* candidates judged in one run
    MaxFollowUps    \* Budgets.AgentChecks: the reads of one run

Kinds == <<"listener", "persistence", "suid", "admin">>
KindSet == {Kinds[n] : n \in 1..4}
FactRecords == [kind : KindSet, key : Nat, cut : BOOLEAN, blank : BOOLEAN, local : BOOLEAN, declared : BOOLEAN,
                named : BOOLEAN, writable : BOOLEAN, entry : {"none", "unit", "cron", "launchd"}, grant : BOOLEAN]

ASSUME BoundedAssumption == Candidates \subseteq Seq(FactRecords) /\ MaxItems \in Nat /\ MaxFollowUps \in Nat

VARIABLES
    items,    \* Result.Items: the candidates and what became of each
    place,    \* the loop's place: the item, the step, and how the run ended
    reads,    \* resolver.reads
    units     \* resolver.units: whether the unit directory was listed
boundedVars == <<items, place, reads, units>>

(* A probability is below Unexplained, below NotStandard, between, at      *)
(* Affirmative, or at Strong.                                              *)
Levels == 0..4
Unexplained == 1
NotStandard == 2
Affirmative == 3
Strong == 4

(* source and item: evidence that lost bytes is never judged. *)
Sufficiency(r) == IF r.cut \/ r.blank THEN "insufficient" ELSE "judged"

(* listeners: a sufficient candidate is settled by code when it is bound to*)
(* loopback or declared; a shortened or missing process name leaves nothing*)
(* to recognise.                                                           *)
ListenerStatus(r) ==
    CASE Sufficiency(r) # "judged"  -> "insufficient"
      [] r.local \/ r.declared      -> "filtered"
      [] ~r.named                   -> "insufficient"
      [] OTHER                      -> "judged"

(* admins: root, a distribution's own principals and a grant of specific   *)
(* commands are settled by code, whatever the capture lost.                *)
AdminStatus(r) == IF r.declared THEN "filtered" ELSE Sufficiency(r)

ItemOf(r) ==
    [kind |-> r.kind, key |-> r.key, writable |-> r.writable, entry |-> r.entry,
     status |-> CASE r.kind = "listener" -> ListenerStatus(r)
                  [] r.kind = "admin"    -> AdminStatus(r)
                  [] OTHER               -> Sufficiency(r),
     sent |-> FALSE, answered |-> FALSE, read |-> "none", filed |-> "no", signal |-> FALSE]

(* Enumerate: kind by kind.  The first record of a port and protocol stands*)
(* for the later ones, and a grant or membership is dropped when the       *)
(* account is a candidate already.  There is one such order.               *)
First(recs) ==
    {k \in DOMAIN recs : recs[k].kind = "listener" \/ recs[k].grant =>
        \A j \in 1..(k - 1) : recs[j].kind # recs[k].kind \/ recs[j].key # recs[k].key}
KindOrder(kind) == CHOOSE n \in 1..4 : Kinds[n] = kind
ListedBefore(recs, i, j) ==
    \/ KindOrder(recs[i].kind) < KindOrder(recs[j].kind)
    \/ recs[i].kind = recs[j].kind /\ i < j
Enumerate(recs) ==
    LET places == 1..Cardinality(First(recs))
        orders == {o \in [places -> First(recs)] : \A m, n \in places : m < n => ListedBefore(recs, o[m], o[n])}
    IN  {[n \in places |-> ItemOf(recs[o[n]])] : o \in orders}

BoundedInit ==
    /\ \E recs \in Candidates : items \in Enumerate(recs)
    /\ place = [at |-> 1, step |-> "item", judged |-> 0, ended |-> "complete", over |-> FALSE]
    /\ reads = 0 /\ units = "unknown"

-----------------------------------------------------------------------------
Here == items[place.at]
NextItem == [place EXCEPT !.at = @ + 1, !.step = "item"]

(* The loop's head: settled items are passed over, the item budget marks   *)
(* the rest by name.                                                       *)
JudgeItem ==
    IF place.judged >= MaxItems
    THEN /\ items' = [items EXCEPT ![place.at].status = "over_budget"]
         /\ place' = [NextItem EXCEPT !.ended = "items"]
    ELSE /\ place' = [place EXCEPT !.step = "read", !.judged = @ + 1]
         /\ UNCHANGED items
TakeItem ==
    /\ place.step = "item" /\ place.at <= Len(items)
    /\ IF Here.status = "judged" THEN JudgeItem ELSE place' = NextItem /\ UNCHANGED items
    /\ UNCHANGED <<reads, units>>

(* plan: only a persistence entry has a read.  A unit's file is read when  *)
(* the directory, listed once per run, holds it, a cron entry's script when*)
(* the command starts with a plain path, a launchd job's file always.      *)
Planned(present) == Here.entry = "launchd" \/ present

(* The runner's answer to the read of a file: the path policy may deny it, *)
(* or have its stat stand in; a command that failed, or a capture that was *)
(* cut or redacted, leaves a note.                                         *)
Paths == [denied : BOOLEAN, sensitive : BOOLEAN, content : BOOLEAN, metadata : BOOLEAN]
FileRead(p, whole) == IF whole /\ Substitute("content", Decide(p)) # "denied" THEN "output" ELSE "note"

(* resolve: the budget is asked once, before the listing and the read. *)
Resolve ==
    /\ place.step = "read"
    /\ \/ /\ reads < MaxFollowUps /\ Here.kind = "persistence"
          /\ \E present, whole \in BOOLEAN, p \in Paths :
                LET listing == Here.entry = "unit" /\ units = "unknown" IN
                /\ units' = IF listing THEN "listed" ELSE units
                /\ reads' = reads + (IF listing THEN 1 ELSE 0) + (IF Planned(present) THEN 1 ELSE 0)
                /\ items' = IF Planned(present) THEN [items EXCEPT ![place.at].read = FileRead(p, whole)] ELSE items
       \/ ~(reads < MaxFollowUps /\ Here.kind = "persistence") /\ UNCHANGED <<reads, units, items>>
    /\ place' = [place EXCEPT !.step = "ask"]

(* Decide: every rule needs an affirmative signal from the item itself;    *)
(* that the context explains nothing only withholds an excuse.             *)
DecideOnSilence(it, a) ==
    [file   |-> a.explained < Unexplained \/ (it.kind = "persistence" /\ a.hallmarks >= Strong),
     strong |-> FALSE]
DecideItem(it, a) ==
    CASE it.kind = "listener" ->
           [file |-> a.vendor < NotStandard /\ a.explained < Unexplained, strong |-> a.sensitive >= Affirmative]
      [] it.kind = "persistence" ->
           [file   |-> a.hallmarks >= Strong \/ (a.hallmarks >= Affirmative /\ a.vendor < NotStandard),
            strong |-> a.hallmarks >= Strong]
      [] it.kind = "suid" ->
           [file   |-> a.vendor < NotStandard /\ (it.writable \/ a.hallmarks >= Affirmative)
                       /\ a.explained < Unexplained,
            strong |-> it.writable]
      [] OTHER ->
           [file |-> a.person < NotStandard /\ a.explained < Unexplained, strong |-> FALSE]

(* validAnswers: one probability in range per question asked, or none.     *)
Asked(kind) == CASE kind = "listener"    -> {"explained", "vendor", "sensitive"}
                 [] kind = "admin"       -> {"explained", "person"}
                 [] OTHER                -> {"explained", "hallmarks", "vendor"}
Answers(kind) == {a \in [{"explained", "vendor", "hallmarks", "sensitive", "person"} -> Levels] :
                    \A q \in DOMAIN a \ Asked(kind) : a[q] = 0}

(* What the item itself says against it, apart from the operator's notes. *)
Signal(it, a) ==
    \/ a.hallmarks >= Affirmative
    \/ it.kind \in {"listener", "suid"} /\ a.vendor < NotStandard
    \/ it.kind = "admin" /\ a.person < NotStandard

(* An error ends the run only when its time is up; an unusable answer, and *)
(* a finding the store rejects, are recorded on the item.                  *)
Ask ==
    /\ place.step = "ask"
    /\ \/ \E failed \in BOOLEAN :
             /\ items' = [items EXCEPT ![place.at].sent = TRUE, ![place.at].status = "no_answer"]
             /\ place' = IF failed /\ place.over
                         THEN [place EXCEPT !.step = "done", !.ended = "run timeout"] ELSE NextItem
       \/ \E a \in Answers(Here.kind), stored \in BOOLEAN :
             LET d == DecideItem(Here, a) IN
             /\ items' = [items EXCEPT ![place.at].sent = TRUE, ![place.at].answered = TRUE,
                             ![place.at].signal = Signal(Here, a),
                             ![place.at].filed = IF d.file /\ stored THEN (IF d.strong THEN "high" ELSE "medium")
                                                 ELSE "no"]
             /\ place' = NextItem
    /\ UNCHANGED <<reads, units>>

BoundedTimesOut ==
    /\ place.step # "done" /\ ~place.over /\ place' = [place EXCEPT !.over = TRUE]
    /\ UNCHANGED <<items, reads, units>>
BoundedReturns ==
    /\ place.step = "item" /\ place.at > Len(items)
    /\ place' = [place EXCEPT !.step = "done"]
    /\ UNCHANGED <<items, reads, units>>

BoundedNext == TakeItem \/ Resolve \/ Ask \/ BoundedTimesOut \/ BoundedReturns

-----------------------------------------------------------------------------
(* A finding is filed only for an item that was sent and answered, within  *)
(* the item budget, and only for what the item itself showed: the silence  *)
(* of the operator's notes files nothing (Run, Decide).                    *)
FiledOnSignal ==
    /\ \A k \in DOMAIN items : items[k].filed # "no" =>
          items[k].sent /\ items[k].answered /\ items[k].signal /\ items[k].status = "judged"
    /\ Cardinality({k \in DOMAIN items : items[k].sent}) <= MaxItems
    /\ \A k \in DOMAIN items : items[k].status \in {"filtered", "insufficient", "over_budget"} => ~items[k].sent
=============================================================================
