------------------------------ MODULE Selection ------------------------------
(***************************************************************************)
(* Check's reads of a GitHub organization's repositories                   *)
(* (collector/github/selection.go): Plan's tier order, then one kind of    *)
(* read at a time over every repository under the request budget.  A kind  *)
(* costs one request or two; an answer may stop everything after it.       *)
(***************************************************************************)
EXTENDS Naturals, Sequences, SequencesExt, FiniteSets

CONSTANTS
    RepositorySets,    \* what inventory and the engagement file may name
    RepositoryBudget,  \* requests per organization
    NumKinds           \* access, ci, secret_alerts, dependabot_alerts, secret_locations

\* An organization without a repository leaves nothing to read.
ASSUME SelectionAssumption ==
    /\ \A rs \in RepositorySets : IsFiniteSet(rs) /\ rs # {}
    /\ \A rs \in RepositorySets : \A r \in rs : r.declared \in BOOLEAN /\ r.name \in Nat /\ r.pushed \in Nat
    /\ RepositoryBudget \in Nat /\ NumKinds \in Nat \ {0}

VARIABLE sel      \* CollectRepositories: the order, where the loops are, what each repository got
selVars == <<sel>>

Access == 1

(* Select: the lowest tier wins, and a declaration outranks what is only   *)
(* observed of an archived or other repository.                            *)
Tier(r) ==
    IF r.deploys = "production" THEN 1
    ELSE IF r.store THEN 2
    ELSE IF r.public THEN 3
    ELSE IF r.matters THEN 4
    ELSE IF r.deploys = "staging" THEN 5
    ELSE IF r.declared THEN 6
    ELSE IF r.archived THEN 8 ELSE 7
TierBefore(a, b) ==
    IF Tier(a) # Tier(b) THEN Tier(a) < Tier(b)
    ELSE IF a.pushed # b.pushed THEN a.pushed > b.pushed ELSE a.name < b.name
Select(rs) == {s \in [1..Cardinality(rs) -> rs] : \A i, j \in DOMAIN s : i < j => TierBefore(s[i], s[j])}

NoSelection == [order |-> <<>>, kind |-> Access, cut |-> <<>>, done |-> <<>>]
SelInit ==
    \E rs \in RepositorySets : \E order \in Select(rs) :
        sel = [order |-> order, kind |-> Access, at |-> 1, spent |-> 0, stopped |-> FALSE, object |-> {}, noObject |-> {},
               done |-> [k \in 1..NumKinds |-> {}], cut |-> [k \in 1..NumKinds |-> {}], reached |-> [k \in 1..NumKinds |-> {}]]

SelOver == sel.kind > NumKinds
Here == sel.order[sel.at]
Step(s) == IF s.at < Len(s.order) /\ ~s.stopped THEN [s EXCEPT !.at = @ + 1] ELSE [s EXCEPT !.at = 1, !.kind = @ + 1]

(* What the loop does not start: a kind after a cut access kind is cut     *)
(* too, one with no object is skipped, and the budget spares what is       *)
(* declared.                                                               *)
CutHere == \/ sel.kind # Access /\ Here \in sel.cut[Access]
           \/ /\ sel.kind = Access \/ Here \in sel.object
              /\ sel.spent >= RepositoryBudget /\ ~Here.declared
PassHere == sel.kind # Access /\ Here \notin sel.cut[Access] /\ Here \notin sel.object

SkipKind ==
    /\ ~SelOver /\ (sel.stopped \/ PassHere)
    /\ sel' = Step(sel)
CutKind ==
    /\ ~SelOver /\ ~sel.stopped /\ CutHere
    /\ sel' = Step([sel EXCEPT !.cut[sel.kind] = @ \cup {Here}])

(* A kind started on a repository is finished there.  The access kind      *)
(* reads the object: found, not found, or a read that failed; a later kind *)
(* with nothing to ask is "found" with no request.  reached counts what    *)
(* was read.                                                               *)
ReadKind(sent, object, stops) ==
    /\ ~SelOver /\ ~sel.stopped /\ ~CutHere /\ ~PassHere
    /\ sel.kind = Access \/ object # "missing"
    /\ sent = 0 => (stops \/ object = "failed" \/ sel.kind # Access)
    /\ sel' = Step([sel EXCEPT
          !.spent = @ + sent,
          !.stopped = stops,
          !.done[sel.kind] = @ \cup {Here},
          !.object = IF sel.kind = Access /\ object = "found" /\ sent > 0 THEN @ \cup {Here} ELSE @,
          !.noObject = IF sel.kind = Access /\ object = "missing" /\ sent > 0 THEN @ \cup {Here} ELSE @,
          !.reached[sel.kind] = IF (sel.kind = Access /\ sent > 0 /\ object = "found") \/ (sel.kind # Access /\ (sent > 0 \/ object = "found"))
                               THEN @ \cup {Here} ELSE @])

SelNext == \/ SkipKind \/ CutKind
           \/ \E sent \in 0..2, object \in {"found", "missing", "failed"}, stops \in BOOLEAN : ReadKind(sent, object, stops)

UnreadWhenMissing == sel.noObject # {}
(* Evidence.With: whether some selected repository was not read. *)
RepositoriesUnread == sel.object # ToSet(sel.order)

-----------------------------------------------------------------------------
(* The budget cuts from the end of Plan's order: no repository of a later  *)
(* place is read for a kind that the budget denied an earlier one, and     *)
(* none that is declared is cut, though the requests are counted over      *)
(* kinds, repositories and declared ones alike (selection.go,              *)
(* CollectRepositories).                                                   *)
BudgetFollowsOrder ==
    \A k \in DOMAIN sel.cut, i \in DOMAIN sel.order :
        sel.order[i] \in sel.cut[k] =>
            /\ ~sel.order[i].declared
            /\ \A j \in (i + 1)..Len(sel.order) : sel.order[j] \in sel.done[k] => sel.order[j].declared

(* What was not read has its reason: at the end a kind that did not run on *)
(* a repository was cut by the budget, had no object, or came after the    *)
(* gate's stop, and a repository nothing was read of leaves the evidence   *)
(* marked unread (selection.go, CollectRepositories, With).                *)
UnreadExplained ==
    SelOver => \A k \in DOMAIN sel.done, r \in ToSet(sel.order) :
        /\ r \in sel.done[k] \/ r \in sel.cut[k] \/ sel.stopped \/ (k # Access /\ r \notin sel.object)
        /\ r \notin sel.reached[Access] => (RepositoriesUnread /\ r \notin sel.reached[k])

(* What the request budget costs, and what the evidence says of it.        *)
BudgetHonest == BudgetFollowsOrder /\ UnreadExplained
=============================================================================
