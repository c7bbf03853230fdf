---------------------------- MODULE HostPromise -----------------------------
(***************************************************************************)
(* What the collection of a host promises, apart from how it reaches the   *)
(* host: checks are answered one after the other and only on a session     *)
(* that was proved to pass commands unaltered, a session found lost answers*)
(* no further check, and the one status recorded at the end tells a whole  *)
(* reading, one that a limit cut, one that a lost session cut, and a host  *)
(* that was not read apart.                                                *)
(***************************************************************************)
EXTENDS Naturals

CONSTANT Planned    \* how many checks the plan has

VARIABLES
    trust,      \* what is known of the session: "none", "proved", "altered" or "lost"
    answered,   \* how many planned checks have a result
    status      \* what is recorded of the host, "open" until it is

vars == <<trust, answered, status>>

Init ==
    /\ trust \in {"none", "proved"}     \* a local target needs no proof
    /\ answered = 0 /\ status = "open"

Prove ==
    /\ status = "open" /\ trust = "none" /\ trust' \in {"proved", "altered"}
    /\ UNCHANGED <<answered, status>>

Answer ==
    /\ status = "open" /\ trust = "proved" /\ answered < Planned
    /\ answered' = answered + 1 /\ trust' \in {"proved", "lost"}
    /\ UNCHANGED status

Statuses ==
    (IF trust = "proved" /\ answered = Planned THEN {"collected"} ELSE {})
    \cup (IF trust = "proved" /\ answered < Planned THEN {"incomplete_limit"} ELSE {})
    \cup (IF trust = "lost" THEN {"incomplete_failed"} ELSE {})
    \cup (IF answered = 0 /\ trust \in {"none", "altered", "proved"} THEN {"refused", "failed", "unread"} ELSE {})

Close ==
    /\ status = "open" /\ status' \in Statuses
    /\ UNCHANGED <<trust, answered>>

Next == Prove \/ Answer \/ Close
Spec == Init /\ [][Next]_vars
=============================================================================
