------------------------------ MODULE MCResume ------------------------------
(* A run of up to MaxSessions sessions whose engagement file changes       *)
(* between A and B, or that --host built (C); dev is a build that names no *)
(* commit.                                                                 *)
EXTENDS Resume

CONSTANTS A, B, C, dev, fa, fb

MCFp == [c \in Configs |-> IF c \in {A, C} THEN fa ELSE IF c = B THEN fb ELSE None]

(* A behaviour's sessions are cut (twice only if of an engagement file and  *)
(* a release), or of one engagement file whose outputs are edited once, or  *)
(* of one engagement file whose Scope document is edited up to three times, *)
(* uncut, or of one engagement file at any times, uncut.                    *)
VARIABLE hard
Fits ==
    /\ hard = "cut" => /\ start' = 0 /\ edits' = 0
                       /\ config' \in {C, dev} => faults' <= 1
                       /\ id' = 1 => config' # B     \* A and B are alike
    /\ hard = "edit" => start' = 0 /\ config' \in {None, A} /\ faults' <= 1 /\ edits' <= 1
    /\ hard = "again" => start' = 0 /\ config' \in {None, A} /\ faults' = 0 /\ dirty' \subseteq {"scope"}
    /\ hard = "age" => config' \in {None, A} /\ faults' = 0 /\ edits' = 0
MCInit == hard \in {"cut", "edit", "again", "age"} /\ Init
MCSpec == MCInit /\ [][Next /\ UNCHANGED hard /\ Fits]_<<vars, hard>>
=============================================================================
